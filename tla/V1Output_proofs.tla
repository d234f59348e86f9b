-------------------------- MODULE V1Output_proofs --------------------------
(***************************************************************************)
(* Proofs about the output commands, for every number of commands and of   *)
(* sessions: types, one attempt for each command on its own session, no    *)
(* claimable request after the unload; then whose reply a command may be   *)
(* given, when time-outs count as idle, and that a certain failure stays   *)
(* certain.                                                                *)
(***************************************************************************)
EXTENDS V1Output, TLAPS

USE DEF callerVars, targetVars, counterVars, taskVars, requestVars, hubVars,
        workerVars, deviceVars

\* The worker that sends knows what it sends.
SendsClaimed == phase = "send" => claimed \in Commands

\* A request that may still be claimed was never sent, and belongs to an
\* execute that has queued it.
QueuedUnsent ==
  \A c \in Commands :
    /\ caller[c] \in {"idle", "check"} => task[c] = "none"
    /\ task[c] \in {"none", "acquire", "enqueue"} => sentOn[c] = 0 /\ req[c] = "none"
    /\ req[c] = "queued" => sentOn[c] = 0
    /\ pending = c => task[c] \in {"wait", "except", "idleoff", "finally"}

IInv == TypeOK /\ SendsClaimed /\ QueuedUnsent /\ ClosedQuiet

LEMMA NoSession == 0 \in Sessions
  BY BoundAssumption DEF Sessions

LEMMA PostType ==
  ASSUME TypeOK, NEW c \in Commands, NEW what \in {"body", "error"}, Post(c, what)
  PROVE  answer' \in [Commands -> {"none", "body", "error"}]
  BY DEF TypeOK, Post

LEMMA InitIInv == Init => IInv
<1> SUFFICES ASSUME Init PROVE IInv
  OBVIOUS
<1>1. TypeOK
  <2>1. /\ sentOn \in [Commands -> Sessions] /\ reqSession \in [Commands -> Sessions]
        /\ answeredBy \in [Commands -> Commands \cup {None}]
        /\ before \in [Commands -> Nat]
    BY NoSession DEF Init
  <2>2. /\ caller \in [Commands -> {"idle", "check", "waiting", "done"}]
        /\ verdict \in [Commands -> {"none", "ok", "certain", "uncertain"}]
        /\ task \in [Commands -> {"none", "acquire", "enqueue", "wait", "except",
                                  "idleoff", "finally", "release", "done"}]
        /\ ending \in [Commands -> {"ok", "error"}]
        /\ cancelled \in [Commands -> BOOLEAN] /\ late \in [Commands -> BOOLEAN]
        /\ req \in [Commands -> {"none", "queued", "sent", "answered", "expired",
                                 "cancelled", "send_failed", "session_closed"}]
        /\ answer \in [Commands -> {"none", "body", "error"}]
    BY DEF Init
  <2>3. /\ panel \in [Commands -> Panels] /\ ctl = None /\ target = None
        /\ shut = "open" /\ attempts \in Nat /\ lastResult = "none"
        /\ targetSession \in Sessions
        /\ gaveUp \in BOOLEAN /\ busy = None /\ pending = None /\ uncertain \in Sessions
    BY NoSession DEF Init
  <2>4. stopped \in BOOLEAN /\ idleOk \in BOOLEAN
    BY DEF Init
  <2>5. activeCh \in 1..2 /\ session \in Sessions /\ made \in Sessions
    BY NoSession DEF Init
  <2>6. phase = "down" /\ claimed = None /\ unanswered \subseteq Commands
    BY DEF Init
  <2> QED BY <2>1, <2>2, <2>3, <2>4, <2>5, <2>6 DEF TypeOK
<1>2. SendsClaimed /\ QueuedUnsent /\ ClosedQuiet
  BY CommandsAssumption DEF Init, SendsClaimed, QueuedUnsent, ClosedQuiet
<1> QED BY <1>1, <1>2 DEF IInv

LEMMA NextType ==
  ASSUME TypeOK, SendsClaimed, [Next]_vars
  PROVE  TypeOK' /\ SendsClaimed'
<1>1. ASSUME NEW c \in Commands, CallerStep(c) PROVE TypeOK' /\ SendsClaimed'
  <2>1. CASE CommandBusy(c)
    BY <2>1, CommandsAssumption DEF CommandBusy, Settle, TypeOK, SendsClaimed, Sessions
  <2>2. CASE UnlockBegin(c)
    BY <2>2, CommandsAssumption DEF UnlockBegin, Begin, TypeOK, SendsClaimed, Sessions
  <2>3. CASE UnlockRefused(c)
    BY <2>3, CommandsAssumption DEF UnlockRefused, Settle, Failure, TypeOK, SendsClaimed, Sessions
  <2>4. CASE UnlockSubmit(c)
    BY <2>4, CommandsAssumption DEF UnlockSubmit, TypeOK, SendsClaimed, Sessions
  <2>5. CASE UnlockResult(c)
    BY <2>5, CommandsAssumption DEF UnlockResult, Settle, Failure, TypeOK, SendsClaimed, Sessions
  <2>6. CASE UnlockImpatient(c)
    BY <2>6, CommandsAssumption DEF UnlockImpatient, Settle, Failure, TypeOK, SendsClaimed, Sessions
  <2>7. CASE TargetRefused(c)
    BY <2>7, CommandsAssumption DEF TargetRefused, Settle, Begin, TypeOK, SendsClaimed, Sessions
  <2>8. CASE TargetBegin(c)
    BY <2>8, CommandsAssumption DEF TargetBegin, Begin, TypeOK, SendsClaimed, Sessions
  <2>9. CASE TargetEnd(c)
    BY <2>9, CommandsAssumption, NoSession DEF TargetEnd, Settle, Failure, TypeOK, SendsClaimed
  <2>10. CASE TargetCancel(c)
    BY <2>10, CommandsAssumption DEF TargetCancel, TypeOK, SendsClaimed, Sessions
  <2> QED BY <1>1, <2>1, <2>2, <2>3, <2>4, <2>5, <2>6, <2>7, <2>8, <2>9, <2>10 DEF CallerStep
<1>2. ASSUME NEW c \in Commands, ExecuteStep(c) PROVE TypeOK' /\ SendsClaimed'
  <2>1. CASE AcquireFails(c)
    BY <2>1, CommandsAssumption DEF AcquireFails, Goto, TypeOK, SendsClaimed, Sessions
  <2>2. CASE AcquireReturns(c)
    BY <2>2, CommandsAssumption DEF AcquireReturns, Goto, TypeOK, SendsClaimed, Sessions
  <2>3. CASE Enqueue(c)
    BY <2>3, CommandsAssumption DEF Enqueue, Goto, TypeOK, SendsClaimed, Sessions
  <2>4. CASE Late(c)
    BY <2>4, CommandsAssumption DEF Late, TypeOK, SendsClaimed, Sessions
  <2>5. CASE WaitEnds(c)
    BY <2>5, CommandsAssumption DEF WaitEnds, Goto, Wakes, TypeOK, SendsClaimed, Sessions
  <2>6. CASE Accepted(c)
    BY <2>6, CommandsAssumption DEF Accepted, Goto, Ends, Wakes, TypeOK, SendsClaimed, Sessions
  <2>7. CASE RefusedByDevice(c)
    BY <2>7, CommandsAssumption DEF RefusedByDevice, Goto, Wakes, TypeOK, SendsClaimed, Sessions
  <2>8. CASE DecodeFails(c)
    BY <2>8, CommandsAssumption DEF DecodeFails, Goto, Wakes, TypeOK, SendsClaimed, Sessions
  <2>9. CASE Except(c)
    BY <2>9, CommandsAssumption DEF Except, Goto, TypeOK, SendsClaimed, Sessions
  <2>10. CASE IdleOff(c)
    BY <2>10, CommandsAssumption DEF IdleOff, Goto, TypeOK, SendsClaimed, Sessions
  <2>11. CASE Finally(c)
    BY <2>11, CommandsAssumption, NoSession DEF Finally, Goto, TypeOK, SendsClaimed
  <2>12. CASE Release(c)
    BY <2>12, CommandsAssumption DEF Release, Goto, Ends, TypeOK, SendsClaimed, Sessions
  <2> QED BY <1>2, <2>1, <2>2, <2>3, <2>4, <2>5, <2>6, <2>7, <2>8, <2>9, <2>10, <2>11, <2>12 DEF ExecuteStep
<1>3. CASE WorkerStep
  <2>1. ASSUME NEW ch \in 1..2, Connect(ch) PROVE TypeOK' /\ SendsClaimed'
    <3>1. made' \in Sessions /\ session' \in Sessions
      BY <2>1, BoundAssumption DEF Connect, TypeOK, Sessions
    <3>2. /\ phase' = "login" /\ activeCh' \in 1..2 /\ idleOk' \in BOOLEAN
          /\ unanswered' \subseteq Commands
      BY <2>1 DEF Connect
    <3>3. UNCHANGED <<callerVars, targetVars, counterVars, taskVars, requestVars, stopped,
                      claimed, sentOn, answeredBy, shut>>
      BY <2>1 DEF Connect
    <3> QED BY <3>1, <3>2, <3>3 DEF TypeOK, SendsClaimed
  <2>2. ASSUME NEW r \in Commands \cup {None}, Observe(r) PROVE TypeOK' /\ SendsClaimed'
    BY <2>2, CommandsAssumption DEF Observe, Post, TypeOK, SendsClaimed, Sessions
  <2>3. CASE Login
    BY <2>3, CommandsAssumption DEF Login, TypeOK, SendsClaimed, Sessions
  <2>4. CASE NothingToSend
    BY <2>4, CommandsAssumption DEF NothingToSend, TypeOK, SendsClaimed, Sessions
  <2>5. CASE ClaimRefused
    BY <2>5, CommandsAssumption DEF ClaimRefused, Post, Servable, TypeOK, SendsClaimed, Sessions
  <2>6. CASE Claim
    BY <2>6, CommandsAssumption DEF Claim, Servable, TypeOK, SendsClaimed, Sessions
  <2>7. CASE Send
    BY <2>7, CommandsAssumption DEF Send, TypeOK, SendsClaimed, Sessions
  <2>8. CASE SendFails
    BY <2>8, CommandsAssumption DEF SendFails, Post, TypeOK, SendsClaimed, Sessions
  <2>9. CASE MediaClosed
    <3>1. answer' \in [Commands -> {"none", "body", "error"}]
      BY <2>9, PostType, CommandsAssumption DEF MediaClosed, TypeOK
    <3>2. uncertain' \in Sessions
      BY <2>9, NoSession DEF MediaClosed, TypeOK
    <3>3. req' \in [Commands -> {"none", "queued", "sent", "answered", "expired",
                                 "cancelled", "send_failed", "session_closed"}]
      BY <2>9, CommandsAssumption DEF MediaClosed, TypeOK
    <3>4. idleOk' \in BOOLEAN /\ phase' = "closing"
      BY <2>9 DEF MediaClosed
    <3>5. UNCHANGED <<callerVars, targetVars, counterVars, taskVars, pending, reqSession, late,
                      hubVars, session, made, claimed, deviceVars, shut>>
      BY <2>9 DEF MediaClosed
    <3> QED BY <3>1, <3>2, <3>3, <3>4, <3>5 DEF TypeOK, SendsClaimed
  <2>10. CASE SessionClosed
    BY <2>10, CommandsAssumption, NoSession DEF SessionClosed, TypeOK, SendsClaimed
  <2> QED BY <1>3, <2>1, <2>2, <2>3, <2>4, <2>5, <2>6, <2>7, <2>8, <2>9, <2>10 DEF WorkerStep
<1>4. CASE StopStep
  <2>1. CASE StopBegin
    BY <2>1, CommandsAssumption DEF StopBegin, TypeOK, SendsClaimed, Sessions
  <2>2. CASE CloseFlag
    BY <2>2, CommandsAssumption DEF CloseFlag, TypeOK, SendsClaimed, Sessions
  <2>3. CASE Close
    <3>1. answer' \in [Commands -> {"none", "body", "error"}]
      BY <2>3, PostType, CommandsAssumption DEF Close, TypeOK
    <3>2. uncertain' \in Sessions /\ idleOk' \in BOOLEAN
      <4>1. CASE pending = None
        BY <2>3, <4>1 DEF Close, TypeOK
      <4>2. CASE pending \in Commands
        <5>1. idleOk' = (idleOk /\ reqSession[pending] # session)
          BY <2>3, <4>2, CommandsAssumption DEF Close
        <5>2. uncertain' \in Sessions
          BY <2>3, <4>2, CommandsAssumption DEF Close, TypeOK
        <5> QED BY <5>1, <5>2
      <4> QED BY <4>1, <4>2 DEF TypeOK
    <3>3. req' \in [Commands -> {"none", "queued", "sent", "answered", "expired",
                                 "cancelled", "send_failed", "session_closed"}]
      BY <2>3, CommandsAssumption DEF Close, TypeOK
    <3>4. cancelled' \in [Commands -> BOOLEAN]
      BY <2>3 DEF Close, TypeOK
    <3> QED BY <2>3, <3>1, <3>2, <3>3, <3>4 DEF Close, TypeOK, SendsClaimed
  <2> QED BY <1>4, <2>1, <2>2, <2>3 DEF StopStep
<1>5. CASE UNCHANGED vars
  BY <1>5 DEF vars, TypeOK, SendsClaimed, Sessions
<1> QED BY <1>1, <1>2, <1>3, <1>4, <1>5 DEF Next, Unloaded

LEMMA NextQueued ==
  ASSUME TypeOK, SendsClaimed, QueuedUnsent, [Next]_vars
  PROVE  QueuedUnsent'
<1>1. ASSUME NEW c \in Commands, CallerStep(c) PROVE QueuedUnsent'
  <2>1. CASE CommandBusy(c)
    BY <2>1 DEF CommandBusy, Settle, QueuedUnsent, TypeOK
  <2>2. CASE UnlockBegin(c)
    BY <2>2 DEF UnlockBegin, Begin, QueuedUnsent, TypeOK
  <2>3. CASE UnlockRefused(c)
    BY <2>3 DEF UnlockRefused, Settle, Failure, QueuedUnsent, TypeOK
  <2>4. CASE UnlockSubmit(c)
    BY <2>4 DEF UnlockSubmit, QueuedUnsent, TypeOK
  <2>5. CASE UnlockResult(c)
    BY <2>5 DEF UnlockResult, Settle, Failure, QueuedUnsent, TypeOK
  <2>6. CASE UnlockImpatient(c)
    BY <2>6 DEF UnlockImpatient, Settle, Failure, QueuedUnsent, TypeOK
  <2>7. CASE TargetRefused(c)
    BY <2>7 DEF TargetRefused, Settle, Begin, QueuedUnsent, TypeOK
  <2>8. CASE TargetBegin(c)
    BY <2>8 DEF TargetBegin, Begin, QueuedUnsent, TypeOK
  <2>9. CASE TargetEnd(c)
    BY <2>9 DEF TargetEnd, Settle, Failure, QueuedUnsent, TypeOK
  <2>10. CASE TargetCancel(c)
    BY <2>10 DEF TargetCancel, QueuedUnsent, TypeOK
  <2> QED BY <1>1, <2>1, <2>2, <2>3, <2>4, <2>5, <2>6, <2>7, <2>8, <2>9, <2>10 DEF CallerStep
<1>2. ASSUME NEW c \in Commands, ExecuteStep(c) PROVE QueuedUnsent'
  <2>1. CASE AcquireFails(c)
    BY <2>1 DEF AcquireFails, Goto, QueuedUnsent, TypeOK
  <2>2. CASE AcquireReturns(c)
    BY <2>2 DEF AcquireReturns, Goto, QueuedUnsent, TypeOK
  <2>3. CASE Enqueue(c)
    BY <2>3 DEF Enqueue, Goto, QueuedUnsent, TypeOK
  <2>4. CASE Late(c)
    BY <2>4 DEF Late, QueuedUnsent, TypeOK
  <2>5. CASE WaitEnds(c)
    BY <2>5 DEF WaitEnds, Goto, Wakes, QueuedUnsent, TypeOK
  <2>6. CASE Accepted(c)
    BY <2>6 DEF Accepted, Goto, Ends, Wakes, QueuedUnsent, TypeOK
  <2>7. CASE RefusedByDevice(c)
    BY <2>7 DEF RefusedByDevice, Goto, Wakes, QueuedUnsent, TypeOK
  <2>8. CASE DecodeFails(c)
    BY <2>8 DEF DecodeFails, Goto, Wakes, QueuedUnsent, TypeOK
  <2>9. CASE Except(c)
    BY <2>9 DEF Except, Goto, QueuedUnsent, TypeOK
  <2>10. CASE IdleOff(c)
    BY <2>10 DEF IdleOff, Goto, QueuedUnsent, TypeOK
  <2>11. CASE Finally(c)
    BY <2>11, CommandsAssumption DEF Finally, Goto, QueuedUnsent, TypeOK
  <2>12. CASE Release(c)
    BY <2>12 DEF Release, Goto, Ends, QueuedUnsent, TypeOK
  <2> QED BY <1>2, <2>1, <2>2, <2>3, <2>4, <2>5, <2>6, <2>7, <2>8, <2>9, <2>10, <2>11, <2>12 DEF ExecuteStep
<1>3. CASE WorkerStep
  <2>1. ASSUME NEW ch \in 1..2, Connect(ch) PROVE QueuedUnsent'
    BY <2>1, BoundAssumption DEF Connect, QueuedUnsent, TypeOK
  <2>2. ASSUME NEW r \in Commands \cup {None}, Observe(r) PROVE QueuedUnsent'
    BY <2>2 DEF Observe, Post, QueuedUnsent, TypeOK
  <2>3. CASE Login
    BY <2>3 DEF Login, QueuedUnsent, TypeOK
  <2>4. CASE NothingToSend
    BY <2>4 DEF NothingToSend, QueuedUnsent, TypeOK
  <2>5. CASE ClaimRefused
    BY <2>5 DEF ClaimRefused, Post, Servable, QueuedUnsent, TypeOK
  <2>6. CASE Claim
    BY <2>6 DEF Claim, Servable, QueuedUnsent, TypeOK
  <2>7. CASE Send
    BY <2>7 DEF Send, QueuedUnsent, TypeOK
  <2>8. CASE SendFails
    <3>1. \A c \in Commands : req'[c] \in {req[c], "send_failed"}
      BY <2>8 DEF SendFails, TypeOK
    <3> QED BY <2>8, <3>1 DEF SendFails, QueuedUnsent, SendsClaimed, TypeOK
  <2>9. CASE MediaClosed
    BY <2>9 DEF MediaClosed, Post, QueuedUnsent, TypeOK
  <2>10. CASE SessionClosed
    BY <2>10 DEF SessionClosed, QueuedUnsent, TypeOK
  <2> QED BY <1>3, <2>1, <2>2, <2>3, <2>4, <2>5, <2>6, <2>7, <2>8, <2>9, <2>10 DEF WorkerStep
<1>4. CASE StopStep
  <2>1. CASE StopBegin
    BY <2>1 DEF StopBegin, QueuedUnsent, TypeOK
  <2>2. CASE CloseFlag
    BY <2>2 DEF CloseFlag, QueuedUnsent, TypeOK
  <2>3. CASE Close
    <3>1. \A c \in Commands : req'[c] = req[c] \/ (pending = c /\ req'[c] = "cancelled")
      BY <2>3 DEF Close, TypeOK
    <3> QED BY <2>3, <3>1 DEF Close, QueuedUnsent, TypeOK
  <2> QED BY <1>4, <2>1, <2>2, <2>3 DEF StopStep
<1>5. CASE UNCHANGED vars
  BY <1>5 DEF vars, QueuedUnsent, TypeOK
<1> QED BY <1>1, <1>2, <1>3, <1>4, <1>5 DEF Next, Unloaded

LEMMA NextQuiet ==
  ASSUME TypeOK, ClosedQuiet, [Next]_vars
  PROVE  ClosedQuiet'
<1>1. ASSUME NEW c \in Commands, CallerStep(c) PROVE ClosedQuiet'
  <2>1. CASE CommandBusy(c)
    BY <2>1 DEF CommandBusy, Settle, ClosedQuiet, TypeOK, Closed
  <2>2. CASE UnlockBegin(c)
    BY <2>2 DEF UnlockBegin, Begin, ClosedQuiet, TypeOK, Closed
  <2>3. CASE UnlockRefused(c)
    BY <2>3 DEF UnlockRefused, Settle, Failure, ClosedQuiet, TypeOK, Closed
  <2>4. CASE UnlockSubmit(c)
    BY <2>4 DEF UnlockSubmit, ClosedQuiet, TypeOK, Closed
  <2>5. CASE UnlockResult(c)
    BY <2>5 DEF UnlockResult, Settle, Failure, ClosedQuiet, TypeOK, Closed
  <2>6. CASE UnlockImpatient(c)
    BY <2>6 DEF UnlockImpatient, Settle, Failure, ClosedQuiet, TypeOK, Closed
  <2>7. CASE TargetRefused(c)
    BY <2>7 DEF TargetRefused, Settle, Begin, ClosedQuiet, TypeOK, Closed
  <2>8. CASE TargetBegin(c)
    BY <2>8 DEF TargetBegin, Begin, ClosedQuiet, TypeOK, Closed
  <2>9. CASE TargetEnd(c)
    BY <2>9 DEF TargetEnd, Settle, Failure, ClosedQuiet, TypeOK, Closed
  <2>10. CASE TargetCancel(c)
    BY <2>10 DEF TargetCancel, ClosedQuiet, TypeOK, Closed
  <2> QED BY <1>1, <2>1, <2>2, <2>3, <2>4, <2>5, <2>6, <2>7, <2>8, <2>9, <2>10 DEF CallerStep
<1>2. ASSUME NEW c \in Commands, ExecuteStep(c) PROVE ClosedQuiet'
  <2>1. CASE AcquireFails(c)
    BY <2>1 DEF AcquireFails, Goto, ClosedQuiet, TypeOK, Closed
  <2>2. CASE AcquireReturns(c)
    BY <2>2 DEF AcquireReturns, Goto, ClosedQuiet, TypeOK, Closed
  <2>3. CASE Enqueue(c)
    BY <2>3 DEF Enqueue, Goto, ClosedQuiet, TypeOK, Closed
  <2>4. CASE Late(c)
    BY <2>4 DEF Late, ClosedQuiet, TypeOK, Closed
  <2>5. CASE WaitEnds(c)
    BY <2>5 DEF WaitEnds, Goto, Wakes, ClosedQuiet, TypeOK, Closed
  <2>6. CASE Accepted(c)
    BY <2>6 DEF Accepted, Goto, Ends, Wakes, ClosedQuiet, TypeOK, Closed
  <2>7. CASE RefusedByDevice(c)
    BY <2>7 DEF RefusedByDevice, Goto, Wakes, ClosedQuiet, TypeOK, Closed
  <2>8. CASE DecodeFails(c)
    BY <2>8 DEF DecodeFails, Goto, Wakes, ClosedQuiet, TypeOK, Closed
  <2>9. CASE Except(c)
    BY <2>9 DEF Except, Goto, ClosedQuiet, TypeOK, Closed
  <2>10. CASE IdleOff(c)
    BY <2>10 DEF IdleOff, Goto, ClosedQuiet, TypeOK, Closed
  <2>11. CASE Finally(c)
    BY <2>11 DEF Finally, Goto, ClosedQuiet, TypeOK, Closed
  <2>12. CASE Release(c)
    BY <2>12 DEF Release, Goto, Ends, ClosedQuiet, TypeOK, Closed
  <2> QED BY <1>2, <2>1, <2>2, <2>3, <2>4, <2>5, <2>6, <2>7, <2>8, <2>9, <2>10, <2>11, <2>12 DEF ExecuteStep
<1>3. CASE WorkerStep
  <2>1. ASSUME NEW ch \in 1..2, Connect(ch) PROVE ClosedQuiet'
    BY <2>1, BoundAssumption DEF Connect, ClosedQuiet, TypeOK, Closed
  <2>2. ASSUME NEW r \in Commands \cup {None}, Observe(r) PROVE ClosedQuiet'
    BY <2>2 DEF Observe, Post, ClosedQuiet, TypeOK, Closed
  <2>3. CASE Login
    BY <2>3 DEF Login, ClosedQuiet, TypeOK, Closed
  <2>4. CASE NothingToSend
    BY <2>4 DEF NothingToSend, ClosedQuiet, TypeOK, Closed
  <2>5. CASE ClaimRefused
    BY <2>5 DEF ClaimRefused, Post, Servable, ClosedQuiet, TypeOK, Closed
  <2>6. CASE Claim
    BY <2>6 DEF Claim, Servable, ClosedQuiet, TypeOK, Closed
  <2>7. CASE Send
    BY <2>7 DEF Send, ClosedQuiet, TypeOK, Closed
  <2>8. CASE SendFails
    BY <2>8 DEF SendFails, Post, ClosedQuiet, TypeOK, Closed
  <2>9. CASE MediaClosed
    BY <2>9 DEF MediaClosed, Post, ClosedQuiet, TypeOK, Closed
  <2>10. CASE SessionClosed
    BY <2>10 DEF SessionClosed, ClosedQuiet, TypeOK, Closed
  <2> QED BY <1>3, <2>1, <2>2, <2>3, <2>4, <2>5, <2>6, <2>7, <2>8, <2>9, <2>10 DEF WorkerStep
<1>4. CASE StopStep
  <2>1. CASE StopBegin
    BY <2>1 DEF StopBegin, ClosedQuiet, TypeOK, Closed
  <2>2. CASE CloseFlag
    BY <2>2 DEF CloseFlag, ClosedQuiet, TypeOK, Closed
  <2>3. CASE Close
    BY <2>3 DEF Close, Post, ClosedQuiet, TypeOK, Closed
  <2> QED BY <1>4, <2>1, <2>2, <2>3 DEF StopStep
<1>5. CASE UNCHANGED vars
  BY <1>5 DEF vars, ClosedQuiet, TypeOK, Closed
<1> QED BY <1>1, <1>2, <1>3, <1>4, <1>5 DEF Next, Unloaded

LEMMA IInvInductive == IInv /\ [Next]_vars => IInv'
  BY NextType, NextQueued, NextQuiet DEF IInv

\* The inductive invariant of the output commands.
THEOREM IInvInvariant == Spec => []IInv
  BY InitIInv, IInvInductive, PTL DEF Spec

\* Types of all variables.
THEOREM TypeCorrect == Spec => []TypeOK
<1>1. IInv => TypeOK
  BY DEF IInv
<1> QED BY <1>1, IInvInvariant, PTL

\* After close() no request is left that a worker may claim.
THEOREM ClosedQuietTheorem == Spec => []ClosedQuiet
<1>1. IInv => ClosedQuiet
  BY DEF IInv
<1> QED BY <1>1, IInvInvariant, PTL

\* Only the worker's Claim counts an attempt.
LEMMA AttemptIsClaim ==
  ASSUME Next, attempts' # attempts
  PROVE  Claim
<1>1. ASSUME NEW c \in Commands, CallerStep(c) PROVE attempts' = attempts
  BY <1>1 DEF CallerStep, CommandBusy, UnlockBegin, UnlockRefused, UnlockSubmit, UnlockResult,
     UnlockImpatient, TargetRefused, TargetBegin, TargetEnd, TargetCancel
<1>2. ASSUME NEW c \in Commands, ExecuteStep(c) PROVE attempts' = attempts
  BY <1>2 DEF ExecuteStep, AcquireFails, AcquireReturns, Enqueue, Late, WaitEnds, Accepted,
     RefusedByDevice, DecodeFails, Except, IdleOff, Finally, Release
<1>3. ASSUME WorkerStep, ~Claim PROVE attempts' = attempts
  BY <1>3 DEF WorkerStep, Connect, Login, Observe, NothingToSend, ClaimRefused, Send, SendFails,
     MediaClosed, SessionClosed
<1>4. ASSUME StopStep PROVE attempts' = attempts
  BY <1>4 DEF StopStep, StopBegin, CloseFlag, Close
<1>5. Unloaded => attempts' = attempts
  BY DEF Unloaded, vars
<1> QED BY <1>1, <1>2, <1>3, <1>4, <1>5 DEF Next

\* At most one attempt for each command, on its own session, before the unload.
THEOREM OneAttemptTheorem == Spec => OneAttempt
<1> DEFINE A == attempts' # attempts =>
                  \E c \in Commands : /\ sentOn[c] = 0 /\ sentOn'[c] = reqSession[c]
                                      /\ session = reqSession[c] /\ ~Closed
<1>1. ASSUME IInv, Next, attempts' # attempts PROVE A
  <2>1. Claim
    BY <1>1, AttemptIsClaim
  <2>2. pending \in Commands /\ req[pending] = "queued" /\ reqSession[pending] = session
    BY <2>1, <1>1 DEF Claim, Servable, IInv, TypeOK
  <2>3. sentOn[pending] = 0
    BY <2>2, <1>1 DEF IInv, QueuedUnsent
  <2>4. sentOn'[pending] = session
    BY <2>1, <2>2, <1>1 DEF Claim, IInv, TypeOK
  <2>5. ~Closed
    BY <2>1 DEF Claim
  <2> QED BY <2>2, <2>3, <2>4, <2>5
<1>2. IInv /\ [Next]_vars => [A]_vars
  BY <1>1
<1> QED BY <1>2, IInvInvariant, PTL DEF Spec, OneAttempt
-----------------------------------------------------------------------------
(* Replies.  The worker is in a session that has not begun to close; Out are *)
(* the requests of it that may still be answered.                            *)

Live == phase \in {"login", "read", "claim", "send"}
Out == unanswered \cup (IF phase = "send" THEN {claimed} ELSE {})

\* Sessions are numbered in their order, and what is out is of this session.
Numbers ==
  /\ Live \/ phase = "closing" => session = made /\ made # 0
  /\ phase = "down" => session = 0
  /\ idleOk => Live
  /\ \A c \in Commands : reqSession[c] <= made /\ sentOn[c] <= made
  /\ Live => \A c \in Out : sentOn[c] = session

\* What the request of an execute tells about it: a request that was sent is
\* pending on this session, one that is still queued after the wait ended was
\* late or cancelled.
Waits(c) ==
  /\ task[c] \in {"wait", "except"} => pending = c
  /\ pending = c => req[c] # "none"
  /\ task[c] \in {"none", "acquire", "enqueue"} => answer[c] = "none"
  /\ task[c] \in {"wait", "except", "idleoff", "finally"} /\ sentOn[c] # 0 => sentOn[c] = reqSession[c]
  /\ req[c] \in {"queued", "sent"} => pending = c /\ answer[c] = "none"
  /\ req[c] = "queued" => task[c] = "wait" \/ late[c] \/ cancelled[c]
  /\ req[c] = "sent" => Live /\ reqSession[c] = session /\ sentOn[c] = session
  /\ answer[c] = "body" => answeredBy[c] # None

\* Some command other than c was cancelled on this session.
Tainted(c) == \E d \in Commands \ {c} : cancelled[d] /\ sentOn[d] = session

\* Nothing is out that a later command could take for its reply, unless the
\* session is marked uncertain, or some command was cancelled on it.
Owed ==
  Live =>
    /\ pending = None /\ uncertain # session /\ Out # {} => Tainted(None)
    /\ pending # None /\ reqSession[pending] = session /\ Out \ {pending} # {} => Tainted(pending)
    /\ pending # None /\ reqSession[pending] # session => Out = {}
    /\ \A c \in Commands : busy = c /\ task[c] = "enqueue" /\ reqSession[c] # session =>
         Out = {} /\ (pending # None => reqSession[pending] # session)
    /\ pending \in Out =>
         \/ req[pending] = "sent" /\ task[pending] \in {"wait", "except"}
         \/ uncertain = session \/ cancelled[pending] \/ Tainted(pending)

Answers == Numbers /\ (\A c \in Commands : Waits(c)) /\ Owed

\* The callers touch nothing of this but their own cancellation.
LEMMA CallerEffect ==
  ASSUME TypeOK, QueuedUnsent, NEW c \in Commands, CallerStep(c)
  PROVE  /\ UNCHANGED <<busy, requestVars, hubVars, workerVars, deviceVars, shut>>
         /\ \A d \in Commands : cancelled[d] => cancelled'[d]
         /\ \A d \in Commands : task'[d] = task[d] \/ (task[d] = "none" /\ task'[d] = "acquire")
<1> USE DEF TypeOK, QueuedUnsent
<1>1. CASE CommandBusy(c) BY <1>1 DEF CommandBusy
<1>2. CASE UnlockBegin(c) BY <1>2 DEF UnlockBegin
<1>3. CASE UnlockRefused(c) BY <1>3 DEF UnlockRefused
<1>4. CASE UnlockSubmit(c) BY <1>4 DEF UnlockSubmit
<1>5. CASE UnlockResult(c) BY <1>5 DEF UnlockResult
<1>6. CASE UnlockImpatient(c) BY <1>6 DEF UnlockImpatient
<1>7. CASE TargetRefused(c) BY <1>7 DEF TargetRefused
<1>8. CASE TargetBegin(c) BY <1>8 DEF TargetBegin, Begin
<1>9. CASE TargetEnd(c) BY <1>9 DEF TargetEnd
<1>10. CASE TargetCancel(c) BY <1>10 DEF TargetCancel
<1> QED BY <1>1, <1>2, <1>3, <1>4, <1>5, <1>6, <1>7, <1>8, <1>9, <1>10 DEF CallerStep

LEMMA NumbersKept ==
  ASSUME TypeOK, SendsClaimed, QueuedUnsent, Numbers, \A d \in Commands : Waits(d), [Next]_vars
  PROVE  Numbers'
<1>1. ASSUME NEW c \in Commands, CallerStep(c) PROVE Numbers'
  BY <1>1, CallerEffect DEF Numbers, Live, Out
<1>2. ASSUME NEW c \in Commands, ExecuteStep(c) PROVE Numbers'
  <2>1. CASE AcquireFails(c)
    BY <2>1, CommandsAssumption DEF AcquireFails, Goto, Numbers, Live, Out, Waits, TypeOK,
       Sessions, SendsClaimed, QueuedUnsent
  <2>2. CASE AcquireReturns(c)
    BY <2>2, CommandsAssumption DEF AcquireReturns, Goto, Numbers, Live, Out, Waits, TypeOK,
       Sessions, SendsClaimed, QueuedUnsent
  <2>3. CASE Enqueue(c)
    BY <2>3, CommandsAssumption DEF Enqueue, Goto, Numbers, Live, Out, Waits, TypeOK, Sessions,
       SendsClaimed, QueuedUnsent
  <2>4. CASE Late(c)
    BY <2>4, CommandsAssumption DEF Late, Numbers, Live, Out, Waits, TypeOK, Sessions,
       SendsClaimed, QueuedUnsent
  <2>5. CASE WaitEnds(c)
    BY <2>5, CommandsAssumption DEF WaitEnds, Goto, Wakes, Numbers, Live, Out, Waits, TypeOK,
       Sessions, SendsClaimed, QueuedUnsent
  <2>6. CASE Accepted(c)
    BY <2>6, CommandsAssumption DEF Accepted, Goto, Ends, Wakes, Numbers, Live, Out, Waits,
       TypeOK, Sessions, SendsClaimed, QueuedUnsent
  <2>7. CASE RefusedByDevice(c)
    BY <2>7, CommandsAssumption DEF RefusedByDevice, Goto, Wakes, Numbers, Live, Out, Waits,
       TypeOK, Sessions, SendsClaimed, QueuedUnsent
  <2>8. CASE DecodeFails(c)
    BY <2>8, CommandsAssumption DEF DecodeFails, Goto, Wakes, Numbers, Live, Out, Waits, TypeOK,
       Sessions, SendsClaimed, QueuedUnsent
  <2>9. CASE Except(c)
    BY <2>9, CommandsAssumption DEF Except, Goto, Numbers, Live, Out, Waits, TypeOK, Sessions,
       SendsClaimed, QueuedUnsent
  <2>10. CASE IdleOff(c)
    BY <2>10, CommandsAssumption DEF IdleOff, Goto, Numbers, Live, Out, Waits, TypeOK, Sessions,
       SendsClaimed, QueuedUnsent
  <2>11. CASE Finally(c)
    BY <2>11, CommandsAssumption DEF Finally, Goto, Numbers, Live, Out, Waits, TypeOK, Sessions,
       SendsClaimed, QueuedUnsent
  <2>12. CASE Release(c)
    BY <2>12, CommandsAssumption DEF Release, Goto, Ends, Numbers, Live, Out, Waits, TypeOK,
       Sessions, SendsClaimed, QueuedUnsent
  <2> QED BY <1>2, <2>1, <2>2, <2>3, <2>4, <2>5, <2>6, <2>7, <2>8, <2>9, <2>10, <2>11, <2>12 DEF ExecuteStep
<1>3. CASE WorkerStep
  <2>1. ASSUME NEW ch \in 1..2, Connect(ch) PROVE Numbers'
    BY <2>1, CommandsAssumption DEF Connect, Numbers, Live, Out, Waits, TypeOK, Sessions,
       SendsClaimed, QueuedUnsent
  <2>2. ASSUME NEW r \in Commands \cup {None}, Observe(r) PROVE Numbers'
    BY <2>2, CommandsAssumption DEF Observe, Post, Numbers, Live, Out, Waits, TypeOK, Sessions,
       SendsClaimed, QueuedUnsent
  <2>3. CASE Login
    BY <2>3, CommandsAssumption DEF Login, Numbers, Live, Out, Waits, TypeOK, Sessions,
       SendsClaimed, QueuedUnsent
  <2>4. CASE NothingToSend
    BY <2>4, CommandsAssumption DEF NothingToSend, Servable, Numbers, Live, Out, Waits, TypeOK,
       Sessions, SendsClaimed, QueuedUnsent
  <2>5. CASE ClaimRefused
    BY <2>5, CommandsAssumption DEF ClaimRefused, Post, Servable, Numbers, Live, Out, Waits,
       TypeOK, Sessions, SendsClaimed, QueuedUnsent
  <2>6. CASE Claim
    BY <2>6, CommandsAssumption DEF Claim, Servable, Numbers, Live, Out, Waits, TypeOK, Sessions,
       SendsClaimed, QueuedUnsent
  <2>7. CASE Send
    BY <2>7, CommandsAssumption DEF Send, Numbers, Live, Out, Waits, TypeOK, Sessions,
       SendsClaimed, QueuedUnsent
  <2>8. CASE SendFails
    BY <2>8, CommandsAssumption DEF SendFails, Post, Numbers, Live, Out, Waits, TypeOK, Sessions,
       SendsClaimed, QueuedUnsent
  <2>9. CASE MediaClosed
    BY <2>9, CommandsAssumption DEF MediaClosed, Post, Numbers, Live, Out, Waits, TypeOK,
       Sessions, SendsClaimed, QueuedUnsent
  <2>10. CASE SessionClosed
    BY <2>10, CommandsAssumption DEF SessionClosed, Numbers, Live, Out, Waits, TypeOK, Sessions,
       SendsClaimed, QueuedUnsent
  <2> QED BY <1>3, <2>1, <2>2, <2>3, <2>4, <2>5, <2>6, <2>7, <2>8, <2>9, <2>10 DEF WorkerStep
<1>4. CASE StopStep
  <2>1. CASE StopBegin
    BY <2>1, CommandsAssumption DEF StopBegin, Numbers, Live, Out, Waits, TypeOK, Sessions,
       SendsClaimed, QueuedUnsent
  <2>2. CASE CloseFlag
    BY <2>2, CommandsAssumption DEF CloseFlag, Numbers, Live, Out, Waits, TypeOK, Sessions,
       SendsClaimed, QueuedUnsent
  <2>3. CASE Close
    BY <2>3, CommandsAssumption DEF Close, Post, Numbers, Live, Out, Waits, TypeOK, Sessions,
       SendsClaimed, QueuedUnsent
  <2> QED BY <1>4, <2>1, <2>2, <2>3 DEF StopStep
<1>5. CASE UNCHANGED vars
  BY <1>5 DEF vars, Numbers, Live, Out, Waits, TypeOK, Sessions, SendsClaimed, QueuedUnsent
<1> QED BY <1>1, <1>2, <1>3, <1>4, <1>5 DEF Next, Unloaded

LEMMA WaitsKept ==
  ASSUME TypeOK, SendsClaimed, QueuedUnsent, Numbers, NEW w \in Commands, \A d \in Commands :
         Waits(d), [Next]_vars
  PROVE  Waits(w)'
<1>1. ASSUME NEW c \in Commands, CallerStep(c) PROVE Waits(w)'
  BY <1>1, CallerEffect DEF Waits, Live
<1>2. ASSUME NEW c \in Commands, ExecuteStep(c) PROVE Waits(w)'
  <2>1. CASE AcquireFails(c)
    BY <2>1, CommandsAssumption DEF AcquireFails, Goto, Numbers, Live, Out, Waits, TypeOK,
       Sessions, SendsClaimed, QueuedUnsent
  <2>2. CASE AcquireReturns(c)
    BY <2>2, CommandsAssumption DEF AcquireReturns, Goto, Numbers, Live, Out, Waits, TypeOK,
       Sessions, SendsClaimed, QueuedUnsent
  <2>3. CASE Enqueue(c)
    BY <2>3, CommandsAssumption DEF Enqueue, Goto, Numbers, Live, Out, Waits, TypeOK, Sessions,
       SendsClaimed, QueuedUnsent
  <2>4. CASE Late(c)
    BY <2>4, CommandsAssumption DEF Late, Numbers, Live, Out, Waits, TypeOK, Sessions,
       SendsClaimed, QueuedUnsent
  <2>5. CASE WaitEnds(c)
    BY <2>5, CommandsAssumption DEF WaitEnds, Goto, Wakes, Numbers, Live, Out, Waits, TypeOK,
       Sessions, SendsClaimed, QueuedUnsent
  <2>6. CASE Accepted(c)
    BY <2>6, CommandsAssumption DEF Accepted, Goto, Ends, Wakes, Numbers, Live, Out, Waits,
       TypeOK, Sessions, SendsClaimed, QueuedUnsent
  <2>7. CASE RefusedByDevice(c)
    BY <2>7, CommandsAssumption DEF RefusedByDevice, Goto, Wakes, Numbers, Live, Out, Waits,
       TypeOK, Sessions, SendsClaimed, QueuedUnsent
  <2>8. CASE DecodeFails(c)
    BY <2>8, CommandsAssumption DEF DecodeFails, Goto, Wakes, Numbers, Live, Out, Waits, TypeOK,
       Sessions, SendsClaimed, QueuedUnsent
  <2>9. CASE Except(c)
    BY <2>9, CommandsAssumption DEF Except, Goto, Numbers, Live, Out, Waits, TypeOK, Sessions,
       SendsClaimed, QueuedUnsent
  <2>10. CASE IdleOff(c)
    BY <2>10, CommandsAssumption DEF IdleOff, Goto, Numbers, Live, Out, Waits, TypeOK, Sessions,
       SendsClaimed, QueuedUnsent
  <2>11. CASE Finally(c)
    BY <2>11, CommandsAssumption DEF Finally, Goto, Numbers, Live, Out, Waits, TypeOK, Sessions,
       SendsClaimed, QueuedUnsent
  <2>12. CASE Release(c)
    BY <2>12, CommandsAssumption DEF Release, Goto, Ends, Numbers, Live, Out, Waits, TypeOK,
       Sessions, SendsClaimed, QueuedUnsent
  <2> QED BY <1>2, <2>1, <2>2, <2>3, <2>4, <2>5, <2>6, <2>7, <2>8, <2>9, <2>10, <2>11, <2>12 DEF ExecuteStep
<1>3. CASE WorkerStep
  <2>1. ASSUME NEW ch \in 1..2, Connect(ch) PROVE Waits(w)'
    BY <2>1, CommandsAssumption DEF Connect, Numbers, Live, Out, Waits, TypeOK, Sessions,
       SendsClaimed, QueuedUnsent
  <2>2. ASSUME NEW r \in Commands \cup {None}, Observe(r) PROVE Waits(w)'
    BY <2>2, CommandsAssumption DEF Observe, Post, Numbers, Live, Out, Waits, TypeOK, Sessions,
       SendsClaimed, QueuedUnsent
  <2>3. CASE Login
    BY <2>3, CommandsAssumption DEF Login, Numbers, Live, Out, Waits, TypeOK, Sessions,
       SendsClaimed, QueuedUnsent
  <2>4. CASE NothingToSend
    BY <2>4, CommandsAssumption DEF NothingToSend, Servable, Numbers, Live, Out, Waits, TypeOK,
       Sessions, SendsClaimed, QueuedUnsent
  <2>5. CASE ClaimRefused
    BY <2>5, CommandsAssumption DEF ClaimRefused, Post, Servable, Numbers, Live, Out, Waits,
       TypeOK, Sessions, SendsClaimed, QueuedUnsent
  <2>6. CASE Claim
    BY <2>6, CommandsAssumption DEF Claim, Servable, Numbers, Live, Out, Waits, TypeOK, Sessions,
       SendsClaimed, QueuedUnsent
  <2>7. CASE Send
    BY <2>7, CommandsAssumption DEF Send, Numbers, Live, Out, Waits, TypeOK, Sessions,
       SendsClaimed, QueuedUnsent
  <2>8. CASE SendFails
    BY <2>8, CommandsAssumption DEF SendFails, Post, Numbers, Live, Out, Waits, TypeOK, Sessions,
       SendsClaimed, QueuedUnsent
  <2>9. CASE MediaClosed
    BY <2>9, CommandsAssumption DEF MediaClosed, Post, Numbers, Live, Out, Waits, TypeOK,
       Sessions, SendsClaimed, QueuedUnsent
  <2>10. CASE SessionClosed
    BY <2>10, CommandsAssumption DEF SessionClosed, Numbers, Live, Out, Waits, TypeOK, Sessions,
       SendsClaimed, QueuedUnsent
  <2> QED BY <1>3, <2>1, <2>2, <2>3, <2>4, <2>5, <2>6, <2>7, <2>8, <2>9, <2>10 DEF WorkerStep
<1>4. CASE StopStep
  <2>1. CASE StopBegin
    BY <2>1, CommandsAssumption DEF StopBegin, Numbers, Live, Out, Waits, TypeOK, Sessions,
       SendsClaimed, QueuedUnsent
  <2>2. CASE CloseFlag
    BY <2>2, CommandsAssumption DEF CloseFlag, Numbers, Live, Out, Waits, TypeOK, Sessions,
       SendsClaimed, QueuedUnsent
  <2>3. CASE Close
    BY <2>3, CommandsAssumption DEF Close, Post, Numbers, Live, Out, Waits, TypeOK, Sessions,
       SendsClaimed, QueuedUnsent
  <2> QED BY <1>4, <2>1, <2>2, <2>3 DEF StopStep
<1>5. CASE UNCHANGED vars
  BY <1>5 DEF vars, Numbers, Live, Out, Waits, TypeOK, Sessions, SendsClaimed, QueuedUnsent
<1> QED BY <1>1, <1>2, <1>3, <1>4, <1>5 DEF Next, Unloaded

LEMMA OwedKept ==
  ASSUME TypeOK, SendsClaimed, QueuedUnsent, Answers, [Next]_vars
  PROVE  Owed'
<1>1. ASSUME NEW c \in Commands, CallerStep(c) PROVE Owed'
  BY <1>1, CallerEffect DEF Answers, Owed, Tainted, Live, Out, Numbers, TypeOK, QueuedUnsent
<1>2. ASSUME NEW c \in Commands, ExecuteStep(c) PROVE Owed'
  <2>1. CASE AcquireFails(c)
    BY <2>1, CommandsAssumption DEF AcquireFails, Goto, Answers, Owed, Tainted, Numbers, Live,
       Out, Waits, TypeOK, Sessions, SendsClaimed, QueuedUnsent
  <2>2. CASE AcquireReturns(c)
    BY <2>2, CommandsAssumption DEF AcquireReturns, Goto, Answers, Owed, Tainted, Numbers, Live,
       Out, Waits, TypeOK, Sessions, SendsClaimed, QueuedUnsent
  <2>3. CASE Enqueue(c)
    BY <2>3, CommandsAssumption DEF Enqueue, Goto, Answers, Owed, Tainted, Numbers, Live, Out,
       Waits, TypeOK, Sessions, SendsClaimed, QueuedUnsent
  <2>4. CASE Late(c)
    BY <2>4, CommandsAssumption DEF Late, Answers, Owed, Tainted, Numbers, Live, Out, Waits,
       TypeOK, Sessions, SendsClaimed, QueuedUnsent
  <2>5. CASE WaitEnds(c)
    BY <2>5, CommandsAssumption DEF WaitEnds, Goto, Wakes, Answers, Owed, Tainted, Numbers, Live,
       Out, Waits, TypeOK, Sessions, SendsClaimed, QueuedUnsent
  <2>6. CASE Accepted(c)
    BY <2>6, CommandsAssumption DEF Accepted, Goto, Ends, Wakes, Answers, Owed, Tainted, Numbers,
       Live, Out, Waits, TypeOK, Sessions, SendsClaimed, QueuedUnsent
  <2>7. CASE RefusedByDevice(c)
    BY <2>7, CommandsAssumption DEF RefusedByDevice, Goto, Wakes, Answers, Owed, Tainted, Numbers,
       Live, Out, Waits, TypeOK, Sessions, SendsClaimed, QueuedUnsent
  <2>8. CASE DecodeFails(c)
    BY <2>8, CommandsAssumption DEF DecodeFails, Goto, Wakes, Answers, Owed, Tainted, Numbers,
       Live, Out, Waits, TypeOK, Sessions, SendsClaimed, QueuedUnsent
  <2>9. CASE Except(c)
    BY <2>9, CommandsAssumption DEF Except, Goto, Answers, Owed, Tainted, Numbers, Live, Out,
       Waits, TypeOK, Sessions, SendsClaimed, QueuedUnsent
  <2>10. CASE IdleOff(c)
    BY <2>10, CommandsAssumption DEF IdleOff, Goto, Answers, Owed, Tainted, Numbers, Live, Out,
       Waits, TypeOK, Sessions, SendsClaimed, QueuedUnsent
  <2>11. CASE Finally(c)
    <3>1. /\ task[c] = "finally" /\ busy' = None /\ pending' = (IF pending = c THEN None ELSE pending)
          /\ UNCHANGED <<uncertain, cancelled, phase, session, claimed, unanswered, sentOn>>
          /\ \A d \in Commands \ {c} : reqSession'[d] = reqSession[d] /\ req'[d] = req[d] /\ task'[d] = task[d]
      BY <2>11 DEF Finally, Goto, TypeOK
    <3>2. Live' = Live /\ Out' = Out /\ (Tainted(None) <=> Tainted(None)') /\ \A d \in Commands : Tainted(d) => Tainted(d)'
      BY <3>1, CommandsAssumption DEF Live, Out, Tainted
    <3>3. \A d \in Commands : Tainted(d) => Tainted(None) BY CommandsAssumption DEF Tainted
    <3>4. CASE pending = c
      <4>1. ASSUME Live, uncertain # session, Out # {} PROVE Tainted(None)
        <5>1. CASE reqSession[c] # session BY <1>2, <3>4, <4>1, <5>1, CommandsAssumption DEF Answers, Owed
        <5>2. CASE reqSession[c] = session /\ Out \ {c} # {}
          BY <1>2, <3>3, <3>4, <4>1, <5>2, CommandsAssumption DEF Answers, Owed
        <5>3. CASE Out = {c}
          <6>1. cancelled[c] \/ Tainted(c) BY <1>2, <3>1, <3>4, <4>1, <5>3 DEF Answers, Owed
          <6>2. sentOn[c] = session BY <4>1, <5>3 DEF Answers, Numbers
          <6> QED BY <3>3, <6>1, <6>2, CommandsAssumption DEF Tainted
        <5> QED BY <4>1, <5>1, <5>2, <5>3
      <4> QED BY <3>1, <3>2, <3>4, <4>1, CommandsAssumption DEF Owed
    <3>5. CASE pending # c
      <4>1. pending' = pending BY <3>1, <3>5
      <4>2. pending # None => pending \in Commands \ {c} BY <3>5 DEF TypeOK
      <4> QED BY <3>1, <3>2, <4>1, <4>2, CommandsAssumption DEF Answers, Owed
    <3> QED BY <3>4, <3>5
  <2>12. CASE Release(c)
    BY <2>12, CommandsAssumption DEF Release, Goto, Ends, Answers, Owed, Tainted, Numbers, Live,
       Out, Waits, TypeOK, Sessions, SendsClaimed, QueuedUnsent
  <2> QED BY <1>2, <2>1, <2>2, <2>3, <2>4, <2>5, <2>6, <2>7, <2>8, <2>9, <2>10, <2>11, <2>12 DEF ExecuteStep
<1>3. CASE WorkerStep
  <2>1. ASSUME NEW ch \in 1..2, Connect(ch) PROVE Owed'
    BY <2>1, CommandsAssumption DEF Connect, Answers, Owed, Tainted, Numbers, Live, Out, Waits,
       TypeOK, Sessions, SendsClaimed, QueuedUnsent
  <2>2. ASSUME NEW r \in Commands \cup {None}, Observe(r) PROVE Owed'
    BY <2>2, CommandsAssumption DEF Observe, Post, Answers, Owed, Tainted, Numbers, Live, Out,
       Waits, TypeOK, Sessions, SendsClaimed, QueuedUnsent
  <2>3. CASE Login
    BY <2>3, CommandsAssumption DEF Login, Answers, Owed, Tainted, Numbers, Live, Out, Waits,
       TypeOK, Sessions, SendsClaimed, QueuedUnsent
  <2>4. CASE NothingToSend
    BY <2>4, CommandsAssumption DEF NothingToSend, Servable, Answers, Owed, Tainted, Numbers,
       Live, Out, Waits, TypeOK, Sessions, SendsClaimed, QueuedUnsent
  <2>5. CASE ClaimRefused
    BY <2>5, CommandsAssumption DEF ClaimRefused, Post, Servable, Answers, Owed, Tainted, Numbers,
       Live, Out, Waits, TypeOK, Sessions, SendsClaimed, QueuedUnsent
  <2>6. CASE Claim
    BY <2>6, CommandsAssumption DEF Claim, Servable, Answers, Owed, Tainted, Numbers, Live, Out,
       Waits, TypeOK, Sessions, SendsClaimed, QueuedUnsent
  <2>7. CASE Send
    BY <2>7, CommandsAssumption DEF Send, Answers, Owed, Tainted, Numbers, Live, Out, Waits,
       TypeOK, Sessions, SendsClaimed, QueuedUnsent
  <2>8. CASE SendFails
    <3>1. /\ phase = "send" /\ phase' = "read" /\ claimed \in Commands /\ uncertain' = session
          /\ unanswered' \in {unanswered, unanswered \cup {claimed}}
          /\ UNCHANGED <<busy, task, cancelled, pending, reqSession, session, sentOn>>
      BY <2>8 DEF SendFails, SendsClaimed
    <3>2. Live /\ Live' /\ Out' \subseteq Out BY <3>1 DEF Live, Out
    <3>3. /\ Tainted(None) <=> Tainted(None)' 
          /\ \A d \in Commands : Tainted(d) <=> Tainted(d)'
      BY <3>1 DEF Tainted
    <3>4. pending # None => pending \in Commands BY DEF TypeOK
    <3> QED BY <3>1, <3>2, <3>3, <3>4 DEF Answers, Owed
  <2>9. CASE MediaClosed
    BY <2>9, CommandsAssumption DEF MediaClosed, Post, Answers, Owed, Tainted, Numbers, Live, Out,
       Waits, TypeOK, Sessions, SendsClaimed, QueuedUnsent
  <2>10. CASE SessionClosed
    BY <2>10, CommandsAssumption DEF SessionClosed, Answers, Owed, Tainted, Numbers, Live, Out,
       Waits, TypeOK, Sessions, SendsClaimed, QueuedUnsent
  <2> QED BY <1>3, <2>1, <2>2, <2>3, <2>4, <2>5, <2>6, <2>7, <2>8, <2>9, <2>10 DEF WorkerStep
<1>4. CASE StopStep
  <2>1. CASE StopBegin
    BY <2>1, CommandsAssumption DEF StopBegin, Answers, Owed, Tainted, Numbers, Live, Out, Waits,
       TypeOK, Sessions, SendsClaimed, QueuedUnsent
  <2>2. CASE CloseFlag
    BY <2>2, CommandsAssumption DEF CloseFlag, Answers, Owed, Tainted, Numbers, Live, Out, Waits,
       TypeOK, Sessions, SendsClaimed, QueuedUnsent
  <2>3. CASE Close
    BY <2>3, CommandsAssumption DEF Close, Post, Answers, Owed, Tainted, Numbers, Live, Out,
       Waits, TypeOK, Sessions, SendsClaimed, QueuedUnsent
  <2> QED BY <1>4, <2>1, <2>2, <2>3 DEF StopStep
<1>5. CASE UNCHANGED vars
  BY <1>5 DEF vars, Answers, Owed, Tainted, Numbers, Live, Out, Waits, TypeOK, Sessions,
     SendsClaimed, QueuedUnsent
<1> QED BY <1>1, <1>2, <1>3, <1>4, <1>5 DEF Next, Unloaded

-----------------------------------------------------------------------------
(* What the properties say, from the above.                                  *)

\* Only a command that was sent has been answered.
Replied == \A c \in Commands : answeredBy[c] # None => sentOn[c] # 0

\* Cancellations are not taken back; only Claim sends, only Observe answers.
LEMMA History ==
  ASSUME TypeOK, [Next]_vars
  PROVE  /\ \A d \in Commands : cancelled[d] => cancelled'[d]
         /\ sentOn' = sentOn \/ Claim
         /\ answeredBy' = answeredBy \/ \E r \in Commands \cup {None} : Observe(r)
<1> USE DEF TypeOK
<1>1. ASSUME NEW c \in Commands, CallerStep(c)
      PROVE  /\ \A d \in Commands : cancelled[d] => cancelled'[d]
             /\ UNCHANGED <<sentOn, answeredBy>>
  BY <1>1 DEF CallerStep, CommandBusy, UnlockBegin, UnlockRefused, UnlockSubmit, UnlockResult,
     UnlockImpatient, TargetRefused, TargetBegin, TargetEnd, TargetCancel
<1>2. ASSUME NEW c \in Commands, ExecuteStep(c) PROVE UNCHANGED <<cancelled, sentOn, answeredBy>>
  BY <1>2 DEF ExecuteStep, AcquireFails, AcquireReturns, Enqueue, Late, WaitEnds, Accepted,
     RefusedByDevice, DecodeFails, Except, IdleOff, Finally, Release
<1>3. CASE WorkerStep
  <2>1. cancelled' = cancelled
    BY <1>3 DEF WorkerStep, Connect, Login, Observe, NothingToSend, ClaimRefused, Claim, Send,
       SendFails, MediaClosed, SessionClosed
  <2>2. sentOn' = sentOn \/ Claim
    BY <1>3 DEF WorkerStep, Connect, Login, Observe, NothingToSend, ClaimRefused, Send,
       SendFails, MediaClosed, SessionClosed
  <2>3. answeredBy' = answeredBy \/ \E r \in Commands \cup {None} : Observe(r)
    BY <1>3 DEF WorkerStep, Connect, Login, NothingToSend, ClaimRefused, Claim, Send,
       SendFails, MediaClosed, SessionClosed
  <2> QED BY <2>1, <2>2, <2>3
<1>4. CASE StopStep
  BY <1>4 DEF StopStep, StopBegin, CloseFlag, Close
<1>5. CASE UNCHANGED vars
  BY <1>5 DEF vars
<1> QED BY <1>1, <1>2, <1>3, <1>4, <1>5 DEF Next, Unloaded

LEMMA RepliesKept ==
  ASSUME TypeOK, QueuedUnsent, Answers, Replied, ReplyBelongs, [Next]_vars
  PROVE  Replied' /\ ReplyBelongs'
<1>1. CASE sentOn' = sentOn /\ answeredBy' = answeredBy
  BY <1>1, History DEF Replied, ReplyBelongs
<1>2. CASE Claim
  <2>1. /\ pending \in Commands /\ sentOn[pending] = 0 /\ UNCHANGED <<answeredBy, cancelled>>
        /\ sentOn' = [sentOn EXCEPT ![pending] = session]
    BY <1>2 DEF Claim, Servable, TypeOK, QueuedUnsent
  <2>2. session # 0
    BY <1>2 DEF Claim, Answers, Numbers, Live, TypeOK, Sessions
  <2> QED BY <2>1, <2>2 DEF Replied, ReplyBelongs, TypeOK
<1>3. ASSUME NEW r \in Commands \cup {None}, Observe(r), answeredBy' # answeredBy
      PROVE  Replied' /\ ReplyBelongs'
  <2>1. /\ pending \in Commands /\ reqSession[pending] = session /\ req[pending] = "sent"
        /\ r \in unanswered /\ phase = "read"
        /\ answeredBy' = [answeredBy EXCEPT ![pending] = r] /\ UNCHANGED <<sentOn, cancelled>>
    BY <1>3 DEF Observe, TypeOK
  <2>2. sentOn[pending] = session /\ session # 0
    BY <2>1 DEF Answers, Numbers, Waits, Live, TypeOK, Sessions
  <2>3. Replied'
    BY <2>1, <2>2 DEF Replied, TypeOK
  <2>4. r # pending => Tainted(pending)
    BY <2>1, CommandsAssumption DEF Answers, Owed, Out, Live
  <2> QED BY <2>1, <2>2, <2>3, <2>4 DEF ReplyBelongs, Tainted, TypeOK
<1> QED BY <1>1, <1>2, <1>3, History

LEMMA IdleKept ==
  ASSUME TypeOK, QueuedUnsent, Answers, IdleScoped, [Next]_vars
  PROVE  IdleScoped'
<1>1. ASSUME NEW c \in Commands, CallerStep(c) PROVE IdleScoped'
  BY <1>1, CallerEffect DEF IdleScoped
<1>2. ASSUME NEW c \in Commands, ExecuteStep(c) PROVE IdleScoped'
  <2>1. CASE AcquireFails(c)
    BY <2>1, CommandsAssumption DEF AcquireFails, Goto, IdleScoped, Answers, Numbers, Live, Waits,
       TypeOK, Sessions, QueuedUnsent
  <2>2. CASE AcquireReturns(c)
    BY <2>2, CommandsAssumption DEF AcquireReturns, Goto, IdleScoped, Answers, Numbers, Live,
       Waits, TypeOK, Sessions, QueuedUnsent
  <2>3. CASE Enqueue(c)
    BY <2>3, CommandsAssumption DEF Enqueue, Goto, IdleScoped, Answers, Numbers, Live, Waits,
       TypeOK, Sessions, QueuedUnsent
  <2>4. CASE Late(c)
    BY <2>4, CommandsAssumption DEF Late, IdleScoped, Answers, Numbers, Live, Waits, TypeOK,
       Sessions, QueuedUnsent
  <2>5. CASE WaitEnds(c)
    BY <2>5, CommandsAssumption DEF WaitEnds, Goto, Wakes, IdleScoped, Answers, Numbers, Live,
       Waits, TypeOK, Sessions, QueuedUnsent
  <2>6. CASE Accepted(c)
    BY <2>6, CommandsAssumption DEF Accepted, Goto, Ends, Wakes, IdleScoped, Answers, Numbers,
       Live, Waits, TypeOK, Sessions, QueuedUnsent
  <2>7. CASE RefusedByDevice(c)
    BY <2>7, CommandsAssumption DEF RefusedByDevice, Goto, Wakes, IdleScoped, Answers, Numbers,
       Live, Waits, TypeOK, Sessions, QueuedUnsent
  <2>8. CASE DecodeFails(c)
    BY <2>8, CommandsAssumption DEF DecodeFails, Goto, Wakes, IdleScoped, Answers, Numbers, Live,
       Waits, TypeOK, Sessions, QueuedUnsent
  <2>9. CASE Except(c)
    BY <2>9, CommandsAssumption DEF Except, Goto, IdleScoped, Answers, Numbers, Live, Waits,
       TypeOK, Sessions, QueuedUnsent
  <2>10. CASE IdleOff(c)
    BY <2>10, CommandsAssumption DEF IdleOff, Goto, IdleScoped, Answers, Numbers, Live, Waits,
       TypeOK, Sessions, QueuedUnsent
  <2>11. CASE Finally(c)
    BY <2>11, CommandsAssumption DEF Finally, Goto, IdleScoped, Answers, Numbers, Live, Waits,
       TypeOK, Sessions, QueuedUnsent
  <2>12. CASE Release(c)
    BY <2>12, CommandsAssumption DEF Release, Goto, Ends, IdleScoped, Answers, Numbers, Live,
       Waits, TypeOK, Sessions, QueuedUnsent
  <2> QED BY <1>2, <2>1, <2>2, <2>3, <2>4, <2>5, <2>6, <2>7, <2>8, <2>9, <2>10, <2>11, <2>12 DEF ExecuteStep
<1>3. CASE WorkerStep
  <2>1. ASSUME NEW ch \in 1..2, Connect(ch) PROVE IdleScoped'
    BY <2>1, CommandsAssumption DEF Connect, IdleScoped, Answers, Numbers, Live, Waits, TypeOK,
       Sessions, QueuedUnsent
  <2>2. ASSUME NEW r \in Commands \cup {None}, Observe(r) PROVE IdleScoped'
    BY <2>2, CommandsAssumption DEF Observe, Post, IdleScoped, Answers, Numbers, Live, Waits,
       TypeOK, Sessions, QueuedUnsent
  <2>3. CASE Login
    BY <2>3, CommandsAssumption DEF Login, IdleScoped, Answers, Numbers, Live, Waits, TypeOK,
       Sessions, QueuedUnsent
  <2>4. CASE NothingToSend
    BY <2>4, CommandsAssumption DEF NothingToSend, Servable, IdleScoped, Answers, Numbers, Live,
       Waits, TypeOK, Sessions, QueuedUnsent
  <2>5. CASE ClaimRefused
    BY <2>5, CommandsAssumption DEF ClaimRefused, Post, Servable, IdleScoped, Answers, Numbers,
       Live, Waits, TypeOK, Sessions, QueuedUnsent
  <2>6. CASE Claim
    BY <2>6, CommandsAssumption DEF Claim, Servable, IdleScoped, Answers, Numbers, Live, Waits,
       TypeOK, Sessions, QueuedUnsent
  <2>7. CASE Send
    BY <2>7, CommandsAssumption DEF Send, IdleScoped, Answers, Numbers, Live, Waits, TypeOK,
       Sessions, QueuedUnsent
  <2>8. CASE SendFails
    BY <2>8, CommandsAssumption DEF SendFails, Post, IdleScoped, Answers, Numbers, Live, Waits,
       TypeOK, Sessions, QueuedUnsent
  <2>9. CASE MediaClosed
    BY <2>9, CommandsAssumption DEF MediaClosed, Post, IdleScoped, Answers, Numbers, Live, Waits,
       TypeOK, Sessions, QueuedUnsent
  <2>10. CASE SessionClosed
    BY <2>10, CommandsAssumption DEF SessionClosed, IdleScoped, Answers, Numbers, Live, Waits,
       TypeOK, Sessions, QueuedUnsent
  <2> QED BY <1>3, <2>1, <2>2, <2>3, <2>4, <2>5, <2>6, <2>7, <2>8, <2>9, <2>10 DEF WorkerStep
<1>4. CASE StopStep
  <2>1. CASE StopBegin
    BY <2>1, CommandsAssumption DEF StopBegin, IdleScoped, Answers, Numbers, Live, Waits, TypeOK,
       Sessions, QueuedUnsent
  <2>2. CASE CloseFlag
    BY <2>2, CommandsAssumption DEF CloseFlag, IdleScoped, Answers, Numbers, Live, Waits, TypeOK,
       Sessions, QueuedUnsent
  <2>3. CASE Close
    BY <2>3, CommandsAssumption DEF Close, Post, IdleScoped, Answers, Numbers, Live, Waits,
       TypeOK, Sessions, QueuedUnsent
  <2> QED BY <1>4, <2>1, <2>2, <2>3 DEF StopStep
<1>5. CASE UNCHANGED vars
  BY <1>5 DEF vars, IdleScoped, Answers, Numbers, Live, Waits, TypeOK, Sessions, QueuedUnsent
<1> QED BY <1>1, <1>2, <1>3, <1>4, <1>5 DEF Next, Unloaded

Running(c) == task[c] \notin {"none", "done"}

\* control.lock is held from the check to the verdict, and an attempt after the
\* command began shows in the count.
Callers ==
  \A c \in Commands :
    /\ caller[c] \in {"check", "waiting"} <=> ctl = c
    /\ verdict[c] # "none" => caller[c] = "done"
    /\ before[c] <= attempts /\ (sentOn[c] # 0 => attempts > before[c])

\* While no caller ran out of its 80 s, an execute runs for a caller that waits
\* for it, or was left behind by close(); so a result is that of the command
\* somebody waits for.
Alone == ~gaveUp =>
  \A c \in Commands :
    /\ Running(c) => caller[c] = "waiting" \/ (shut = "closed" /\ caller[c] = "done")
    /\ Running(c) /\ caller[c] = "done" => \A b \in Commands : caller[b] # "waiting"
    /\ cancelled[c] /\ Main(c) => shut = "closed"
    /\ caller[c] = "waiting" /\ lastResult # "none" => answeredBy[c] # None
    /\ caller[c] = "check" /\ lastResult # "none" => shut = "closed"

LEMMA CallersKept ==
  ASSUME TypeOK, QueuedUnsent, Callers, [Next]_vars
  PROVE  Callers'
<1>1. ASSUME NEW c \in Commands, CallerStep(c) PROVE Callers'
  <2>1. CASE CommandBusy(c)
    BY <2>1, CommandsAssumption DEF CommandBusy, Settle, Callers, Waiting, TypeOK, QueuedUnsent
  <2>2. CASE UnlockBegin(c)
    BY <2>2, CommandsAssumption DEF UnlockBegin, Begin, Callers, Waiting, TypeOK, QueuedUnsent
  <2>3. CASE UnlockRefused(c)
    BY <2>3, CommandsAssumption DEF UnlockRefused, Settle, Failure, Callers, Waiting, TypeOK,
       QueuedUnsent
  <2>4. CASE UnlockSubmit(c)
    BY <2>4, CommandsAssumption DEF UnlockSubmit, Callers, Waiting, TypeOK, QueuedUnsent
  <2>5. CASE UnlockResult(c)
    BY <2>5, CommandsAssumption DEF UnlockResult, Settle, Failure, Callers, Waiting, TypeOK,
       QueuedUnsent
  <2>6. CASE UnlockImpatient(c)
    BY <2>6, CommandsAssumption DEF UnlockImpatient, Settle, Failure, Callers, Waiting, TypeOK,
       QueuedUnsent
  <2>7. CASE TargetRefused(c)
    BY <2>7, CommandsAssumption DEF TargetRefused, Settle, Begin, Callers, Waiting, TypeOK,
       QueuedUnsent
  <2>8. CASE TargetBegin(c)
    BY <2>8, CommandsAssumption DEF TargetBegin, Begin, Callers, Waiting, TypeOK, QueuedUnsent
  <2>9. CASE TargetEnd(c)
    BY <2>9, CommandsAssumption DEF TargetEnd, Settle, Failure, Callers, Waiting, TypeOK,
       QueuedUnsent
  <2>10. CASE TargetCancel(c)
    BY <2>10, CommandsAssumption DEF TargetCancel, Callers, Waiting, TypeOK, QueuedUnsent
  <2> QED BY <1>1, <2>1, <2>2, <2>3, <2>4, <2>5, <2>6, <2>7, <2>8, <2>9, <2>10 DEF CallerStep
<1>2. ASSUME NEW c \in Commands, ExecuteStep(c) PROVE Callers'
  <2>1. CASE AcquireFails(c)
    BY <2>1, CommandsAssumption DEF AcquireFails, Goto, Callers, Waiting, TypeOK, QueuedUnsent
  <2>2. CASE AcquireReturns(c)
    BY <2>2, CommandsAssumption DEF AcquireReturns, Goto, Callers, Waiting, TypeOK, QueuedUnsent
  <2>3. CASE Enqueue(c)
    BY <2>3, CommandsAssumption DEF Enqueue, Goto, Callers, Waiting, TypeOK, QueuedUnsent
  <2>4. CASE Late(c)
    BY <2>4, CommandsAssumption DEF Late, Callers, Waiting, TypeOK, QueuedUnsent
  <2>5. CASE WaitEnds(c)
    BY <2>5, CommandsAssumption DEF WaitEnds, Goto, Wakes, Callers, Waiting, TypeOK, QueuedUnsent
  <2>6. CASE Accepted(c)
    BY <2>6, CommandsAssumption DEF Accepted, Goto, Ends, Wakes, Callers, Waiting, TypeOK,
       QueuedUnsent
  <2>7. CASE RefusedByDevice(c)
    BY <2>7, CommandsAssumption DEF RefusedByDevice, Goto, Wakes, Callers, Waiting, TypeOK,
       QueuedUnsent
  <2>8. CASE DecodeFails(c)
    BY <2>8, CommandsAssumption DEF DecodeFails, Goto, Wakes, Callers, Waiting, TypeOK, QueuedUnsent
  <2>9. CASE Except(c)
    BY <2>9, CommandsAssumption DEF Except, Goto, Callers, Waiting, TypeOK, QueuedUnsent
  <2>10. CASE IdleOff(c)
    BY <2>10, CommandsAssumption DEF IdleOff, Goto, Callers, Waiting, TypeOK, QueuedUnsent
  <2>11. CASE Finally(c)
    BY <2>11, CommandsAssumption DEF Finally, Goto, Callers, Waiting, TypeOK, QueuedUnsent
  <2>12. CASE Release(c)
    BY <2>12, CommandsAssumption DEF Release, Goto, Ends, Callers, Waiting, TypeOK, QueuedUnsent
  <2> QED BY <1>2, <2>1, <2>2, <2>3, <2>4, <2>5, <2>6, <2>7, <2>8, <2>9, <2>10, <2>11, <2>12 DEF ExecuteStep
<1>3. CASE WorkerStep
  <2>1. ASSUME NEW ch \in 1..2, Connect(ch) PROVE Callers'
    BY <2>1, CommandsAssumption DEF Connect, Callers, Waiting, TypeOK, QueuedUnsent
  <2>2. ASSUME NEW r \in Commands \cup {None}, Observe(r) PROVE Callers'
    BY <2>2, CommandsAssumption DEF Observe, Post, Callers, Waiting, TypeOK, QueuedUnsent
  <2>3. CASE Login
    BY <2>3, CommandsAssumption DEF Login, Callers, Waiting, TypeOK, QueuedUnsent
  <2>4. CASE NothingToSend
    BY <2>4, CommandsAssumption DEF NothingToSend, Servable, Callers, Waiting, TypeOK, QueuedUnsent
  <2>5. CASE ClaimRefused
    BY <2>5, CommandsAssumption DEF ClaimRefused, Post, Servable, Callers, Waiting, TypeOK,
       QueuedUnsent
  <2>6. CASE Claim
    BY <2>6, CommandsAssumption DEF Claim, Servable, Callers, Waiting, TypeOK, QueuedUnsent
  <2>7. CASE Send
    BY <2>7, CommandsAssumption DEF Send, Callers, Waiting, TypeOK, QueuedUnsent
  <2>8. CASE SendFails
    BY <2>8, CommandsAssumption DEF SendFails, Post, Callers, Waiting, TypeOK, QueuedUnsent
  <2>9. CASE MediaClosed
    BY <2>9, CommandsAssumption DEF MediaClosed, Post, Callers, Waiting, TypeOK, QueuedUnsent
  <2>10. CASE SessionClosed
    BY <2>10, CommandsAssumption DEF SessionClosed, Callers, Waiting, TypeOK, QueuedUnsent
  <2> QED BY <1>3, <2>1, <2>2, <2>3, <2>4, <2>5, <2>6, <2>7, <2>8, <2>9, <2>10 DEF WorkerStep
<1>4. CASE StopStep
  <2>1. CASE StopBegin
    BY <2>1, CommandsAssumption DEF StopBegin, Callers, Waiting, TypeOK, QueuedUnsent
  <2>2. CASE CloseFlag
    BY <2>2, CommandsAssumption DEF CloseFlag, Callers, Waiting, TypeOK, QueuedUnsent
  <2>3. CASE Close
    BY <2>3, CommandsAssumption DEF Close, Post, Callers, Waiting, TypeOK, QueuedUnsent
  <2> QED BY <1>4, <2>1, <2>2, <2>3 DEF StopStep
<1>5. CASE UNCHANGED vars
  BY <1>5 DEF vars, Callers, Waiting, TypeOK, QueuedUnsent
<1> QED BY <1>1, <1>2, <1>3, <1>4, <1>5 DEF Next, Unloaded

LEMMA AloneKept ==
  ASSUME TypeOK, QueuedUnsent, Answers, Callers, Alone, [Next]_vars
  PROVE  Alone'
<1>1. ASSUME NEW c \in Commands, CallerStep(c) PROVE Alone'
  <2>1. CASE CommandBusy(c)
    BY <2>1, CommandsAssumption DEF CommandBusy, Settle, Alone, Running, Main, Second, Waiting,
       Closed, Callers, Answers, Waits, TypeOK, QueuedUnsent
  <2>2. CASE UnlockBegin(c)
    BY <2>2, CommandsAssumption DEF UnlockBegin, Begin, Alone, Running, Main, Second, Waiting,
       Closed, Callers, Answers, Waits, TypeOK, QueuedUnsent
  <2>3. CASE UnlockRefused(c)
    BY <2>3, CommandsAssumption DEF UnlockRefused, Settle, Failure, Alone, Running, Main, Second,
       Waiting, Closed, Callers, Answers, Waits, TypeOK, QueuedUnsent
  <2>4. CASE UnlockSubmit(c)
    BY <2>4, CommandsAssumption DEF UnlockSubmit, Alone, Running, Main, Second, Waiting, Closed,
       Callers, Answers, Waits, TypeOK, QueuedUnsent
  <2>5. CASE UnlockResult(c)
    BY <2>5, CommandsAssumption DEF UnlockResult, Settle, Failure, Alone, Running, Main, Second,
       Waiting, Closed, Callers, Answers, Waits, TypeOK, QueuedUnsent
  <2>6. CASE UnlockImpatient(c)
    BY <2>6, CommandsAssumption DEF UnlockImpatient, Settle, Failure, Alone, Running, Main,
       Second, Waiting, Closed, Callers, Answers, Waits, TypeOK, QueuedUnsent
  <2>7. CASE TargetRefused(c)
    BY <2>7, CommandsAssumption DEF TargetRefused, Settle, Begin, Alone, Running, Main, Second,
       Waiting, Closed, Callers, Answers, Waits, TypeOK, QueuedUnsent
  <2>8. CASE TargetBegin(c)
    BY <2>8, CommandsAssumption DEF TargetBegin, Begin, Alone, Running, Main, Second, Waiting,
       Closed, Callers, Answers, Waits, TypeOK, QueuedUnsent
  <2>9. CASE TargetEnd(c)
    BY <2>9, CommandsAssumption DEF TargetEnd, Settle, Failure, Alone, Running, Main, Second,
       Waiting, Closed, Callers, Answers, Waits, TypeOK, QueuedUnsent
  <2>10. CASE TargetCancel(c)
    BY <2>10, CommandsAssumption DEF TargetCancel, Alone, Running, Main, Second, Waiting, Closed,
       Callers, Answers, Waits, TypeOK, QueuedUnsent
  <2> QED BY <1>1, <2>1, <2>2, <2>3, <2>4, <2>5, <2>6, <2>7, <2>8, <2>9, <2>10 DEF CallerStep
<1>2. ASSUME NEW c \in Commands, ExecuteStep(c) PROVE Alone'
  <2>1. CASE AcquireFails(c)
    BY <2>1, CommandsAssumption DEF AcquireFails, Goto, Alone, Running, Main, Second, Waiting,
       Closed, Callers, Answers, Waits, TypeOK, QueuedUnsent
  <2>2. CASE AcquireReturns(c)
    BY <2>2, CommandsAssumption DEF AcquireReturns, Goto, Alone, Running, Main, Second, Waiting,
       Closed, Callers, Answers, Waits, TypeOK, QueuedUnsent
  <2>3. CASE Enqueue(c)
    BY <2>3, CommandsAssumption DEF Enqueue, Goto, Alone, Running, Main, Second, Waiting, Closed,
       Callers, Answers, Waits, TypeOK, QueuedUnsent
  <2>4. CASE Late(c)
    BY <2>4, CommandsAssumption DEF Late, Alone, Running, Main, Second, Waiting, Closed, Callers,
       Answers, Waits, TypeOK, QueuedUnsent
  <2>5. CASE WaitEnds(c)
    BY <2>5, CommandsAssumption DEF WaitEnds, Goto, Wakes, Alone, Running, Main, Second, Waiting,
       Closed, Callers, Answers, Waits, TypeOK, QueuedUnsent
  <2>6. CASE Accepted(c)
    BY <2>6, CommandsAssumption DEF Accepted, Goto, Ends, Wakes, Alone, Running, Main, Second,
       Waiting, Closed, Callers, Answers, Waits, TypeOK, QueuedUnsent
  <2>7. CASE RefusedByDevice(c)
    BY <2>7, CommandsAssumption DEF RefusedByDevice, Goto, Wakes, Alone, Running, Main, Second,
       Waiting, Closed, Callers, Answers, Waits, TypeOK, QueuedUnsent
  <2>8. CASE DecodeFails(c)
    BY <2>8, CommandsAssumption DEF DecodeFails, Goto, Wakes, Alone, Running, Main, Second,
       Waiting, Closed, Callers, Answers, Waits, TypeOK, QueuedUnsent
  <2>9. CASE Except(c)
    BY <2>9, CommandsAssumption DEF Except, Goto, Alone, Running, Main, Second, Waiting, Closed,
       Callers, Answers, Waits, TypeOK, QueuedUnsent
  <2>10. CASE IdleOff(c)
    BY <2>10, CommandsAssumption DEF IdleOff, Goto, Alone, Running, Main, Second, Waiting, Closed,
       Callers, Answers, Waits, TypeOK, QueuedUnsent
  <2>11. CASE Finally(c)
    BY <2>11, CommandsAssumption DEF Finally, Goto, Alone, Running, Main, Second, Waiting, Closed,
       Callers, Answers, Waits, TypeOK, QueuedUnsent
  <2>12. CASE Release(c)
    BY <2>12, CommandsAssumption DEF Release, Goto, Ends, Alone, Running, Main, Second, Waiting,
       Closed, Callers, Answers, Waits, TypeOK, QueuedUnsent
  <2> QED BY <1>2, <2>1, <2>2, <2>3, <2>4, <2>5, <2>6, <2>7, <2>8, <2>9, <2>10, <2>11, <2>12 DEF ExecuteStep
<1>3. CASE WorkerStep
  <2>1. ASSUME NEW ch \in 1..2, Connect(ch) PROVE Alone'
    BY <2>1, CommandsAssumption DEF Connect, Alone, Running, Main, Second, Waiting, Closed,
       Callers, Answers, Waits, TypeOK, QueuedUnsent
  <2>2. ASSUME NEW r \in Commands \cup {None}, Observe(r) PROVE Alone'
    BY <2>2, CommandsAssumption DEF Observe, Post, Alone, Running, Main, Second, Waiting, Closed,
       Callers, Answers, Waits, TypeOK, QueuedUnsent
  <2>3. CASE Login
    BY <2>3, CommandsAssumption DEF Login, Alone, Running, Main, Second, Waiting, Closed, Callers,
       Answers, Waits, TypeOK, QueuedUnsent
  <2>4. CASE NothingToSend
    BY <2>4, CommandsAssumption DEF NothingToSend, Servable, Alone, Running, Main, Second,
       Waiting, Closed, Callers, Answers, Waits, TypeOK, QueuedUnsent
  <2>5. CASE ClaimRefused
    BY <2>5, CommandsAssumption DEF ClaimRefused, Post, Servable, Alone, Running, Main, Second,
       Waiting, Closed, Callers, Answers, Waits, TypeOK, QueuedUnsent
  <2>6. CASE Claim
    BY <2>6, CommandsAssumption DEF Claim, Servable, Alone, Running, Main, Second, Waiting,
       Closed, Callers, Answers, Waits, TypeOK, QueuedUnsent
  <2>7. CASE Send
    BY <2>7, CommandsAssumption DEF Send, Alone, Running, Main, Second, Waiting, Closed, Callers,
       Answers, Waits, TypeOK, QueuedUnsent
  <2>8. CASE SendFails
    BY <2>8, CommandsAssumption DEF SendFails, Post, Alone, Running, Main, Second, Waiting,
       Closed, Callers, Answers, Waits, TypeOK, QueuedUnsent
  <2>9. CASE MediaClosed
    BY <2>9, CommandsAssumption DEF MediaClosed, Post, Alone, Running, Main, Second, Waiting,
       Closed, Callers, Answers, Waits, TypeOK, QueuedUnsent
  <2>10. CASE SessionClosed
    BY <2>10, CommandsAssumption DEF SessionClosed, Alone, Running, Main, Second, Waiting, Closed,
       Callers, Answers, Waits, TypeOK, QueuedUnsent
  <2> QED BY <1>3, <2>1, <2>2, <2>3, <2>4, <2>5, <2>6, <2>7, <2>8, <2>9, <2>10 DEF WorkerStep
<1>4. CASE StopStep
  <2>1. CASE StopBegin
    BY <2>1, CommandsAssumption DEF StopBegin, Alone, Running, Main, Second, Waiting, Closed,
       Callers, Answers, Waits, TypeOK, QueuedUnsent
  <2>2. CASE CloseFlag
    BY <2>2, CommandsAssumption DEF CloseFlag, Alone, Running, Main, Second, Waiting, Closed,
       Callers, Answers, Waits, TypeOK, QueuedUnsent
  <2>3. CASE Close
    BY <2>3, CommandsAssumption DEF Close, Post, Alone, Running, Main, Second, Waiting, Closed,
       Callers, Answers, Waits, TypeOK, QueuedUnsent
  <2> QED BY <1>4, <2>1, <2>2, <2>3 DEF StopStep
<1>5. CASE UNCHANGED vars
  BY <1>5 DEF vars, Alone, Running, Main, Second, Waiting, Closed, Callers, Answers, Waits,
     TypeOK, QueuedUnsent
<1> QED BY <1>1, <1>2, <1>3, <1>4, <1>5 DEF Next, Unloaded

LEMMA CertainKept ==
  ASSUME TypeOK, QueuedUnsent, Callers, Alone, CertainFailure, [Next]_vars
  PROVE  CertainFailure'
<1>1. ASSUME NEW c \in Commands, CallerStep(c) PROVE CertainFailure'
  <2>1. CASE CommandBusy(c)
    BY <2>1, CommandsAssumption DEF CommandBusy, Settle, CertainFailure, Alone, Running, Main,
       Waiting, Closed, Callers, TypeOK, QueuedUnsent
  <2>2. CASE UnlockBegin(c)
    BY <2>2, CommandsAssumption DEF UnlockBegin, Begin, CertainFailure, Alone, Running, Main,
       Waiting, Closed, Callers, TypeOK, QueuedUnsent
  <2>3. CASE UnlockRefused(c)
    BY <2>3, CommandsAssumption DEF UnlockRefused, Settle, Failure, CertainFailure, Alone,
       Running, Main, Waiting, Closed, Callers, TypeOK, QueuedUnsent
  <2>4. CASE UnlockSubmit(c)
    BY <2>4, CommandsAssumption DEF UnlockSubmit, CertainFailure, Alone, Running, Main, Waiting,
       Closed, Callers, TypeOK, QueuedUnsent
  <2>5. CASE UnlockResult(c)
    BY <2>5, CommandsAssumption DEF UnlockResult, Settle, Failure, CertainFailure, Alone, Running,
       Main, Waiting, Closed, Callers, TypeOK, QueuedUnsent
  <2>6. CASE UnlockImpatient(c)
    BY <2>6, CommandsAssumption DEF UnlockImpatient, Settle, Failure, CertainFailure, Alone,
       Running, Main, Waiting, Closed, Callers, TypeOK, QueuedUnsent
  <2>7. CASE TargetRefused(c)
    BY <2>7, CommandsAssumption DEF TargetRefused, Settle, Begin, CertainFailure, Alone, Running,
       Main, Waiting, Closed, Callers, TypeOK, QueuedUnsent
  <2>8. CASE TargetBegin(c)
    BY <2>8, CommandsAssumption DEF TargetBegin, Begin, CertainFailure, Alone, Running, Main,
       Waiting, Closed, Callers, TypeOK, QueuedUnsent
  <2>9. CASE TargetEnd(c)
    BY <2>9, CommandsAssumption DEF TargetEnd, Settle, Failure, CertainFailure, Alone, Running,
       Main, Waiting, Closed, Callers, TypeOK, QueuedUnsent
  <2>10. CASE TargetCancel(c)
    BY <2>10, CommandsAssumption DEF TargetCancel, CertainFailure, Alone, Running, Main, Waiting,
       Closed, Callers, TypeOK, QueuedUnsent
  <2> QED BY <1>1, <2>1, <2>2, <2>3, <2>4, <2>5, <2>6, <2>7, <2>8, <2>9, <2>10 DEF CallerStep
<1>2. ASSUME NEW c \in Commands, ExecuteStep(c) PROVE CertainFailure'
  <2>1. CASE AcquireFails(c)
    BY <2>1, CommandsAssumption DEF AcquireFails, Goto, CertainFailure, Alone, Running, Main,
       Waiting, Closed, Callers, TypeOK, QueuedUnsent
  <2>2. CASE AcquireReturns(c)
    BY <2>2, CommandsAssumption DEF AcquireReturns, Goto, CertainFailure, Alone, Running, Main,
       Waiting, Closed, Callers, TypeOK, QueuedUnsent
  <2>3. CASE Enqueue(c)
    BY <2>3, CommandsAssumption DEF Enqueue, Goto, CertainFailure, Alone, Running, Main, Waiting,
       Closed, Callers, TypeOK, QueuedUnsent
  <2>4. CASE Late(c)
    BY <2>4, CommandsAssumption DEF Late, CertainFailure, Alone, Running, Main, Waiting, Closed,
       Callers, TypeOK, QueuedUnsent
  <2>5. CASE WaitEnds(c)
    BY <2>5, CommandsAssumption DEF WaitEnds, Goto, Wakes, CertainFailure, Alone, Running, Main,
       Waiting, Closed, Callers, TypeOK, QueuedUnsent
  <2>6. CASE Accepted(c)
    BY <2>6, CommandsAssumption DEF Accepted, Goto, Ends, Wakes, CertainFailure, Alone, Running,
       Main, Waiting, Closed, Callers, TypeOK, QueuedUnsent
  <2>7. CASE RefusedByDevice(c)
    BY <2>7, CommandsAssumption DEF RefusedByDevice, Goto, Wakes, CertainFailure, Alone, Running,
       Main, Waiting, Closed, Callers, TypeOK, QueuedUnsent
  <2>8. CASE DecodeFails(c)
    BY <2>8, CommandsAssumption DEF DecodeFails, Goto, Wakes, CertainFailure, Alone, Running,
       Main, Waiting, Closed, Callers, TypeOK, QueuedUnsent
  <2>9. CASE Except(c)
    BY <2>9, CommandsAssumption DEF Except, Goto, CertainFailure, Alone, Running, Main, Waiting,
       Closed, Callers, TypeOK, QueuedUnsent
  <2>10. CASE IdleOff(c)
    BY <2>10, CommandsAssumption DEF IdleOff, Goto, CertainFailure, Alone, Running, Main, Waiting,
       Closed, Callers, TypeOK, QueuedUnsent
  <2>11. CASE Finally(c)
    BY <2>11, CommandsAssumption DEF Finally, Goto, CertainFailure, Alone, Running, Main, Waiting,
       Closed, Callers, TypeOK, QueuedUnsent
  <2>12. CASE Release(c)
    BY <2>12, CommandsAssumption DEF Release, Goto, Ends, CertainFailure, Alone, Running, Main,
       Waiting, Closed, Callers, TypeOK, QueuedUnsent
  <2> QED BY <1>2, <2>1, <2>2, <2>3, <2>4, <2>5, <2>6, <2>7, <2>8, <2>9, <2>10, <2>11, <2>12 DEF ExecuteStep
<1>3. CASE WorkerStep
  <2>1. ASSUME NEW ch \in 1..2, Connect(ch) PROVE CertainFailure'
    BY <2>1, CommandsAssumption DEF Connect, CertainFailure, Alone, Running, Main, Waiting,
       Closed, Callers, TypeOK, QueuedUnsent
  <2>2. ASSUME NEW r \in Commands \cup {None}, Observe(r) PROVE CertainFailure'
    BY <2>2, CommandsAssumption DEF Observe, Post, CertainFailure, Alone, Running, Main, Waiting,
       Closed, Callers, TypeOK, QueuedUnsent
  <2>3. CASE Login
    BY <2>3, CommandsAssumption DEF Login, CertainFailure, Alone, Running, Main, Waiting, Closed,
       Callers, TypeOK, QueuedUnsent
  <2>4. CASE NothingToSend
    BY <2>4, CommandsAssumption DEF NothingToSend, Servable, CertainFailure, Alone, Running, Main,
       Waiting, Closed, Callers, TypeOK, QueuedUnsent
  <2>5. CASE ClaimRefused
    BY <2>5, CommandsAssumption DEF ClaimRefused, Post, Servable, CertainFailure, Alone, Running,
       Main, Waiting, Closed, Callers, TypeOK, QueuedUnsent
  <2>6. CASE Claim
    BY <2>6, CommandsAssumption DEF Claim, Servable, CertainFailure, Alone, Running, Main,
       Waiting, Closed, Callers, TypeOK, QueuedUnsent
  <2>7. CASE Send
    BY <2>7, CommandsAssumption DEF Send, CertainFailure, Alone, Running, Main, Waiting, Closed,
       Callers, TypeOK, QueuedUnsent
  <2>8. CASE SendFails
    BY <2>8, CommandsAssumption DEF SendFails, Post, CertainFailure, Alone, Running, Main,
       Waiting, Closed, Callers, TypeOK, QueuedUnsent
  <2>9. CASE MediaClosed
    BY <2>9, CommandsAssumption DEF MediaClosed, Post, CertainFailure, Alone, Running, Main,
       Waiting, Closed, Callers, TypeOK, QueuedUnsent
  <2>10. CASE SessionClosed
    BY <2>10, CommandsAssumption DEF SessionClosed, CertainFailure, Alone, Running, Main, Waiting,
       Closed, Callers, TypeOK, QueuedUnsent
  <2> QED BY <1>3, <2>1, <2>2, <2>3, <2>4, <2>5, <2>6, <2>7, <2>8, <2>9, <2>10 DEF WorkerStep
<1>4. CASE StopStep
  <2>1. CASE StopBegin
    BY <2>1, CommandsAssumption DEF StopBegin, CertainFailure, Alone, Running, Main, Waiting,
       Closed, Callers, TypeOK, QueuedUnsent
  <2>2. CASE CloseFlag
    BY <2>2, CommandsAssumption DEF CloseFlag, CertainFailure, Alone, Running, Main, Waiting,
       Closed, Callers, TypeOK, QueuedUnsent
  <2>3. CASE Close
    BY <2>3, CommandsAssumption DEF Close, Post, CertainFailure, Alone, Running, Main, Waiting,
       Closed, Callers, TypeOK, QueuedUnsent
  <2> QED BY <1>4, <2>1, <2>2, <2>3 DEF StopStep
<1>5. CASE UNCHANGED vars
  BY <1>5 DEF vars, CertainFailure, Alone, Running, Main, Waiting, Closed, Callers, TypeOK,
     QueuedUnsent
<1> QED BY <1>1, <1>2, <1>3, <1>4, <1>5 DEF Next, Unloaded

ReplyInv ==
  /\ IInv /\ Answers /\ Replied /\ ReplyBelongs /\ IdleScoped
  /\ Callers /\ Alone /\ CertainFailure

LEMMA ReplyInvInit == Init => ReplyInv
<1> SUFFICES ASSUME Init PROVE ReplyInv
  OBVIOUS
<1>1. Answers
  BY CommandsAssumption DEF Init, Answers, Numbers, Waits, Owed, Live, Out
<1>2. Replied /\ ReplyBelongs /\ IdleScoped /\ CertainFailure
  BY DEF Init, Replied, ReplyBelongs, IdleScoped, CertainFailure
<1>3. Callers /\ Alone
  BY CommandsAssumption DEF Init, Callers, Alone, Running
<1> QED BY <1>1, <1>2, <1>3, InitIInv DEF ReplyInv

LEMMA ReplyInvInductive == ReplyInv /\ [Next]_vars => ReplyInv'
<1> SUFFICES ASSUME ReplyInv, [Next]_vars PROVE ReplyInv'
  OBVIOUS
<1>1. TypeOK /\ SendsClaimed /\ QueuedUnsent /\ IInv'
  BY IInvInductive DEF ReplyInv, IInv
<1>2. Answers'
  BY <1>1, NumbersKept, WaitsKept, OwedKept DEF ReplyInv, Answers
<1>3. Replied' /\ ReplyBelongs' /\ IdleScoped'
  BY <1>1, RepliesKept, IdleKept DEF ReplyInv
<1>4. Callers' /\ Alone' /\ CertainFailure'
  BY <1>1, CallersKept, AloneKept, CertainKept DEF ReplyInv
<1> QED BY <1>1, <1>2, <1>3, <1>4 DEF ReplyInv

\* The inductive invariant of requests, replies and verdicts.
THEOREM ReplyInvariant == Spec => []ReplyInv
  BY ReplyInvInit, ReplyInvInductive, PTL DEF Spec

\* A command is given the reply to another one only on a session on which yet
\* another command was cancelled.
THEOREM ReplyBelongsTheorem == Spec => []ReplyBelongs
<1>1. ReplyInv => ReplyBelongs
  BY DEF ReplyInv
<1> QED BY <1>1, ReplyInvariant, PTL

\* Clean time-outs count as idle only in the window of a command.
THEOREM IdleScopedTheorem == Spec => []IdleScoped
<1>1. ReplyInv => IdleScoped
  BY DEF ReplyInv
<1> QED BY <1>1, ReplyInvariant, PTL

\* A failure reported as certain stays so, unless a caller gave up after 80 s.
THEOREM CertainFailureTheorem == Spec => []CertainFailure
<1>1. ReplyInv => CertainFailure
  BY DEF ReplyInv
<1> QED BY <1>1, ReplyInvariant, PTL
-----------------------------------------------------------------------------
(* What the callers are promised (OutputCommand).                            *)

\* A success rests on a reply, only a command without one can be answered or
\* sent, and the attempt that a command counts while it holds control.lock is
\* its own, as long as no caller gave up.
Earned == \A c \in Commands : ending[c] = "ok" => answeredBy[c] # None
Fresh == \A c \in Commands : req[c] \in {"queued", "sent"} => answeredBy[c] = None
OwnAttempt == ~gaveUp => \A c \in Commands : ctl = c /\ attempts > before[c] => sentOn[c] # 0

OutcomeInv == ReplyInv /\ Earned /\ Fresh /\ OwnAttempt

\* Every caller step leaves requests, tasks' endings and the count alone, and
\* the command that takes control.lock counts from here.
LEMMA CallerKeeps ==
  ASSUME TypeOK, QueuedUnsent, Callers, NEW c \in Commands, CallerStep(c)
  PROVE  /\ UNCHANGED <<ending, req, answer, attempts, sentOn, answeredBy>>
         /\ gaveUp => gaveUp'
         /\ \A d \in Commands : ctl' = d =>
              (ctl = d /\ before'[d] = before[d]) \/ before'[d] = attempts
<1> USE CommandsAssumption DEF TypeOK, QueuedUnsent, Callers
<1>1. CASE CommandBusy(c) BY <1>1 DEF CommandBusy
<1>2. CASE UnlockBegin(c) BY <1>2 DEF UnlockBegin, Begin
<1>3. CASE UnlockRefused(c) BY <1>3 DEF UnlockRefused
<1>4. CASE UnlockSubmit(c) BY <1>4 DEF UnlockSubmit
<1>5. CASE UnlockResult(c) BY <1>5 DEF UnlockResult
<1>6. CASE UnlockImpatient(c) BY <1>6 DEF UnlockImpatient
<1>7. CASE TargetRefused(c) BY <1>7 DEF TargetRefused, Begin
<1>8. CASE TargetBegin(c) BY <1>8 DEF TargetBegin, Begin
<1>9. CASE TargetEnd(c) BY <1>9 DEF TargetEnd
<1>10. CASE TargetCancel(c) BY <1>10 DEF TargetCancel
<1> QED BY <1>1, <1>2, <1>3, <1>4, <1>5, <1>6, <1>7, <1>8, <1>9, <1>10 DEF CallerStep

\* An execute succeeds on a body only, and queues only its own new request.
LEMMA ExecuteKeeps ==
  ASSUME TypeOK, NEW c \in Commands, ExecuteStep(c)
  PROVE  /\ UNCHANGED <<callerVars, attempts, sentOn, answeredBy>>
         /\ \A d \in Commands : ending'[d] = "ok" => ending[d] = "ok" \/ answer[d] = "body"
         /\ \A d \in Commands : req'[d] = "sent" => req[d] = "sent"
         /\ \A d \in Commands : req'[d] = "queued" => req[d] = "queued" \/ task[d] = "enqueue"
<1> USE DEF TypeOK, Goto, Ends
<1>1. CASE AcquireFails(c) BY <1>1 DEF AcquireFails
<1>2. CASE AcquireReturns(c) BY <1>2 DEF AcquireReturns
<1>3. CASE Enqueue(c) BY <1>3 DEF Enqueue
<1>4. CASE Late(c) BY <1>4 DEF Late
<1>5. CASE WaitEnds(c) BY <1>5 DEF WaitEnds
<1>6. CASE Accepted(c) BY <1>6 DEF Accepted
<1>7. CASE RefusedByDevice(c) BY <1>7 DEF RefusedByDevice
<1>8. CASE DecodeFails(c) BY <1>8 DEF DecodeFails
<1>9. CASE Except(c) BY <1>9 DEF Except
<1>10. CASE IdleOff(c) BY <1>10 DEF IdleOff
<1>11. CASE Finally(c) BY <1>11 DEF Finally
<1>12. CASE Release(c) BY <1>12 DEF Release
<1> QED BY <1>1, <1>2, <1>3, <1>4, <1>5, <1>6, <1>7, <1>8, <1>9, <1>10, <1>11, <1>12 DEF ExecuteStep

\* The worker and the unload touch no caller and no ending, and put no request
\* back among those that may be sent or answered.
LEMMA WorkerKeeps ==
  ASSUME TypeOK, SendsClaimed, WorkerStep \/ StopStep \/ UNCHANGED vars
  PROVE  /\ UNCHANGED <<callerVars, ending>> /\ (attempts' = attempts \/ Claim)
         /\ \A d \in Commands : req'[d] \in {"queued", "sent"} =>
              req[d] = req'[d] \/ (Claim /\ d = pending)
<1> USE DEF TypeOK
<1>1. ASSUME NEW ch \in 1..2, Connect(ch) PROVE UNCHANGED <<callerVars, ending, attempts, req>>
  BY <1>1 DEF Connect
<1>2. ASSUME NEW r \in Commands \cup {None}, Observe(r)
      PROVE  /\ UNCHANGED <<callerVars, ending, attempts>>
             /\ \A d \in Commands : req'[d] \in {"queued", "sent"} => req[d] = req'[d]
  BY <1>2 DEF Observe
<1>3. Login \/ NothingToSend \/ Send \/ SessionClosed => UNCHANGED <<callerVars, ending, attempts, req>>
  BY DEF Login, NothingToSend, Send, SessionClosed
<1>4. ClaimRefused \/ SendFails \/ MediaClosed =>
        /\ UNCHANGED <<callerVars, ending, attempts>>
        /\ \A d \in Commands : req'[d] \in {"queued", "sent"} => req[d] = req'[d]
  BY DEF ClaimRefused, SendFails, MediaClosed
<1>5. Claim => /\ UNCHANGED <<callerVars, ending>>
               /\ \A d \in Commands : req'[d] \in {"queued", "sent"} => req[d] = req'[d] \/ d = pending
  BY DEF Claim
<1>6. StopStep => /\ UNCHANGED <<callerVars, ending, attempts>>
                  /\ \A d \in Commands : req'[d] \in {"queued", "sent"} => req[d] = req'[d]
  BY DEF StopStep, StopBegin, CloseFlag, Close
<1>7. UNCHANGED vars => UNCHANGED <<callerVars, ending, attempts, req>>
  BY DEF vars
<1> QED BY <1>1, <1>2, <1>3, <1>4, <1>5, <1>6, <1>7 DEF WorkerStep

\* Whose step it is.
LEMMA StepIs ==
  ASSUME [Next]_vars
  PROVE  \/ \E c \in Commands : CallerStep(c) \/ ExecuteStep(c)
         \/ WorkerStep \/ StopStep \/ UNCHANGED vars
  BY DEF Next, Unloaded

\* What is claimed was not sent before, is not answered, and somebody waits for
\* it who holds control.lock, unless a caller gave up.
LEMMA ClaimIsOwn ==
  ASSUME OutcomeInv, Claim
  PROVE  /\ pending \in Commands /\ sentOn[pending] = 0 /\ answeredBy[pending] = None
         /\ session # 0 /\ sentOn' = [sentOn EXCEPT ![pending] = session]
         /\ ~gaveUp => ctl = pending /\ verdict[pending] = "none"
<1> USE DEF OutcomeInv, ReplyInv, IInv
<1>1. /\ pending \in Commands /\ req[pending] = "queued" /\ ~Closed
      /\ sentOn' = [sentOn EXCEPT ![pending] = session]
  BY DEF Claim, Servable, TypeOK
<1>2. sentOn[pending] = 0 /\ task[pending] \in {"wait", "except", "idleoff", "finally"}
  BY <1>1 DEF QueuedUnsent
<1>3. answeredBy[pending] = None
  BY <1>1 DEF Fresh
<1>4. session # 0
  BY DEF Claim, Answers, Numbers, Live, TypeOK, Sessions
<1>5. ASSUME ~gaveUp PROVE ctl = pending /\ verdict[pending] = "none"
  <2>1. caller[pending] = "waiting"
    BY <1>1, <1>2, <1>5 DEF Alone, Running, Closed
  <2> QED BY <1>1, <2>1 DEF Callers
<1> QED BY <1>1, <1>2, <1>3, <1>4, <1>5

LEMMA OutcomeKept ==
  ASSUME OutcomeInv, [Next]_vars
  PROVE  Earned' /\ Fresh' /\ OwnAttempt'
<1> USE DEF OutcomeInv, ReplyInv, IInv
<1>1. ASSUME NEW c \in Commands, CallerStep(c) PROVE Earned' /\ Fresh' /\ OwnAttempt'
  <2>1. Earned' /\ Fresh'
    BY <1>1, CallerKeeps DEF Earned, Fresh
  <2>2. OwnAttempt'
    BY <1>1, CallerKeeps DEF OwnAttempt, TypeOK
  <2> QED BY <2>1, <2>2
<1>2. ASSUME NEW c \in Commands, ExecuteStep(c) PROVE Earned' /\ Fresh' /\ OwnAttempt'
  <2>1. Earned'
    BY <1>2, ExecuteKeeps DEF Earned, Answers, Waits
  <2>2. \A d \in Commands : task[d] = "enqueue" => answeredBy[d] = None
    BY DEF QueuedUnsent, Replied
  <2>3. Fresh'
    BY <1>2, <2>2, ExecuteKeeps DEF Fresh
  <2>4. OwnAttempt'
    BY <1>2, ExecuteKeeps DEF OwnAttempt
  <2> QED BY <2>1, <2>3, <2>4
<1>3. ASSUME WorkerStep \/ StopStep \/ UNCHANGED vars PROVE Earned' /\ Fresh' /\ OwnAttempt'
  <2>1. CASE Claim
    <3>1. answeredBy' = answeredBy /\ attempts' = attempts + 1 /\ UNCHANGED <<callerVars, ending>>
      BY <2>1 DEF Claim
    <3>2. Earned' /\ Fresh'
      BY <1>3, <2>1, <3>1, ClaimIsOwn, WorkerKeeps DEF Earned, Fresh
    <3>3. OwnAttempt'
      BY <2>1, <3>1, ClaimIsOwn DEF OwnAttempt, TypeOK, Sessions
    <3> QED BY <3>2, <3>3
  <2>2. ASSUME ~Claim, NEW r \in Commands \cup {None}, Observe(r) PROVE Earned' /\ Fresh' /\ OwnAttempt'
    <3>1. /\ \A d \in Commands : answeredBy[d] # None => answeredBy'[d] # None
          /\ \A d \in Commands : answeredBy'[d] # answeredBy[d] => req'[d] = "answered"
      BY <2>2 DEF Observe, Post, Fresh, TypeOK
    <3>2. UNCHANGED <<callerVars, ending, attempts, sentOn>>
      BY <2>2 DEF Observe
    <3>3. Earned' /\ OwnAttempt'
      BY <3>1, <3>2 DEF Earned, OwnAttempt
    <3>4. Fresh'
      BY <1>3, <2>2, <3>1, WorkerKeeps DEF Fresh
    <3> QED BY <3>3, <3>4
  <2>3. CASE ~Claim /\ ~(\E r \in Commands \cup {None} : Observe(r))
    <3>1. UNCHANGED <<callerVars, ending, attempts, sentOn, answeredBy>>
      BY <1>3, <2>3, WorkerKeeps, History
    <3> QED BY <1>3, <2>3, <3>1, WorkerKeeps DEF Earned, Fresh, OwnAttempt
  <2> QED BY <2>1, <2>2, <2>3
<1> QED BY <1>1, <1>2, <1>3, StepIs

LEMMA OutcomeInit == Init => OutcomeInv
<1>1. Init => Earned /\ Fresh /\ OwnAttempt
  BY CommandsAssumption DEF Init, Earned, Fresh, OwnAttempt
<1> QED BY <1>1, ReplyInvInit DEF OutcomeInv

\* The inductive invariant of the outcomes: a success rests on a reply, and
\* whoever holds control.lock counts its own attempt.
THEOREM OutcomeInvariant == Spec => []OutcomeInv
<1>1. OutcomeInv /\ [Next]_vars => OutcomeInv'
  BY OutcomeKept, ReplyInvInductive DEF OutcomeInv
<1> QED BY <1>1, OutcomeInit, PTL DEF Spec

\* A step that tells a caller something true is Tell.
LEMMA ToldRefines ==
  ASSUME TypeOK, CertainFailure', NEW c \in Commands, NEW v \in {"ok", "certain", "uncertain"},
         verdict[c] = "none", verdict' = [verdict EXCEPT ![c] = v],
         gaveUp' \in {gaveUp, TRUE}, UNCHANGED <<sentOn, answeredBy>>,
         v = "ok" => answeredBy[c] # None,
         v = "uncertain" => sentOn[c] # 0 \/ gaveUp'
  PROVE  Promise!Next
<1>1. v = "certain" => sentOn[c] = 0 \/ answeredBy[c] # None \/ gaveUp'
  BY DEF TypeOK, CertainFailure
<1>2. Promise!Tell(c, v)
  BY <1>1 DEF Promise!Tell
<1> QED BY <1>2 DEF Promise!Next, Promise!Verdicts

LEMMA FailureTrue ==
  ASSUME OutcomeInv, NEW c \in Commands, caller[c] \in {"check", "waiting"}
  PROVE  /\ verdict[c] = "none" /\ Failure(c) \in {"certain", "uncertain"}
         /\ Failure(c) = "uncertain" => sentOn[c] # 0 \/ gaveUp
<1> USE DEF OutcomeInv, ReplyInv, IInv
<1>1. ctl = c /\ verdict[c] = "none"
  BY DEF Callers, TypeOK
<1> QED BY <1>1 DEF Failure, OwnAttempt, TypeOK

LEMMA CallerRefines ==
  ASSUME OutcomeInv, CertainFailure', NEW c \in Commands, CallerStep(c)
  PROVE  Promise!Next \/ UNCHANGED Promise!vars
<1> USE DEF OutcomeInv, ReplyInv, IInv
<1>1. UNCHANGED <<sentOn, answeredBy>>
  BY CallerKeeps
<1>2. ASSUME UNCHANGED <<verdict, gaveUp>> PROVE UNCHANGED Promise!vars
  BY <1>1, <1>2 DEF Promise!vars
<1>3. caller[c] = "idle" => verdict[c] = "none"
  BY DEF Callers, TypeOK
<1>4. CASE CommandBusy(c)
  BY <1>1, <1>3, <1>4, ToldRefines DEF CommandBusy, Settle, TypeOK
<1>5. CASE TargetRefused(c)
  BY <1>1, <1>3, <1>5, ToldRefines DEF TargetRefused, Begin, Settle, TypeOK
<1>6. CASE UnlockRefused(c)
  <2>1. /\ caller[c] = "check" /\ gaveUp' = gaveUp
        /\ verdict' = [verdict EXCEPT ![c] = Failure(c)]
    BY <1>6 DEF UnlockRefused, Settle
  <2> QED BY <1>1, <2>1, FailureTrue, ToldRefines DEF TypeOK
<1>7. CASE UnlockImpatient(c)
  <2>1. /\ caller[c] = "waiting" /\ gaveUp' = TRUE
        /\ verdict' = [verdict EXCEPT ![c] = Failure(c)]
    BY <1>7 DEF UnlockImpatient, Settle, Waiting
  <2> QED BY <1>1, <2>1, FailureTrue, ToldRefines DEF TypeOK
<1>8. CASE UnlockResult(c) \/ TargetEnd(c)
  <2>1. PICK v \in {"ok", Failure(c)} :
           /\ caller[c] = "waiting" /\ gaveUp' = gaveUp /\ verdict' = [verdict EXCEPT ![c] = v]
           /\ v = "ok" => ending[c] = "ok" \/ Failure(c) = "ok"
    BY <1>8 DEF UnlockResult, TargetEnd, Settle, Waiting
  <2>2. v = "ok" => answeredBy[c] # None
    BY <2>1, FailureTrue DEF Earned
  <2>3. verdict[c] = "none" /\ v \in {"ok", "certain", "uncertain"}
    BY <2>1, FailureTrue
  <2>4. v = "uncertain" => sentOn[c] # 0 \/ gaveUp'
    BY <2>1, FailureTrue
  <2>5. gaveUp' \in {gaveUp, TRUE}
    BY <2>1
  <2> QED BY <1>1, <2>1, <2>2, <2>3, <2>4, <2>5, ToldRefines
<1>9. CASE UnlockBegin(c) \/ UnlockSubmit(c) \/ TargetBegin(c) \/ TargetCancel(c)
  BY <1>2, <1>9 DEF UnlockBegin, UnlockSubmit, TargetBegin, TargetCancel
<1> QED BY <1>4, <1>5, <1>6, <1>7, <1>8, <1>9 DEF CallerStep

LEMMA ClaimRefines ==
  ASSUME OutcomeInv, Claim
  PROVE  Promise!Next
<1>1. TypeOK /\ UNCHANGED <<answeredBy, verdict, gaveUp>>
  BY DEF Claim, OutcomeInv, ReplyInv, IInv
<1>2. /\ pending \in Commands /\ sentOn[pending] = 0 /\ session # 0
      /\ verdict[pending] = "none" \/ gaveUp
      /\ sentOn' = [sentOn EXCEPT ![pending] = session]
  BY <1>1, ClaimIsOwn DEF TypeOK
<1>3. {c \in Commands : sentOn'[c] # 0} = {c \in Commands : sentOn[c] # 0} \cup {pending}
  BY <1>1, <1>2 DEF TypeOK
<1>4. Promise!Send(pending)
  BY <1>1, <1>2, <1>3 DEF Promise!Send
<1> QED BY <1>2, <1>4 DEF Promise!Next, Promise!Send

LEMMA ObserveRefines ==
  ASSUME OutcomeInv, NEW r \in Commands \cup {None}, Observe(r)
  PROVE  Promise!Next \/ UNCHANGED Promise!vars
<1> USE DEF OutcomeInv, ReplyInv, IInv
<1>1. UNCHANGED <<sentOn, verdict, gaveUp>>
  BY DEF Observe
<1>2. CASE answeredBy' = answeredBy
  BY <1>1, <1>2 DEF Promise!vars
<1>3. CASE answeredBy' # answeredBy
  <2>1. /\ pending \in Commands /\ req[pending] = "sent" /\ r # None
        /\ answeredBy' = [answeredBy EXCEPT ![pending] = r]
    BY <1>3 DEF Observe, TypeOK
  <2>2. answeredBy[pending] = None
    BY <2>1 DEF Fresh
  <2>3. sentOn[pending] # 0
    BY <2>1 DEF Answers, Waits, Numbers, Live, TypeOK, Sessions
  <2>4. {c \in Commands : answeredBy'[c] # None} = {c \in Commands : answeredBy[c] # None} \cup {pending}
    BY <2>1 DEF TypeOK
  <2>5. Promise!Answer(pending)
    BY <1>1, <2>1, <2>2, <2>3, <2>4 DEF Promise!Answer
  <2> QED BY <2>1, <2>5 DEF Promise!Next, Promise!Answer
<1> QED BY <1>2, <1>3

\* Callers on threads and on the loop, execute, one pending request and the media
\* worker implement what a caller is promised: the command leaves once or not at
\* all, never after its caller was answered, and the verdict is true (control.py
\* unlock, unlock_target; v1_control.py execute, observe, send_pending).
THEOREM OutputImplementsCommand == Spec => ImplementsCommand
<1>1. Init => Promise!Init
  <2> SUFFICES ASSUME Init PROVE Promise!Init
    OBVIOUS
  <2>1. {c \in Commands : sentOn[c] # 0} = {} /\ {c \in Commands : answeredBy[c] # None} = {}
    BY DEF Init
  <2> QED BY <2>1 DEF Init, Promise!Init
<1>2. OutcomeInv /\ OutcomeInv' /\ [Next]_vars => [Promise!Next]_(Promise!vars)
  <2> SUFFICES ASSUME OutcomeInv, CertainFailure', [Next]_vars
               PROVE  Promise!Next \/ UNCHANGED Promise!vars
    BY DEF OutcomeInv, ReplyInv
  <2> USE DEF OutcomeInv, ReplyInv, IInv
  <2>1. ASSUME NEW c \in Commands, CallerStep(c) PROVE Promise!Next \/ UNCHANGED Promise!vars
    BY <2>1, CallerRefines
  <2>2. CASE Claim
    BY <2>2, ClaimRefines
  <2>3. ASSUME NEW r \in Commands \cup {None}, Observe(r) PROVE Promise!Next \/ UNCHANGED Promise!vars
    BY <2>3, ObserveRefines
  <2>4. ASSUME UNCHANGED <<verdict, gaveUp, sentOn, answeredBy>> PROVE UNCHANGED Promise!vars
    BY <2>4 DEF Promise!vars
  <2>5. ASSUME NEW c \in Commands, ExecuteStep(c) PROVE UNCHANGED Promise!vars
    BY <2>4, <2>5, ExecuteKeeps
  <2>6. ASSUME WorkerStep \/ StopStep \/ UNCHANGED vars,
               ~Claim, ~\E r \in Commands \cup {None} : Observe(r)
        PROVE  UNCHANGED Promise!vars
    BY <2>4, <2>6, WorkerKeeps, History
  <2> QED BY <2>1, <2>2, <2>3, <2>5, <2>6, StepIs
<1> QED BY <1>1, <1>2, OutcomeInvariant, PTL DEF Spec, ImplementsCommand, Promise!Spec
=============================================================================
