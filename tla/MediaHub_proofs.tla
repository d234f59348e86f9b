-------------------------- MODULE MediaHub_proofs --------------------------
(***************************************************************************)
(* Proofs about the shared media session, for every set of consumers and   *)
(* every bound.  Each invariant has its own lemma, one step per action; the *)
(* lemmas are put together in IInvInvariant.                               *)
(***************************************************************************)
EXTENDS MediaHub, TLAPS

USE DEF leaseVars, taskVars, workerVars, stateVars, identVars, rivalVars

LEMMA DeadType == Dead \in Worker
  BY BoundsAssumption DEF Dead, Worker, WorkerPcs, Channels

LEMMA InitType == Init => TypeOK /\ ProfilesLeft
<1> SUFFICES ASSUME Init PROVE TypeOK /\ ProfilesLeft
  OBVIOUS
<1>1. workers \in [WorkerIds -> Worker] /\ ProfilesLeft
  BY DeadType DEF Init, ProfilesLeft, Dead
<1>2. queue \in Seq(Event)
  BY DEF Init
<1>3. thread \in 0..started /\ started \in 0..MaxWorkers /\ variant \in {"v1", "r001", "unknown"}
  BY BoundsAssumption, ConfigAssumption DEF Init
<1> QED
  BY <1>1, <1>2, <1>3 DEF Init, TypeOK, Channels, Errors

\* The shape every worker step has: one record changes, at most one callback
\* is posted.
LEMMA WorkerShape ==
  ASSUME TypeOK, NEW w \in WorkerIds, NEW r \in Worker, Become(w, r)
  PROVE  workers' \in [WorkerIds -> Worker]
  BY DEF TypeOK, Become

LEMMA EmitType ==
  ASSUME TypeOK, NEW w \in WorkerIds, NEW kind, NEW arg,
         [gen |-> workers[w].gen, kind |-> kind, arg |-> arg] \in Event,
         Emit(w, kind, arg)
  PROVE  queue' \in Seq(Event)
  BY DEF TypeOK, Emit

\* A worker step keeps the types, and leaves a profile to try where it goes on
\* to the next one.
LEMMA WorkerType ==
  ASSUME TypeOK, ProfilesLeft, NEW w \in WorkerIds, WorkerStep(w)
  PROVE  TypeOK' /\ ProfilesLeft'
<1> DEFINE W == workers[w]
<1>0. W \in Worker /\ W.gen \in Nat /\ W.prof \in 0..Profiles
  BY DEF TypeOK, Worker
<1> SUFFICES
      \E r \in Worker :
        /\ Become(w, r) /\ (r.pc = "next" => r.prof > 0)
        /\ queue' \in Seq(Event) /\ WorkerUnchanged
  <2> SUFFICES ASSUME NEW r \in Worker, Become(w, r), r.pc = "next" => r.prof > 0,
                      queue' \in Seq(Event), WorkerUnchanged
               PROVE  TypeOK' /\ ProfilesLeft'
    OBVIOUS
  <2>1. workers' \in [WorkerIds -> Worker]
    BY WorkerShape
  <2>2. TypeOK'
    BY <2>1 DEF TypeOK, WorkerUnchanged
  <2>3. ProfilesLeft'
    BY DEF ProfilesLeft, Become, TypeOK
  <2> QED BY <2>2, <2>3
<1>1. CASE WorkerLoop(w)
  <2> DEFINE r == IF W.stop THEN Dead
                  ELSE [W EXCEPT !.pc = "next", !.ch = activeCh,
                         !.prof = ProfileCount(activeCh), !.found = FALSE, !.v1 = FALSE]
  <2>1. ProfileCount(activeCh) \in 1..Profiles /\ activeCh \in Channels
    BY BoundsAssumption DEF ProfileCount, TypeOK
  <2>2. ProfileCount(activeCh) \in 0..Profiles /\ ProfileCount(activeCh) > 0
    BY <2>1, BoundsAssumption
  <2>3. r \in Worker
    BY <1>0, <2>1, <2>2, DeadType DEF Worker, WorkerPcs
  <2>4. r.pc = "next" => r.prof > 0
    BY <1>0, <2>2 DEF Worker, Dead
  <2> QED BY <1>1, <2>3, <2>4 DEF WorkerLoop, TypeOK
<1>2. CASE WorkerNext(w)
  <2>1. W.pc = "next" /\ W.prof - 1 \in 0..Profiles
    BY <1>0, <1>2, BoundsAssumption DEF WorkerNext, ProfilesLeft
  <2> DEFINE r == IF W.stop THEN Dead
                  ELSE [W EXCEPT !.pc = "connect", !.prof = @ - 1, !.v1 = FALSE]
  <2>2. r \in Worker /\ r.pc # "next"
    BY <1>0, <2>1, DeadType DEF Worker, WorkerPcs, Dead
  <2> QED BY <1>2, <2>2 DEF WorkerNext, TypeOK
<1>3. CASE WorkerLogin(w)
  <2> DEFINE r == [W EXCEPT !.pc = "login"]
  <2>1. r \in Worker /\ r.pc # "next"
    BY <1>0 DEF Worker, WorkerPcs
  <2> QED BY <1>3, <2>1 DEF WorkerLogin, TypeOK
<1>4. CASE WorkerRefused(w)
  <2> DEFINE r == [W EXCEPT !.pc = "finish", !.quit = TRUE]
  <2>1. r \in Worker /\ r.pc # "next"
    BY <1>0 DEF Worker, WorkerPcs
  <2>2. queue' \in Seq(Event)
    BY <1>0, <1>4, EmitType DEF WorkerRefused, Event, Errors
  <2> QED BY <1>4, <2>1, <2>2 DEF WorkerRefused
<1>5. ASSUME NEW m \in Models \cup {"other"}, WorkerFormat(w, m)
      PROVE  \E r \in Worker :
               /\ Become(w, r) /\ (r.pc = "next" => r.prof > 0)
               /\ queue' \in Seq(Event) /\ WorkerUnchanged
  <2> DEFINE r == [W EXCEPT !.pc = "format", !.v1 = (m = "v1")]
  <2>1. r \in Worker /\ r.pc # "next"
    BY <1>0 DEF Worker, WorkerPcs
  <2>2. queue' \in Seq(Event)
    BY <1>0, <1>5, EmitType DEF WorkerFormat, Event, Models, TypeOK
  <2> QED BY <1>5, <2>1, <2>2 DEF WorkerFormat
<1>6. CASE WorkerVideo(w)
  <2> DEFINE r == [W EXCEPT !.pc = "live", !.found = TRUE]
  <2>1. r \in Worker /\ r.pc # "next"
    BY <1>0 DEF Worker, WorkerPcs
  <2>2. queue' \in Seq(Event)
    BY <1>0, <1>6, EmitType DEF WorkerVideo, Event, Errors
  <2> QED BY <1>6, <2>1, <2>2 DEF WorkerVideo
<1>7. CASE WorkerError(w)
  <2> DEFINE r == [W EXCEPT !.pc = "finish"]
  <2>1. r \in Worker /\ r.pc # "next"
    BY <1>0 DEF Worker, WorkerPcs
  <2>2. queue' \in Seq(Event)
    BY <1>0, <1>7, EmitType DEF WorkerError, Event, Errors, TypeOK
  <2> QED BY <1>7, <2>1, <2>2 DEF WorkerError
<1>8. CASE WorkerStopSeen(w)
  <2> PICK returns \in BOOLEAN : Become(w, [W EXCEPT !.pc = "finish", !.quit = returns])
    BY <1>8 DEF WorkerStopSeen
  <2> DEFINE r == [W EXCEPT !.pc = "finish", !.quit = returns]
  <2>1. r \in Worker /\ r.pc # "next"
    BY <1>0 DEF Worker, WorkerPcs
  <2> QED BY <1>8, <2>1 DEF WorkerStopSeen, TypeOK
<1>9. CASE WorkerFinish(w)
  <2> DEFINE r == IF W.quit THEN Dead ELSE [W EXCEPT !.pc = "decide"]
  <2>1. r \in Worker /\ r.pc # "next"
    BY <1>0, DeadType DEF Worker, WorkerPcs, Dead
  <2> QED BY <1>9, <2>1 DEF WorkerFinish, TypeOK
<1>10. CASE WorkerGiveUp(w)
  <2> DEFINE r == [W EXCEPT !.pc = "exit"]
  <2>1. r \in Worker /\ r.pc # "next"
    BY <1>0 DEF Worker, WorkerPcs
  <2>2. queue' \in Seq(Event)
    BY <1>0, <1>10, EmitType DEF WorkerGiveUp, Event, Errors
  <2> QED BY <1>10, <2>1, <2>2 DEF WorkerGiveUp
<1>11. CASE WorkerExit(w)
  BY <1>11, DeadType DEF WorkerExit, TypeOK, Dead
<1>12. CASE WorkerDecide(w)
  <2> DEFINE r == [W EXCEPT !.pc = IF W.found \/ W.v1 \/ W.prof = 0 THEN "failed" ELSE "next"]
  <2>1. r \in Worker /\ (r.pc = "next" => r.prof > 0)
    BY <1>0 DEF Worker, WorkerPcs
  <2> QED BY <1>12, <2>1 DEF WorkerDecide, TypeOK
<1>13. CASE WorkerFailed(w)
  <2> DEFINE r == IF W.stop THEN Dead ELSE [W EXCEPT !.pc = "backoff"]
  <2>1. r \in Worker /\ r.pc # "next"
    BY <1>0, DeadType DEF Worker, WorkerPcs, Dead
  <2>2. queue' \in Seq(Event)
    BY <1>0, <1>13, EmitType DEF WorkerFailed, Event, Errors, TypeOK
  <2>3. Become(w, r)
    BY <1>13 DEF WorkerFailed
  <2> QED BY <1>13, <2>1, <2>2, <2>3 DEF WorkerFailed
<1>14. CASE WorkerBackoff(w)
  <2> DEFINE r == IF W.stop THEN Dead ELSE [W EXCEPT !.pc = "loop"]
  <2>1. r \in Worker /\ r.pc # "next"
    BY <1>0, DeadType DEF Worker, WorkerPcs, Dead
  <2> QED BY <1>14, <2>1 DEF WorkerBackoff, TypeOK
<1> QED
  BY <1>1, <1>2, <1>3, <1>4, <1>5, <1>6, <1>7, <1>8, <1>9, <1>10, <1>11, <1>12,
     <1>13, <1>14 DEF WorkerStep

\* The microphone only sets or clears its flag.
LEMMA TalkType ==
  ASSUME TypeOK, TalkBegin \/ TalkEnd
  PROVE  TypeOK' /\ workers' = workers
<1>1. mainTalk' \in BOOLEAN
  BY DEF TalkBegin, TalkEnd
<1>2. UNCHANGED <<pc, lock, ctl, unlockPc, auxLease, trialPc, want, consumers, activeCh,
                  retryOk, workerVars, stateVars, queue, stopPc, identVars>>
  BY DEF TalkBegin, TalkEnd, RivalUnchanged
<1> QED BY <1>1, <1>2 DEF TypeOK

\* A halt that fails only gives the lock back.
LEMMA JoinFailedType ==
  ASSUME TypeOK, NEW c \in Consumers, ReleaseJoinFailed(c)
  PROVE  TypeOK' /\ workers' = workers
<1>1. pc' \in [Consumers -> {"idle", "lock", "ready", "woken", "held", "relock", "join"}]
  BY DEF TypeOK, ReleaseJoinFailed, Goto
<1>2. lock' \in BOOLEAN
  BY DEF ReleaseJoinFailed
<1>3. UNCHANGED <<want, consumers, activeCh, retryOk, workerVars, stateVars,
                 queue, stopPc, identVars, rivalVars>>
  BY DEF ReleaseJoinFailed
<1> QED BY <1>1, <1>2, <1>3 DEF TypeOK

\* Every other step keeps the types: one step per action.
LEMMA HubType ==
  ASSUME TypeOK, ProfilesLeft,
         \/ \E c \in Consumers : AcquireStep(c) \/ ReleaseStep(c)
         \/ Dispatch \/ StopStep \/ RivalStep
         \/ UNCHANGED vars
  PROVE  TypeOK' /\ ProfilesLeft'
<1> USE DEF Goto
<1>p. workers' = workers => ProfilesLeft'
  BY DEF ProfilesLeft
<1>1. ASSUME NEW c \in Consumers, AcquireStep(c)
      PROVE  TypeOK' /\ ProfilesLeft'
  <2>1. ASSUME NEW ch \in Channels, Acquire(c, ch)
        PROVE  TypeOK' /\ ProfilesLeft'
    BY <2>1 DEF Acquire, TypeOK, ProfilesLeft
  <2>2. CASE AcquireRefused(c)
    BY <2>2 DEF AcquireRefused, TypeOK, ProfilesLeft
  <2>3. CASE AcquireShared(c)
    <3>1. want[c] \in Channels /\ consumers \cup {c} \subseteq Consumers
      BY DEF TypeOK
    <3>2. RetryAllowed(consumers', activeCh') \in BOOLEAN
      BY DEF RetryAllowed
    <3>3. pc' \in [Consumers -> {"idle", "lock", "ready", "woken", "held", "relock", "join"}]
      BY <2>3 DEF AcquireShared, Outcome, TypeOK
    <3> QED BY <2>3, <3>1, <3>2, <3>3 DEF AcquireShared, TypeOK, ProfilesLeft
  <2>4. CASE AcquireStart(c)
    <3>1. want[c] \in Channels /\ consumers \cup {c} \subseteq Consumers
      BY DEF TypeOK
    <3>2. RetryAllowed(consumers', activeCh') \in BOOLEAN
      BY DEF RetryAllowed
    <3>3. /\ generation' \in Nat /\ started' \in 1..MaxWorkers /\ started' \in 0..MaxWorkers
          /\ thread' \in 0..started'
      BY <2>4, BoundsAssumption DEF AcquireStart, TypeOK
    <3>4. [Dead EXCEPT !.pc = "loop", !.gen = generation', !.ch = activeCh'] \in Worker
      BY <2>4, <3>1, <3>3, DeadType DEF AcquireStart, Worker, WorkerPcs, Dead
    <3>5. workers' \in [WorkerIds -> Worker] /\ ProfilesLeft'
      BY <2>4, <3>3, <3>4 DEF AcquireStart, TypeOK, WorkerIds, Dead, ProfilesLeft
    <3>6. pc' \in [Consumers -> {"idle", "lock", "ready", "woken", "held", "relock", "join"}]
      BY <2>4 DEF AcquireStart, TypeOK
    <3>7. TypeOK'
      <4>1. activeCh' \in Channels /\ consumers' \subseteq Consumers /\ retryOk' \in BOOLEAN
        BY <2>4, <3>1, <3>2 DEF AcquireStart
      <4>2. ready' \in BOOLEAN /\ error' \in Errors
        BY <2>4 DEF AcquireStart, Errors
      <4> QED BY <2>4, <3>3, <3>5, <3>6, <4>1, <4>2, ZenonT(30) DEF AcquireStart, TypeOK
    <3> QED BY <3>5, <3>7
  <2>5. CASE AcquireAbort(c)
    BY <2>5 DEF AcquireAbort, TypeOK, ProfilesLeft
  <2> QED BY <1>1, <2>1, <2>2, <2>3, <2>4, <2>5 DEF AcquireStep
<1>h. ASSUME HaltBegin
      PROVE  /\ workers' \in [WorkerIds -> Worker] /\ ProfilesLeft'
             /\ thread' \in 0..started' /\ started' \in 0..MaxWorkers /\ generation' \in Nat
             /\ ready' \in BOOLEAN /\ connected' \in BOOLEAN /\ error' \in Errors
  <2>1. workers' \in [WorkerIds -> Worker] /\ ProfilesLeft'
    BY <1>h DEF HaltBegin, TypeOK, ProfilesLeft, Worker
  <2>2. thread' \in 0..started' /\ started' \in 0..MaxWorkers /\ generation' \in Nat
    BY <1>h DEF HaltBegin, TypeOK
  <2>3. ready' \in BOOLEAN /\ connected' \in BOOLEAN /\ error' \in Errors
    BY <1>h DEF HaltBegin, Errors
  <2> QED BY <2>1, <2>2, <2>3
<1>s. \A r \in {"none", "pending", "scheduled"} : \A ls \in SUBSET Consumers :
        Scheduled(r, ls) \in {"none", "pending", "scheduled"}
  BY DEF Scheduled
<1>2. ASSUME NEW c \in Consumers, ReleaseStep(c)
      PROVE  TypeOK' /\ ProfilesLeft'
  <2>1. CASE Release(c)
    BY <2>1 DEF Release, TypeOK, ProfilesLeft
  <2>2. CASE ReleaseShared(c)
    <3>1. retryOk' \in BOOLEAN
      BY <2>2 DEF ReleaseShared, RetryAllowed, TypeOK
    <3>2. reload' \in {"none", "pending", "scheduled"}
      BY <2>2, <1>s DEF ReleaseShared, TypeOK
    <3> QED BY <2>2, <3>1, <3>2 DEF ReleaseShared, TypeOK, ProfilesLeft
  <2>3. CASE ReleaseLast(c)
    <3>1. retryOk' \in BOOLEAN
      BY <2>3 DEF ReleaseLast, RetryAllowed
    <3> QED BY <2>3, <3>1, <1>h DEF ReleaseLast, TypeOK
  <2>4. CASE ReleaseJoined(c)
    <3>1. reload' \in {"none", "pending", "scheduled"}
      BY <2>4, <1>s DEF ReleaseJoined, TypeOK
    <3>2. thread' \in 0..started'
      BY <2>4 DEF ReleaseJoined, TypeOK
    <3>3. /\ pc' \in [Consumers -> {"idle", "lock", "ready", "woken", "held", "relock", "join"}]
          /\ ready' \in BOOLEAN /\ connected' \in BOOLEAN /\ lock' \in BOOLEAN
          /\ error' \in Errors /\ activeCh' \in Channels
      BY <2>4 DEF ReleaseJoined, TypeOK, Channels, Errors
    <3>4. UNCHANGED <<want, consumers, retryOk, workers, started, generation, queue,
                      stopPc, variant, rivalVars>>
      BY <2>4 DEF ReleaseJoined
    <3>5. TypeOK'
      BY <3>1, <3>2, <3>3, <3>4 DEF TypeOK
    <3> QED BY <3>4, <3>5, <1>p
  <2>5. CASE ReleaseJoinFailed(c)
    BY <2>5, <1>p, JoinFailedType
  <2> QED BY <1>2, <2>1, <2>2, <2>3, <2>4, <2>5 DEF ReleaseStep
<1>w. ASSUME NEW q \in Seq(Event), WakeWaiters(q)
      PROVE  /\ queue' \in Seq(Event)
             /\ pc' \in [Consumers -> {"idle", "lock", "ready", "woken", "held", "relock", "join"}]
  <2>1. WakeEvent \in Event
    BY DEF WakeEvent, Event, Errors
  <2>2. Append(q, WakeEvent) \in Seq(Event)
    BY <2>1
  <2> QED BY <1>w, <2>2 DEF WakeWaiters, TypeOK
<1>3. CASE Dispatch
  <2>0. queue # <<>> => Tail(queue) \in Seq(Event) /\ Head(queue) \in Event
    BY DEF TypeOK
  <2>1. CASE DispatchStale
    BY <2>0, <2>1 DEF DispatchStale, TypeOK, ProfilesLeft
  <2>2. CASE DispatchState
    <3>1. error' \in Errors /\ connected' \in BOOLEAN /\ ready' \in BOOLEAN
      BY <2>0, <2>2 DEF DispatchState, Event
    <3>2. /\ queue' \in Seq(Event)
          /\ pc' \in [Consumers -> {"idle", "lock", "ready", "woken", "held", "relock", "join"}]
      BY <2>0, <2>2, <1>w DEF DispatchState
    <3>3. TypeOK'
      BY <2>2, <3>1, <3>2 DEF DispatchState, TypeOK
    <3> QED BY <2>2, <3>3, <1>p DEF DispatchState
  <2>3. CASE DispatchIdent
    <3>1. variant' \in {"v1", "r001", "unknown"}
      BY <2>0, <2>3 DEF DispatchIdent, Event, Models, TypeOK
    <3>2. reload' \in {"none", "pending", "scheduled"}
      BY <2>3, <1>s DEF DispatchIdent, TypeOK
    <3> QED BY <2>0, <2>3, <3>1, <3>2 DEF DispatchIdent, TypeOK, ProfilesLeft
  <2>4. CASE AcquireReturn
    BY <2>0, <2>4 DEF AcquireReturn, Outcome, TypeOK, ProfilesLeft
  <2> QED BY <1>3, <2>1, <2>2, <2>3, <2>4 DEF Dispatch
<1>4. CASE StopStep
  <2>1. CASE StopBegin
    <3>1. queue \in Seq(Event)
      BY DEF TypeOK
    <3> QED BY <2>1, <3>1, <1>w DEF StopBegin, TypeOK, ProfilesLeft
  <2>2. CASE StopHalt
    BY <2>2, <1>h DEF StopHalt, TypeOK
  <2>3. CASE StopJoined
    <3>1. thread' \in 0..started'
      BY <2>3 DEF StopJoined, TypeOK
    <3> QED BY <2>3, <3>1 DEF StopJoined, TypeOK, ProfilesLeft, Errors
  <2>4. CASE StopJoinFailed
    <3>1. TypeOK'
      BY <2>4, ZenonT(30) DEF StopJoinFailed, TypeOK
    <3> QED BY <2>4, <3>1, <1>p DEF StopJoinFailed
  <2> QED BY <1>4, <2>1, <2>2, <2>3, <2>4 DEF StopStep
<1>5. CASE RivalStep
  <2> USE DEF RivalUnchanged
  <2>1. CASE UnlockLock \/ UnlockCheck \/ UnlockDone
    BY <2>1 DEF UnlockLock, UnlockCheck, UnlockDone, TypeOK, ProfilesLeft
  <2>2. ASSUME NEW c \in Consumers, TargetBegin(c) \/ TargetEnd(c)
        PROVE  TypeOK' /\ ProfilesLeft'
    BY <2>2 DEF TargetBegin, TargetEnd, TypeOK, ProfilesLeft, Channels
  <2>3. CASE TalkBegin \/ TalkEnd
    BY <2>3, <1>p, TalkType
  <2>4. CASE TrialClaim \/ TrialEnter \/ TrialEnd
    <3>1. CASE TrialClaim
      BY <3>1, <1>p DEF TrialClaim, TypeOK
    <3>2. CASE TrialEnter
      <4>1. /\ trialPc' \in {"idle", "run"} /\ ctl' \in {ctl, "free"} /\ lock' \in {lock, TRUE}
            /\ UNCHANGED <<pc, unlockPc, auxLease, mainTalk>>
        BY <3>2 DEF TrialEnter
      <4>2. UNCHANGED <<want, consumers, activeCh, retryOk, workerVars, stateVars, queue,
                        stopPc, identVars>>
        BY <3>2 DEF TrialEnter
      <4>3. /\ trialPc' \in {"idle", "claim", "run"} /\ lock' \in BOOLEAN
            /\ ctl' \in {"free", "main", "aux", "trial"}
        BY <4>1 DEF TypeOK
      <4>4. TypeOK'
        BY <4>1, <4>2, <4>3 DEF TypeOK
      <4> QED BY <4>2, <4>4, <1>p
    <3>3. CASE TrialEnd
      <4>1. UNCHANGED <<want, consumers, activeCh, retryOk, workerVars, stateVars, queue,
                        stopPc, identVars, pc, unlockPc, auxLease, mainTalk>>
        BY <3>3 DEF TrialEnd
      <4>2. trialPc' = "idle" /\ lock' = FALSE /\ ctl' = "free"
        BY <3>3 DEF TrialEnd
      <4>3. TypeOK'
        BY <4>1, <4>2, ZenonT(30) DEF TypeOK
      <4> QED BY <4>1, <4>3, <1>p
    <3> QED BY <2>4, <3>1, <3>2, <3>3
  <2> QED BY <1>5, <2>1, <2>2, <2>3, <2>4 DEF RivalStep
<1>6. CASE UNCHANGED vars
  BY <1>6 DEF vars, TypeOK, ProfilesLeft
<1> QED BY <1>1, <1>2, <1>3, <1>4, <1>5, <1>6

\* Every variable keeps its type, and the worker's for loop never looks for a
\* profile past its last one (hub.py:999).
THEOREM TypeCorrect == Spec => [](TypeOK /\ ProfilesLeft)
<1>1. TypeOK /\ ProfilesLeft /\ [Next]_vars => TypeOK' /\ ProfilesLeft'
  BY WorkerType, HubType DEF Next
<1> QED BY <1>1, InitType, PTL DEF Spec

-----------------------------------------------------------------------------
(* Mutual exclusion *)

LEMMA InitExclusion == Init => Exclusion
  BY DEF Init, Exclusion, LeaseHolders, LockOwned, CtlOwned, OneMediaWorker, Alive, Dead,
         SessionNeedsLease, ChannelExclusive, SecondPanelExclusive, TrialExclusive

\* What a worker step does to its record: it dies, or goes on with the same
\* stop event, on its channel or on the active one.
LEMMA WorkerRecord ==
  ASSUME TypeOK, NEW w \in WorkerIds, WorkerStep(w)
  PROVE  /\ Alive(w)
         /\ workers' = [workers EXCEPT ![w] = workers'[w]]
         /\ \/ workers'[w] = Dead
            \/ /\ workers'[w].stop = workers[w].stop
               /\ workers'[w].ch \in {workers[w].ch, activeCh}
         /\ WorkerUnchanged
<1> USE DEF Become, Alive
<1>0. workers \in [WorkerIds -> Worker] /\ workers[w] \in Worker
  BY DEF TypeOK
<1>1. CASE WorkerLoop(w)
  BY <1>0, <1>1 DEF WorkerLoop, Worker
<1>2. CASE WorkerNext(w)
  BY <1>0, <1>2 DEF WorkerNext, Worker
<1>3. CASE WorkerLogin(w)
  BY <1>0, <1>3 DEF WorkerLogin, Worker
<1>4. CASE WorkerRefused(w)
  BY <1>0, <1>4 DEF WorkerRefused, Worker
<1>5. CASE \E m \in Models \cup {"other"} : WorkerFormat(w, m)
  BY <1>0, <1>5 DEF WorkerFormat, Worker
<1>6. CASE WorkerVideo(w)
  BY <1>0, <1>6 DEF WorkerVideo, Worker
<1>7. CASE WorkerError(w)
  BY <1>0, <1>7 DEF WorkerError, Worker
<1>8. CASE WorkerStopSeen(w)
  BY <1>0, <1>8 DEF WorkerStopSeen, Worker
<1>9. CASE WorkerFinish(w)
  BY <1>0, <1>9 DEF WorkerFinish, Worker
<1>10. CASE WorkerGiveUp(w)
  BY <1>0, <1>10 DEF WorkerGiveUp, Worker
<1>11. CASE WorkerExit(w)
  BY <1>0, <1>11 DEF WorkerExit, Worker
<1>12. CASE WorkerDecide(w)
  BY <1>0, <1>12 DEF WorkerDecide, Worker
<1>13. CASE WorkerFailed(w)
  BY <1>0, <1>13 DEF WorkerFailed, Worker
<1>14. CASE WorkerBackoff(w)
  BY <1>0, <1>14 DEF WorkerBackoff, Worker
<1> QED
  BY <1>1, <1>2, <1>3, <1>4, <1>5, <1>6, <1>7, <1>8, <1>9, <1>10, <1>11, <1>12,
     <1>13, <1>14 DEF WorkerStep

LEMMA WorkerExclusion ==
  ASSUME IInv, NEW w \in WorkerIds, WorkerStep(w)
  PROVE  Exclusion'
<1>0. TypeOK /\ Exclusion
  BY DEF IInv
<1>1. /\ Alive(w) /\ WorkerUnchanged
      /\ workers' = [workers EXCEPT ![w] = workers'[w]]
      /\ workers'[w] = Dead \/ ( /\ workers'[w].stop = workers[w].stop
                                /\ workers'[w].ch \in {workers[w].ch, activeCh} )
  BY <1>0, WorkerRecord
<1>2. \A v \in WorkerIds : Alive(v)' => Alive(v)
  BY <1>0, <1>1 DEF Alive, TypeOK
<1>3. \A v \in WorkerIds : Alive(v)' => /\ workers'[v].stop = workers[v].stop
                                       /\ workers'[v].ch \in {workers[v].ch, activeCh}
  BY <1>0, <1>1 DEF Alive, TypeOK, Dead
<1>4. LeaseHolders' /\ LockOwned' /\ CtlOwned' /\ SecondPanelExclusive'
  BY <1>0, <1>1 DEF WorkerUnchanged, Exclusion, LeaseHolders, LockOwned, CtlOwned, SecondPanelExclusive
<1>5. OneMediaWorker' /\ SessionNeedsLease' /\ ChannelExclusive' /\ TrialExclusive'
  BY <1>0, <1>1, <1>2, <1>3 DEF WorkerUnchanged, Exclusion, OneMediaWorker, SessionNeedsLease, ChannelExclusive, TrialExclusive
<1> QED BY <1>4, <1>5 DEF Exclusion

\* With no worker behind hub.thread there is no live worker at all.
LEMMA NoWorker ==
  ASSUME TypeOK, OneMediaWorker, ~ThreadAlive
  PROVE  \A w \in WorkerIds : ~Alive(w)
  BY DEF TypeOK, OneMediaWorker, ThreadAlive, WorkerIds

\* An acquire that starts a worker starts the only one.
LEMMA StartExclusion ==
  ASSUME IInv, NEW c \in Consumers, AcquireStart(c)
  PROVE  /\ \A w \in WorkerIds : Alive(w)' => w = thread' /\ workers'[w].ch = activeCh'
         /\ consumers' # {}
<1>1. /\ workers \in [WorkerIds -> Worker] /\ activeCh' = want[c]
      /\ started' = started + 1 /\ thread' = started' /\ consumers' = consumers \cup {c}
      /\ workers' = [workers EXCEPT ![started'] =
                       [Dead EXCEPT !.pc = "loop", !.gen = generation', !.ch = activeCh']]
  BY DEF IInv, TypeOK, AcquireStart
<1>2. \A w \in WorkerIds : ~Alive(w)
  BY NoWorker DEF IInv, Exclusion, AcquireStart
<1>3. \A w \in WorkerIds : w # started' => workers'[w] = workers[w]
  BY <1>1
<1>4. ASSUME NEW w \in WorkerIds, Alive(w)'
      PROVE  w = thread' /\ workers'[w].ch = activeCh'
  <2>1. w = started'
    BY <1>2, <1>3, <1>4 DEF Alive
  <2>2. workers'[w] = [Dead EXCEPT !.pc = "loop", !.gen = generation', !.ch = activeCh']
    BY <1>1, <2>1
  <2> QED BY <1>1, <2>1, <2>2 DEF Dead
<1> QED BY <1>1, <1>4

\* A step in which tasks only move on, and no lease holder leaves its lease.
LEMMA TasksExclusion ==
  ASSUME Exclusion, UNCHANGED <<consumers, lock, activeCh, stopPc, rivalVars, workers, thread>>,
         \A d \in consumers : want'[d] = want[d] /\ pc'[d] \in {"ready", "woken", "held", "relock"},
         \A d \in Consumers : pc'[d] = "join" => pc[d] = "join"
  PROVE  Exclusion'
<1>1. /\ LeaseHolders' /\ CtlOwned' /\ OneMediaWorker' /\ SessionNeedsLease'
      /\ SecondPanelExclusive' /\ TrialExclusive'
  BY DEF Exclusion, LeaseHolders, CtlOwned, OneMediaWorker, SessionNeedsLease,
         SecondPanelExclusive, TrialExclusive, Alive
<1>2. LockOwned'
  BY DEF Exclusion, LockOwned
<1>3. ChannelExclusive'
  BY DEF Exclusion, ChannelExclusive, Alive
<1> QED BY <1>1, <1>2, <1>3 DEF Exclusion

\* A lease is granted only on the active channel, or when nobody has one; the
\* second panel only while no command holds control.lock and no microphone is on.
LEMMA AcquireExclusion ==
  ASSUME IInv, NEW c \in Consumers, AcquireStep(c)
  PROVE  Exclusion'
<1> USE DEF Goto
<1>0. /\ TypeOK /\ Exclusion
      /\ pc \in [Consumers -> {"idle", "lock", "ready", "woken", "held", "relock", "join"}]
      /\ want \in [Consumers -> Channels] /\ consumers \subseteq Consumers
  BY DEF IInv, TypeOK
<1>2. ASSUME NEW ch \in Channels, Acquire(c, ch)
      PROVE  Exclusion'
  <2>1. c \notin consumers
    BY <1>0, <1>2 DEF Acquire, Exclusion, LeaseHolders
  <2> QED BY <1>0, TasksExclusion, <1>2, <2>1 DEF Acquire, Exclusion, LeaseHolders
<1>3. CASE AcquireRefused(c) \/ AcquireAbort(c)
  <2>1. pc[c] = "lock" => c \notin consumers
    BY <1>0 DEF Exclusion, LeaseHolders
  <2> QED BY <1>0, TasksExclusion, <1>3, <2>1 DEF AcquireRefused, AcquireAbort, Exclusion, LeaseHolders
<1>4. CASE AcquireShared(c) \/ AcquireStart(c)
  <2>1. /\ pc[c] = "lock" /\ ~lock /\ lock' = lock /\ ~Refused(c)
        /\ activeCh' = want[c] /\ consumers' = consumers \cup {c} /\ want' = want
        /\ pc' = [pc EXCEPT ![c] = pc'[c]] /\ pc'[c] \in {"ready", "held", "relock"}
        /\ UNCHANGED <<stopPc, rivalVars>>
    BY <1>0, <1>4 DEF AcquireShared, AcquireStart, Outcome
  <2>2. \A w \in WorkerIds : Alive(w)' => w = thread' /\ workers'[w].ch = activeCh'
    <3>1. CASE AcquireStart(c)
      BY <3>1, StartExclusion
    <3>2. CASE AcquireShared(c)
      <4>1. ThreadAlive /\ UNCHANGED workerVars /\ activeCh = want[c]
        BY <2>1, <3>2 DEF AcquireShared, Refused, ChannelBusy
      <4> QED BY <1>0, <2>1, <4>1 DEF Exclusion, OneMediaWorker, ChannelExclusive, Alive
    <3> QED BY <1>4, <3>1, <3>2
  <2>3. LeaseHolders'
    BY <1>0, <2>1 DEF Exclusion, LeaseHolders
  <2>4. LockOwned' /\ CtlOwned'
    BY <1>0, <2>1 DEF Exclusion, LockOwned, CtlOwned
  <2>5. \A d \in consumers : want[d] = want[c]
    BY <1>0, <2>1 DEF Refused, ChannelBusy, Exclusion, ChannelExclusive
  <2>6. OneMediaWorker' /\ SessionNeedsLease' /\ ChannelExclusive'
    BY <2>1, <2>2, <2>5 DEF OneMediaWorker, SessionNeedsLease, ChannelExclusive
  <2>7. SecondPanelExclusive'
    BY <1>0, <2>1 DEF Refused, SecondChannelBusy, Exclusion, CtlOwned, SecondPanelExclusive
  <2>8. TrialExclusive'
    BY <1>0, <2>1 DEF Exclusion, LockOwned, TrialExclusive
  <2> QED BY <2>3, <2>4, <2>6, <2>7, <2>8 DEF Exclusion
<1> QED BY <1>2, <1>3, <1>4 DEF AcquireStep

\* A halt tells the only worker to stop.
LEMMA HaltStops ==
  ASSUME TypeOK, Exclusion, HaltBegin
  PROVE  /\ \A w \in WorkerIds : Alive(w)' => /\ Alive(w) /\ workers'[w].stop
                                             /\ workers'[w].ch = workers[w].ch
         /\ thread' = thread
<1>1. workers \in [WorkerIds -> Worker] /\ \A w \in WorkerIds : Alive(w) => w = thread
  BY DEF TypeOK, Exclusion, OneMediaWorker
<1>2. CASE ThreadAlive
  BY <1>1, <1>2 DEF HaltBegin, Alive, Worker
<1>3. CASE ~ThreadAlive
  BY <1>1, <1>3 DEF HaltBegin, Alive, ThreadAlive, WorkerIds
<1> QED BY <1>2, <1>3

\* The last release drops the last lease and halts; the lock keeps everybody
\* else out until the worker is joined.
LEMMA ReleaseExclusion ==
  ASSUME IInv, NEW c \in Consumers, ReleaseStep(c)
  PROVE  Exclusion'
<1> USE DEF Goto
<1>0. /\ TypeOK /\ Exclusion
      /\ pc \in [Consumers -> {"idle", "lock", "ready", "woken", "held", "relock", "join"}]
      /\ consumers \subseteq Consumers
  BY DEF IInv, TypeOK
<1>1. CASE Release(c)
  BY <1>0, <1>1, TasksExclusion DEF Release, Exclusion, LeaseHolders
<1>2. CASE ReleaseShared(c)
  <2>1. /\ consumers' = consumers \ {c} /\ consumers # {c} /\ pc' = [pc EXCEPT ![c] = "idle"]
        /\ UNCHANGED <<want, lock, activeCh, workerVars, stopPc, rivalVars>>
    BY <1>2 DEF ReleaseShared
  <2>2. consumers # {} => consumers' # {}
    BY <2>1
  <2>3. LeaseHolders' /\ CtlOwned' /\ LockOwned'
    BY <1>0, <2>1 DEF Exclusion, LeaseHolders, CtlOwned, LockOwned
  <2>4. OneMediaWorker' /\ SessionNeedsLease' /\ ChannelExclusive'
    BY <1>0, <2>1, <2>2 DEF Exclusion, OneMediaWorker, SessionNeedsLease, ChannelExclusive, Alive
  <2>5. SecondPanelExclusive' /\ TrialExclusive'
    BY <1>0, <2>1 DEF Exclusion, SecondPanelExclusive, TrialExclusive, Alive
  <2> QED BY <2>3, <2>4, <2>5 DEF Exclusion
<1>3. CASE ReleaseLast(c)
  <2>1. /\ consumers' = {} /\ lock' /\ ~lock /\ pc' = [pc EXCEPT ![c] = "join"]
        /\ HaltBegin /\ UNCHANGED <<want, activeCh, stopPc, rivalVars>>
    BY <1>3 DEF ReleaseLast
  <2>2. LeaseHolders' /\ CtlOwned' /\ LockOwned' /\ SecondPanelExclusive'
    BY <1>0, <2>1 DEF Exclusion, LeaseHolders, CtlOwned, LockOwned, SecondPanelExclusive
  <2>3. OneMediaWorker' /\ SessionNeedsLease' /\ ChannelExclusive'
    BY <1>0, <2>1, HaltStops
       DEF Exclusion, OneMediaWorker, SessionNeedsLease, ChannelExclusive
  <2>4. TrialExclusive'
    BY <1>0, <2>1 DEF Exclusion, LockOwned, TrialExclusive
  <2> QED BY <2>2, <2>3, <2>4 DEF Exclusion
<1>4. CASE ReleaseJoined(c)
  <2>1. /\ pc[c] = "join" /\ ~ThreadAlive /\ activeCh' = 1 /\ lock' = FALSE
        /\ pc' = [pc EXCEPT ![c] = "idle"]
        /\ UNCHANGED <<want, consumers, workers, stopPc, rivalVars>>
    BY <1>4 DEF ReleaseJoined
  <2>2. consumers = {} /\ \A d \in Consumers : pc[d] = "join" => d = c
    BY <1>0, <2>1 DEF Exclusion, LockOwned
  <2>3. \A w \in WorkerIds : ~Alive(w)'
    BY <1>0, <2>1, NoWorker DEF Exclusion, Alive
  <2>4. LeaseHolders' /\ CtlOwned' /\ LockOwned' /\ SecondPanelExclusive'
    BY <1>0, <2>1, <2>2 DEF Exclusion, LeaseHolders, CtlOwned, LockOwned, SecondPanelExclusive
  <2>5. OneMediaWorker' /\ SessionNeedsLease' /\ ChannelExclusive' /\ TrialExclusive'
    BY <2>1, <2>2, <2>3 DEF OneMediaWorker, SessionNeedsLease, ChannelExclusive, TrialExclusive
  <2> QED BY <2>4, <2>5 DEF Exclusion
<1>5. CASE ReleaseJoinFailed(c)
  <2>1. /\ pc[c] = "join" /\ lock' = FALSE /\ pc' = [pc EXCEPT ![c] = "idle"]
        /\ UNCHANGED <<want, consumers, activeCh, workerVars, stopPc, rivalVars>>
    BY <1>5 DEF ReleaseJoinFailed
  <2>2. /\ consumers = {} /\ stopPc # "join" /\ trialPc # "run"
        /\ \A d \in Consumers : pc[d] = "join" => d = c
    BY <1>0, <2>1 DEF Exclusion, LockOwned
  <2>3. LeaseHolders' /\ CtlOwned' /\ LockOwned' /\ SecondPanelExclusive'
    BY <1>0, <2>1, <2>2 DEF Exclusion, LeaseHolders, CtlOwned, LockOwned, SecondPanelExclusive
  <2>4. OneMediaWorker' /\ SessionNeedsLease' /\ ChannelExclusive' /\ TrialExclusive'
    BY <1>0, <2>1, <2>2 DEF Exclusion, OneMediaWorker, SessionNeedsLease, ChannelExclusive, TrialExclusive, Alive
  <2> QED BY <2>3, <2>4 DEF Exclusion
<1> QED BY <1>1, <1>2, <1>3, <1>4, <1>5 DEF ReleaseStep

\* The callbacks of the loop touch neither leases nor workers.
LEMMA DispatchExclusion ==
  ASSUME IInv, Dispatch
  PROVE  Exclusion'
<1>0. /\ Exclusion /\ consumers \subseteq Consumers
      /\ pc \in [Consumers -> {"idle", "lock", "ready", "woken", "held", "relock", "join"}]
  BY DEF IInv, TypeOK
<1>1. CASE DispatchStale \/ DispatchIdent
  BY <1>0, <1>1, TasksExclusion DEF DispatchStale, DispatchIdent, Exclusion, LeaseHolders
<1>2. CASE DispatchState
  BY <1>0, <1>2, TasksExclusion DEF DispatchState, WakeWaiters, Exclusion, LeaseHolders
<1>3. CASE AcquireReturn
  BY <1>0, <1>3, TasksExclusion DEF AcquireReturn, Outcome, Exclusion, LeaseHolders
<1> QED BY <1>1, <1>2, <1>3 DEF Dispatch

\* The unload takes the lock nobody holds, drops every lease and halts.
LEMMA StopExclusion ==
  ASSUME IInv, StopStep
  PROVE  Exclusion'
<1>0. /\ TypeOK /\ Exclusion
      /\ pc \in [Consumers -> {"idle", "lock", "ready", "woken", "held", "relock", "join"}]
      /\ consumers \subseteq Consumers
  BY DEF IInv, TypeOK
<1>1. CASE StopBegin
  <2>1. /\ stopPc = "running" /\ stopPc' = "draining" /\ WakeWaiters(queue)
        /\ UNCHANGED <<want, leaseVars, workerVars, rivalVars>>
    BY <1>1 DEF StopBegin
  <2>2. /\ \A d \in Consumers : pc'[d] # pc[d] => pc[d] = "ready" /\ pc'[d] = "woken"
    BY <1>0, <2>1 DEF WakeWaiters
  <2>3. LeaseHolders' /\ CtlOwned' /\ LockOwned' /\ SecondPanelExclusive'
    BY <1>0, <2>1, <2>2 DEF Exclusion, LeaseHolders, CtlOwned, LockOwned, SecondPanelExclusive
  <2>4. OneMediaWorker' /\ SessionNeedsLease' /\ ChannelExclusive' /\ TrialExclusive'
    BY <1>0, <2>1 DEF Exclusion, OneMediaWorker, SessionNeedsLease, ChannelExclusive, TrialExclusive, Alive
  <2> QED BY <2>3, <2>4 DEF Exclusion
<1>2. CASE StopHalt
  <2>1. /\ consumers' = {} /\ lock' /\ ~lock /\ stopPc' = "join" /\ trialPc # "run"
        /\ HaltBegin /\ UNCHANGED <<pc, want, activeCh, rivalVars>>
    BY <1>2 DEF StopHalt, TrialActive
  <2>2. LeaseHolders' /\ CtlOwned' /\ LockOwned' /\ SecondPanelExclusive'
    BY <1>0, <2>1 DEF Exclusion, LeaseHolders, CtlOwned, LockOwned, SecondPanelExclusive
  <2>3. OneMediaWorker' /\ SessionNeedsLease' /\ ChannelExclusive' /\ TrialExclusive'
    BY <1>0, <2>1, HaltStops
       DEF Exclusion, OneMediaWorker, SessionNeedsLease, ChannelExclusive, TrialExclusive
  <2> QED BY <2>2, <2>3 DEF Exclusion
<1>3. CASE StopJoined
  <2>1. /\ stopPc = "join" /\ stopPc' = "stopped" /\ ~ThreadAlive /\ lock' = FALSE
        /\ UNCHANGED <<pc, want, consumers, activeCh, workers, rivalVars>>
    BY <1>3 DEF StopJoined
  <2>2. \A w \in WorkerIds : ~Alive(w)'
    BY <1>0, <2>1, NoWorker DEF Exclusion, Alive
  <2>3. LeaseHolders' /\ CtlOwned' /\ LockOwned' /\ SecondPanelExclusive'
    BY <1>0, <2>1 DEF Exclusion, LeaseHolders, CtlOwned, LockOwned, SecondPanelExclusive
  <2>4. OneMediaWorker' /\ SessionNeedsLease' /\ ChannelExclusive' /\ TrialExclusive'
    BY <1>0, <2>1, <2>2 DEF Exclusion, OneMediaWorker, SessionNeedsLease, ChannelExclusive, TrialExclusive
  <2> QED BY <2>3, <2>4 DEF Exclusion
<1>4. CASE StopJoinFailed
  <2>1. /\ stopPc = "join" /\ stopPc' = "stopped" /\ lock' = FALSE
        /\ UNCHANGED <<pc, want, consumers, activeCh, workerVars, rivalVars>>
    BY <1>4 DEF StopJoinFailed
  <2>2. LeaseHolders' /\ CtlOwned' /\ LockOwned' /\ SecondPanelExclusive'
    BY <1>0, <2>1 DEF Exclusion, LeaseHolders, CtlOwned, LockOwned, SecondPanelExclusive
  <2>3. OneMediaWorker' /\ SessionNeedsLease' /\ ChannelExclusive' /\ TrialExclusive'
    BY <1>0, <2>1 DEF Exclusion, LockOwned, OneMediaWorker, SessionNeedsLease, ChannelExclusive, TrialExclusive, Alive
  <2> QED BY <2>2, <2>3 DEF Exclusion
<1> QED BY <1>1, <1>2, <1>3, <1>4 DEF StopStep

\* A command is sent, and a microphone opened, only while the first panel is the
\* active one; the trial takes both locks and an idle device.
LEMMA RivalExclusion ==
  ASSUME IInv, RivalStep
  PROVE  Exclusion'
<1> USE DEF RivalUnchanged, Goto
<1>0. /\ TypeOK /\ Exclusion
      /\ pc \in [Consumers -> {"idle", "lock", "ready", "woken", "held", "relock", "join"}]
      /\ want \in [Consumers -> Channels] /\ consumers \subseteq Consumers
  BY DEF IInv, TypeOK
<1>1. ASSUME UNCHANGED <<want, consumers, activeCh, workers, thread, stopPc>>
      PROVE  OneMediaWorker' /\ SessionNeedsLease' /\ ChannelExclusive'
  BY <1>0, <1>1 DEF Exclusion, OneMediaWorker, SessionNeedsLease, ChannelExclusive, Alive
<1>2. CASE UnlockLock \/ UnlockCheck \/ UnlockDone
  <2>1. /\ UNCHANGED <<pc, lock, auxLease, mainTalk, trialPc, want, consumers, activeCh,
                       workers, thread, stopPc>>
        /\ unlockPc' # "idle" => ctl' = "main"
        /\ unlockPc' = "sending" => activeCh = 1
        /\ ctl' # ctl => unlockPc # "idle" \/ ctl = "free"
    BY <1>0, <1>2 DEF UnlockLock, UnlockCheck, UnlockDone, Exclusion, CtlOwned
  <2>2. LeaseHolders' /\ LockOwned' /\ TrialExclusive'
    BY <1>0, <2>1 DEF Exclusion, LeaseHolders, LockOwned, TrialExclusive, Alive
  <2>3. CtlOwned' /\ SecondPanelExclusive'
    BY <1>0, <2>1 DEF Exclusion, CtlOwned, SecondPanelExclusive
  <2> QED BY <1>1, <2>1, <2>2, <2>3 DEF Exclusion
<1>3. ASSUME NEW c \in Consumers, TargetBegin(c) PROVE Exclusion'
  <2>1. /\ pc[c] = "idle" /\ ctl = "free" /\ ctl' = "aux" /\ auxLease' = {c}
        /\ want' = [want EXCEPT ![c] = 2] /\ pc' = [pc EXCEPT ![c] = "lock"]
        /\ UNCHANGED <<leaseVars, workerVars, stopPc, unlockPc, mainTalk, trialPc>>
    BY <1>3 DEF TargetBegin
  <2>2. c \notin consumers
    BY <1>0, <2>1 DEF Exclusion, LeaseHolders
  <2>3. LeaseHolders' /\ LockOwned' /\ TrialExclusive' /\ SecondPanelExclusive'
    BY <1>0, <2>1 DEF Exclusion, LeaseHolders, LockOwned, TrialExclusive, SecondPanelExclusive, Alive
  <2>4. CtlOwned' /\ OneMediaWorker' /\ SessionNeedsLease'
    BY <1>0, <2>1 DEF Exclusion, CtlOwned, OneMediaWorker, SessionNeedsLease, Alive
  <2>5. ChannelExclusive'
    BY <1>0, <2>1, <2>2 DEF Exclusion, ChannelExclusive, Alive
  <2> QED BY <2>3, <2>4, <2>5 DEF Exclusion
<1>4. ASSUME NEW c \in Consumers, TargetEnd(c) PROVE Exclusion'
  <2>1. /\ ctl' = "free" /\ auxLease' = {} /\ auxLease # {}
        /\ UNCHANGED <<pc, lock, unlockPc, mainTalk, trialPc, want, consumers, activeCh,
                       workers, thread, stopPc>>
    BY <1>4 DEF TargetEnd
  <2>2. LeaseHolders' /\ LockOwned' /\ TrialExclusive' /\ CtlOwned' /\ SecondPanelExclusive'
    BY <1>0, <2>1 DEF Exclusion, LeaseHolders, LockOwned, TrialExclusive, CtlOwned,
                      SecondPanelExclusive, Alive
  <2> QED BY <1>1, <2>1, <2>2 DEF Exclusion
<1>5. CASE TalkBegin \/ TalkEnd
  <2>1. /\ mainTalk' => activeCh = 1
        /\ UNCHANGED <<pc, lock, ctl, unlockPc, auxLease, trialPc, want, consumers, activeCh,
                       workers, thread, stopPc>>
    BY <1>5 DEF TalkBegin, TalkEnd
  <2>2. LeaseHolders' /\ LockOwned' /\ TrialExclusive' /\ CtlOwned' /\ SecondPanelExclusive'
    BY <1>0, <2>1 DEF Exclusion, LeaseHolders, LockOwned, TrialExclusive, CtlOwned,
                      SecondPanelExclusive, Alive
  <2> QED BY <1>1, <2>1, <2>2 DEF Exclusion
<1>6. CASE TrialClaim \/ TrialEnter \/ TrialEnd
  <2>1. UNCHANGED <<pc, unlockPc, auxLease, mainTalk, want, consumers, activeCh, workers,
                    thread, stopPc>>
    BY <1>6 DEF TrialClaim, TrialEnter, TrialEnd
  <2>2. /\ LeaseHolders' /\ SecondPanelExclusive'
    BY <1>0, <2>1 DEF Exclusion, LeaseHolders, SecondPanelExclusive
  <2>3. CtlOwned'
    BY <1>0, <1>6 DEF TrialClaim, TrialEnter, TrialEnd, Exclusion, CtlOwned
  <2>4. LockOwned'
    BY <1>0, <1>6 DEF TrialClaim, TrialEnter, TrialEnd, TrialBusy, Exclusion, LockOwned
  <2>5. TrialExclusive'
    <3>1. ASSUME trialPc' = "run", trialPc # "run"
          PROVE  consumers = {} /\ \A w \in WorkerIds : ~Alive(w)
      <4>1. ~TrialBusy
        BY <1>6, <3>1 DEF TrialClaim, TrialEnter, TrialEnd
      <4> QED BY <1>0, <4>1, NoWorker DEF TrialBusy, Exclusion
    <3> QED BY <1>0, <2>1, <3>1 DEF Exclusion, TrialExclusive, Alive
  <2> QED BY <1>1, <2>1, <2>2, <2>3, <2>4, <2>5 DEF Exclusion
<1> QED BY <1>2, <1>3, <1>4, <1>5, <1>6 DEF RivalStep

\* The inductive invariant: types, and everything about exclusion at once; none of
\* its parts is inductive alone.
LEMMA IInvStep == IInv /\ [Next]_vars => IInv'
<1> SUFFICES ASSUME IInv, [Next]_vars PROVE IInv'
  OBVIOUS
<1>1. TypeOK' /\ ProfilesLeft'
  BY WorkerType, HubType DEF IInv, Next
<1>2. ASSUME UNCHANGED vars PROVE Exclusion'
  <2>1. Exclusion /\ LeaseHolders /\ consumers \subseteq Consumers
    BY DEF IInv, Exclusion, TypeOK
  <2> QED BY <1>2, <2>1, TasksExclusion DEF vars, LeaseHolders
<1>3. ASSUME Next PROVE Exclusion'
  BY <1>3, WorkerExclusion, AcquireExclusion, ReleaseExclusion, DispatchExclusion,
     StopExclusion, RivalExclusion DEF Next
<1> QED BY <1>1, <1>2, <1>3 DEF IInv

THEOREM IInvInvariant == Spec => []IInv
<1>1. Init => IInv
  BY InitType, InitExclusion DEF IInv
<1> QED BY <1>1, IInvStep, PTL DEF Spec

\* Whatever joins time out and whoever restarts, at most one media worker lives,
\* the one hub.thread names (hub.py _halt_media, acquire).
THEOREM OneMediaWorkerTheorem == Spec => []OneMediaWorker
<1>1. IInv => OneMediaWorker
  BY DEF IInv, Exclusion
<1> QED BY <1>1, IInvInvariant, PTL

\* A worker that was not told to stop has a lease to work for (hub.py:1).
THEOREM SessionNeedsLeaseTheorem == Spec => []SessionNeedsLease
<1>1. IInv => SessionNeedsLease
  BY DEF IInv, Exclusion
<1> QED BY <1>1, IInvInvariant, PTL

\* No viewer is given the other panel's video (acquire, hub.py:486-490).
THEOREM ChannelExclusiveTheorem == Spec => []ChannelExclusive
<1>1. IInv => ChannelExclusive
  BY DEF IInv, Exclusion
<1> QED BY <1>1, IInvInvariant, PTL

\* A lease of the second panel, a command to the main panel and a microphone
\* towards it never overlap (acquire, hub.py:491-508; control.py:258).
THEOREM SecondPanelExclusiveTheorem == Spec => []SecondPanelExclusive
<1>1. IInv => SecondPanelExclusive
  BY DEF IInv, Exclusion
<1> QED BY <1>1, IInvInvariant, PTL

\* The doorbell trial never overlaps a lease or a live worker
\* (v1_doorbell_trial.py start).
THEOREM TrialExclusiveTheorem == Spec => []TrialExclusive
<1>1. IInv => TrialExclusive
  BY DEF IInv, Exclusion
<1> QED BY <1>1, IInvInvariant, PTL

-----------------------------------------------------------------------------
(* What the callbacks say about the worker *)

\* r is q without its first k entries (0 or 1), with wake-ups after it.
Shifted(q, r, k) ==
  /\ Len(q) >= k /\ Len(r) >= Len(q) - k
  /\ \A i \in 1..Len(r) :
       IF i + k <= Len(q) THEN r[i] = q[i + k] ELSE r[i] = WakeEvent

LEMMA WakesShift ==
  ASSUME TypeOK, NEW q \in Seq(Event), WakeWaiters(q)
  PROVE  Shifted(q, queue', 0) /\ queue' \in Seq(Event)
<1>1. WakeEvent \in Event
  BY DEF WakeEvent, Event, Errors
<1>2. CASE queue' = q
  BY <1>2 DEF Shifted
<1>3. CASE queue' = Append(q, WakeEvent)
  <2>1. /\ Append(q, WakeEvent) \in Seq(Event) /\ Len(Append(q, WakeEvent)) = Len(q) + 1
        /\ \A i \in 1..Len(q) + 1 :
             Append(q, WakeEvent)[i] = IF i <= Len(q) THEN q[i] ELSE WakeEvent
    BY <1>1
  <2> QED BY <1>3, <2>1 DEF Shifted
<1> QED BY <1>2, <1>3 DEF WakeWaiters

LEMMA TailShift ==
  ASSUME TypeOK, queue # <<>>, NEW r \in Seq(Event), Shifted(Tail(queue), r, 0)
  PROVE  Shifted(queue, r, 1)
<1>1. /\ queue \in Seq(Event) /\ Len(queue) \in Nat \ {0} /\ Len(r) \in Nat
      /\ Len(Tail(queue)) = Len(queue) - 1
      /\ \A i \in 1..Len(queue) - 1 : Tail(queue)[i] = queue[i + 1]
  BY DEF TypeOK
<1> QED BY <1>1 DEF Shifted

\* The loop runs or skips a callback, tasks are woken, an unload begins: what
\* is left in the queue is still true of the worker.
LEMMA ShiftSignals ==
  ASSUME TypeOK, TypeOK', Signals, NEW k \in {0, 1}, Shifted(queue, queue', k),
         UNCHANGED <<workers, thread, generation>>, stopped => stopped',
         ready' /\ connected' /\ ~stopped' =>
           \/ ready /\ connected
              /\ (k = 1 => ~(queue[1].kind = "down" /\ queue[1].gen = generation))
           \/ k = 1 /\ queue[1].kind = "up" /\ queue[1].gen = generation
  PROVE  Signals'
<1>0. /\ queue \in Seq(Event) /\ queue' \in Seq(Event) /\ generation \in Nat
      /\ Len(queue) \in Nat /\ Len(queue') \in Nat
      /\ DOMAIN queue = 1..Len(queue) /\ DOMAIN queue' = 1..Len(queue')
  BY DEF TypeOK
<1>1. Tagged' /\ (Showing' <=> Showing) /\ (ThreadAlive' <=> ThreadAlive)
  BY DEF Signals, Tagged, Showing, ThreadAlive, Alive
<1>2. \A i \in DOMAIN queue' :
        IF i + k <= Len(queue) THEN i + k \in DOMAIN queue /\ queue'[i] = queue[i + k]
        ELSE queue'[i] = WakeEvent
  BY <1>0 DEF Shifted
<1>3. \A j \in DOMAIN queue : j > k => j - k \in DOMAIN queue' /\ queue'[j - k] = queue[j]
  BY <1>0 DEF Shifted
<1>4. WakeEvent.gen = 0 /\ WakeEvent.kind = "wake"
  BY DEF WakeEvent
<1>5. Callbacks'
  <2> SUFFICES ASSUME NEW i \in DOMAIN queue'
               PROVE
      /\ queue'[i].gen <= generation
      /\ queue'[i].gen = generation /\ queue'[i].kind # "wake" /\ ThreadAlive
           => ~workers[thread].stop
      /\ queue'[i].gen = generation /\ queue'[i].kind = "up" =>
           \/ Showing
           \/ \E j \in DOMAIN queue' :
                j > i /\ queue'[j].kind = "down" /\ queue'[j].gen = generation
    BY <1>1 DEF Callbacks
  <2>1. CASE i + k > Len(queue)
    <3>1. queue'[i] = WakeEvent
      BY <1>0, <1>2, <2>1
    <3> QED BY <1>0, <1>4, <3>1
  <2>2. CASE i + k <= Len(queue)
    <3>1. i + k \in DOMAIN queue /\ queue'[i] = queue[i + k]
      BY <1>2, <2>2
    <3>2. ASSUME NEW j \in DOMAIN queue, j > i + k, queue[j].kind = "down", queue[j].gen = generation
          PROVE  \E l \in DOMAIN queue' :
                   l > i /\ queue'[l].kind = "down" /\ queue'[l].gen = generation
      <4>1. j - k \in DOMAIN queue' /\ queue'[j - k] = queue[j] /\ j - k > i
        BY <1>0, <1>3, <3>2
      <4> QED BY <3>2, <4>1
    <3> QED BY <3>1, <3>2 DEF Signals, Callbacks
  <2> QED BY <1>0, <2>1, <2>2
<1>6. ReadyIsLive'
  <2> SUFFICES ASSUME ready', connected', ~stopped'
               PROVE  /\ ThreadAlive => ~workers[thread].stop
                      /\ Announced("down")' \/ Showing
    BY <1>1 DEF ReadyIsLive
  <2>0. \A j \in DOMAIN queue : j > k /\ queue[j].kind = "down" /\ queue[j].gen = generation
          => Announced("down")'
    BY <1>3 DEF Announced
  <2>1. CASE ready /\ connected
             /\ (k = 1 => ~(queue[1].kind = "down" /\ queue[1].gen = generation))
    <3>1. (ThreadAlive => ~workers[thread].stop) /\ (Announced("down") \/ Showing)
      BY <2>1 DEF Signals, ReadyIsLive
    <3>2. ASSUME Announced("down") PROVE Announced("down")'
      <4>1. PICK j \in DOMAIN queue : queue[j].kind = "down" /\ queue[j].gen = generation
        BY <3>2 DEF Announced
      <4>2. j > k
        BY <1>0, <2>1, <4>1
      <4> QED BY <2>0, <4>1, <4>2
    <3> QED BY <3>1, <3>2
  <2>2. CASE k = 1 /\ queue[1].kind = "up" /\ queue[1].gen = generation
    <3>1. 1 \in DOMAIN queue
      BY <1>0, <2>2 DEF Shifted
    <3> QED BY <1>0, <2>0, <2>2, <3>1 DEF Signals, Callbacks
  <2> QED BY <2>1, <2>2
<1> QED BY <1>1, <1>5, <1>6 DEF Signals

\* After a halt, and after a start, nothing in the queue is of the generation.
LEMMA FreshSignals ==
  ASSUME TypeOK, TypeOK', Signals, queue' = queue, generation' = generation + 1,
         ~(ready' /\ connected'), Tagged'
  PROVE  Signals'
<1>1. \A i \in DOMAIN queue : queue[i].gen <= generation /\ queue[i].gen \in Nat
  BY DEF Signals, Callbacks, TypeOK, Event
<1>2. generation \in Nat
  BY DEF TypeOK
<1>3. Callbacks'
  BY <1>1, <1>2 DEF Callbacks
<1> QED BY <1>3 DEF Signals, ReadyIsLive

LEMMA HaltSignals ==
  ASSUME IInv, TypeOK', Signals, HaltBegin, queue' = queue
  PROVE  Signals'
<1>0. TypeOK /\ Exclusion /\ generation \in Nat /\ workers \in [WorkerIds -> Worker]
  BY DEF IInv, TypeOK
<1>1. \A w \in WorkerIds : Alive(w)' => /\ Alive(w) /\ workers'[w].stop
                                        /\ workers'[w].ch = workers[w].ch
  BY <1>0, HaltStops
<1>2. \A w \in WorkerIds : /\ workers'[w].gen = workers[w].gen
                           /\ workers'[w].pc = workers[w].pc
                           /\ workers'[w].found = workers[w].found
                           /\ workers[w].gen \in Nat
  BY <1>0 DEF HaltBegin, Worker
<1>3. Tagged'
  <2> SUFFICES ASSUME NEW w \in WorkerIds
               PROVE  /\ Alive(w)' => /\ workers'[w].gen <= generation'
                                      /\ workers'[w].stop <=> workers'[w].gen < generation'
                      /\ workers'[w].pc = "live" => workers'[w].found
    BY DEF Tagged
  <2>1. generation' = generation + 1
    BY DEF HaltBegin
  <2>2. ASSUME Alive(w)'
        PROVE  workers'[w].gen <= generation' /\ (workers'[w].stop <=> workers'[w].gen < generation')
    <3>1. workers[w].gen <= generation /\ workers'[w].stop
      BY <1>1, <2>2 DEF Signals, Tagged
    <3>2. workers'[w].gen < generation'
      BY <1>0, <1>2, <2>1, <3>1
    <3> QED BY <1>0, <1>2, <2>1, <3>1, <3>2
  <2> QED BY <1>2, <2>2 DEF Signals, Tagged
<1> QED BY <1>0, <1>3, FreshSignals DEF HaltBegin

\* What a worker step posts: nothing or one callback; "up" as it begins to show
\* video, "down" as it ceases to, unless it was told to stop.
LEMMA WorkerPosts ==
  ASSUME TypeOK, Tagged, NEW w \in WorkerIds, WorkerStep(w)
  PROVE  /\ workers'[w] = Dead
              \/ /\ workers'[w].gen = workers[w].gen
                 /\ workers'[w].pc = "live" => workers'[w].found
         /\ \/ queue' = queue /\ workers'[w].pc # "live"
               /\ (workers[w].pc = "live" => workers[w].stop)
            \/ \E kind \in {"up", "down", "ident"} :
               \E arg \in Errors \cup Models :
                 /\ queue' = Append(queue, [gen |-> workers[w].gen, kind |-> kind, arg |-> arg])
                 /\ kind = "up" <=> workers'[w].pc = "live"
                 /\ workers[w].pc = "live" => kind = "down"
<1> USE DEF Become, Emit, Errors, Models
<1>0. /\ workers \in [WorkerIds -> Worker] /\ workers[w] \in Worker
      /\ variant \in {"v1", "r001", "unknown"} /\ error \in Errors
      /\ workers[w].pc = "live" => workers[w].found
  BY DEF TypeOK, Tagged
<1>d. Dead.pc = "dead"
  BY DEF Dead
<1>1. CASE WorkerLoop(w)
  BY <1>0, <1>d, <1>1 DEF WorkerLoop, Worker
<1>2. CASE WorkerNext(w)
  BY <1>0, <1>d, <1>2 DEF WorkerNext, Worker
<1>3. CASE WorkerLogin(w)
  BY <1>0, <1>3 DEF WorkerLogin, Worker
<1>4. CASE WorkerRefused(w)
  BY <1>0, <1>4 DEF WorkerRefused, Worker
<1>5. ASSUME NEW m \in Models \cup {"other"}, WorkerFormat(w, m)
      PROVE  /\ workers'[w].gen = workers[w].gen /\ workers'[w].pc = "format"
             /\ workers[w].pc = "login"
             /\ \/ queue' = queue
                \/ /\ m \in Models
                   /\ queue' = Append(queue, [gen |-> workers[w].gen, kind |-> "ident", arg |-> m])
  BY <1>0, <1>5 DEF WorkerFormat, Worker
<1>6. CASE WorkerVideo(w)
  BY <1>0, <1>6 DEF WorkerVideo, Worker
<1>7. CASE WorkerError(w)
  BY <1>0, <1>7 DEF WorkerError, Worker
<1>8. CASE WorkerStopSeen(w)
  BY <1>0, <1>8 DEF WorkerStopSeen, Worker
<1>9. CASE WorkerFinish(w)
  BY <1>0, <1>d, <1>9 DEF WorkerFinish, Worker
<1>10. CASE WorkerGiveUp(w)
  BY <1>0, <1>10 DEF WorkerGiveUp, Worker
<1>11. CASE WorkerExit(w)
  BY <1>0, <1>d, <1>11 DEF WorkerExit, Worker
<1>12. CASE WorkerDecide(w)
  BY <1>0, <1>12 DEF WorkerDecide, Worker
<1>13. CASE WorkerFailed(w)
  BY <1>0, <1>d, <1>13 DEF WorkerFailed, Worker
<1>14. CASE WorkerBackoff(w)
  BY <1>0, <1>d, <1>14 DEF WorkerBackoff, Worker
<1> QED
  BY <1>1, <1>2, <1>3, <1>4, <1>5, <1>6, <1>7, <1>8, <1>9, <1>10, <1>11, <1>12,
     <1>13, <1>14 DEF WorkerStep

LEMMA WorkerSignals ==
  ASSUME IInv, TypeOK', Signals, NEW w \in WorkerIds, WorkerStep(w)
  PROVE  Signals'
<1>0. /\ TypeOK /\ Tagged /\ Callbacks /\ ReadyIsLive
      /\ workers \in [WorkerIds -> Worker] /\ queue \in Seq(Event)
      /\ generation \in Nat /\ workers[w].gen \in Nat
      /\ Len(queue) \in Nat /\ DOMAIN queue = 1..Len(queue)
  BY DEF IInv, TypeOK, Signals, Worker
<1>1. /\ Alive(w) /\ workers' = [workers EXCEPT ![w] = workers'[w]]
      /\ workers'[w] = Dead \/ workers'[w].stop = workers[w].stop
      /\ UNCHANGED <<thread, generation, ready, connected, stopPc>>
  BY <1>0, WorkerRecord DEF WorkerUnchanged
<1>2. w = thread /\ thread # 0
  BY <1>1 DEF IInv, Exclusion, OneMediaWorker, WorkerIds
<1>3. ThreadAlive /\ workers[w].gen <= generation
      /\ (workers[w].stop <=> workers[w].gen < generation)
  BY <1>0, <1>1, <1>2 DEF ThreadAlive, Tagged
<1>4. /\ workers'[w] = Dead
           \/ /\ workers'[w].gen = workers[w].gen
              /\ workers'[w].pc = "live" => workers'[w].found
      /\ \/ queue' = queue /\ workers'[w].pc # "live"
            /\ (workers[w].pc = "live" => workers[w].stop)
         \/ \E kind \in {"up", "down", "ident"} :
            \E arg \in Errors \cup Models :
              /\ queue' = Append(queue, [gen |-> workers[w].gen, kind |-> kind, arg |-> arg])
              /\ kind = "up" <=> workers'[w].pc = "live"
              /\ workers[w].pc = "live" => kind = "down"
  BY <1>0, WorkerPosts
<1>5. Tagged'
  BY <1>0, <1>1, <1>4 DEF Tagged, Alive, Dead
<1>6. ThreadAlive' => workers'[thread].stop = workers[thread].stop
  BY <1>1, <1>2 DEF ThreadAlive, Alive, Dead
<1>7. Showing' <=> workers'[w].pc = "live" /\ workers'[w].gen = generation
  BY <1>1, <1>2 DEF Showing, ThreadAlive, Alive
<1>8. Showing <=> workers[w].pc = "live" /\ workers[w].gen = generation
  BY <1>2, <1>3 DEF Showing
<1>9. CASE queue' = queue /\ workers'[w].pc # "live"
           /\ (workers[w].pc = "live" => workers[w].stop)
  <2>1. ~Showing /\ ~Showing'
    BY <1>0, <1>3, <1>7, <1>8, <1>9
  <2>2. Callbacks'
    BY <1>0, <1>1, <1>3, <1>6, <1>9, <2>1 DEF Callbacks
  <2>3. ReadyIsLive'
    BY <1>0, <1>1, <1>3, <1>6, <1>9, <2>1 DEF ReadyIsLive, stopped, Announced
  <2> QED BY <1>5, <2>2, <2>3 DEF Signals
<1>10. ASSUME NEW kind \in {"up", "down", "ident"}, NEW arg \in Errors \cup Models,
              queue' = Append(queue, [gen |-> workers[w].gen, kind |-> kind, arg |-> arg]),
              kind = "up" <=> workers'[w].pc = "live",
              workers[w].pc = "live" => kind = "down"
       PROVE  Signals'
  <2> DEFINE e == [gen |-> workers[w].gen, kind |-> kind, arg |-> arg]
             n == Len(queue) + 1
  <2>1. /\ DOMAIN queue' = 1..n /\ n \in DOMAIN queue' /\ queue'[n] = e
        /\ \A i \in DOMAIN queue : i \in DOMAIN queue' /\ queue'[i] = queue[i] /\ n > i
        /\ \A i \in DOMAIN queue' : i \in DOMAIN queue \/ i = n
    <3> HIDE DEF e
    <3> QED BY <1>0, <1>10 DEF e
  <2>2. e.gen = workers[w].gen /\ e.kind = kind
    OBVIOUS
  <2> HIDE DEF e, n
  <2>3. Showing /\ ~Showing' => queue'[n].kind = "down" /\ queue'[n].gen = generation
    BY <1>8, <1>10, <2>1, <2>2
  <2>4. Callbacks'
    <3> SUFFICES ASSUME NEW i \in DOMAIN queue'
                 PROVE
        /\ queue'[i].gen <= generation
        /\ queue'[i].gen = generation /\ queue'[i].kind # "wake" /\ ThreadAlive'
             => ~workers'[thread].stop
        /\ queue'[i].gen = generation /\ queue'[i].kind = "up" =>
             \/ Showing'
             \/ \E j \in DOMAIN queue' :
                  j > i /\ queue'[j].kind = "down" /\ queue'[j].gen = generation
      BY <1>1 DEF Callbacks
    <3>1. CASE i = n
      <4>1. queue'[i].gen = workers[w].gen /\ queue'[i].kind = kind
        BY <2>1, <2>2, <3>1
      <4>2. queue'[i].gen = generation => ~workers[thread].stop
        BY <1>0, <1>2, <1>3, <4>1
      <4>3. queue'[i].gen = generation /\ queue'[i].kind = "up" => Showing'
        <5>1. ASSUME kind = "up" PROVE workers'[w].gen = workers[w].gen
          BY <1>4, <1>10, <5>1 DEF Dead
        <5> QED BY <1>7, <1>10, <4>1, <5>1
      <4> QED BY <1>3, <1>6, <4>1, <4>2, <4>3
    <3>2. CASE i \in DOMAIN queue
      <4>1. queue'[i] = queue[i]
        BY <2>1, <3>2
      <4>2. queue[i].gen = generation /\ queue[i].kind = "up" =>
              \/ Showing
              \/ \E j \in DOMAIN queue :
                   j > i /\ queue[j].kind = "down" /\ queue[j].gen = generation
        BY <1>0, <3>2 DEF Callbacks
      <4>3. queue[i].gen = generation /\ queue[i].kind = "up" =>
              \/ Showing'
              \/ \E j \in DOMAIN queue' :
                   j > i /\ queue'[j].kind = "down" /\ queue'[j].gen = generation
        BY <2>1, <2>3, <3>2, <4>2
      <4>4. /\ queue[i].gen <= generation
            /\ queue[i].gen = generation /\ queue[i].kind # "wake" => ~workers[thread].stop
        BY <1>0, <1>3, <3>2 DEF Callbacks
      <4> QED BY <1>6, <4>1, <4>3, <4>4
    <3> QED BY <2>1, <3>1, <3>2
  <2>5. ReadyIsLive'
    <3>1. Announced("down") => Announced("down")'
      BY <1>1, <2>1 DEF Announced
    <3>2. Showing /\ ~Showing' => Announced("down")'
      BY <1>1, <2>1, <2>3 DEF Announced
    <3> QED BY <1>0, <1>1, <1>3, <1>6, <3>1, <3>2 DEF ReadyIsLive, stopped
  <2> QED BY <1>5, <2>4, <2>5 DEF Signals
<1> QED BY <1>4, <1>9, <1>10

LEMMA AcquireSignals ==
  ASSUME IInv, TypeOK', Signals, NEW c \in Consumers, AcquireStep(c)
  PROVE  Signals'
<1>0. TypeOK /\ queue \in Seq(Event) /\ workers \in [WorkerIds -> Worker] /\ generation \in Nat
  BY DEF IInv, TypeOK
<1>1. CASE (\E ch \in Channels : Acquire(c, ch)) \/ AcquireRefused(c) \/ AcquireAbort(c)
           \/ AcquireShared(c)
  <2>1. UNCHANGED <<workers, thread, generation, ready, connected, queue, stopPc>>
    BY <1>1 DEF Acquire, AcquireRefused, AcquireAbort, AcquireShared
  <2>2. Shifted(queue, queue', 0)
    BY <1>0, <2>1 DEF Shifted
  <2> QED BY <1>0, <2>1, <2>2, ShiftSignals DEF stopped
<1>2. CASE AcquireStart(c)
  <2>1. /\ generation' = generation + 1 /\ queue' = queue /\ ~ready'
        /\ workers' = [workers EXCEPT ![started'] =
                         [Dead EXCEPT !.pc = "loop", !.gen = generation', !.ch = activeCh']]
    BY <1>2 DEF AcquireStart
  <2>2. \A w \in WorkerIds : ~Alive(w)
    BY <1>2, NoWorker DEF AcquireStart, IInv, Exclusion
  <2>3. \A w \in WorkerIds :
          \/ workers'[w] = workers[w] /\ workers'[w].pc = "dead"
          \/ workers'[w] = [Dead EXCEPT !.pc = "loop", !.gen = generation', !.ch = activeCh']
    BY <1>0, <2>1, <2>2 DEF Alive
  <2>4. Tagged'
    <3> DEFINE r == [Dead EXCEPT !.pc = "loop", !.gen = generation', !.ch = activeCh']
    <3>1. r.pc = "loop" /\ r.gen = generation' /\ r.stop = FALSE /\ generation' \in Nat
      BY <1>0, <2>1 DEF Dead
    <3> HIDE DEF r
    <3>2. ASSUME NEW w \in WorkerIds, workers'[w] = r
          PROVE  /\ workers'[w].gen <= generation'
                 /\ workers'[w].stop <=> workers'[w].gen < generation'
                 /\ workers'[w].pc # "live"
      BY <3>1, <3>2
    <3>3. \A w \in WorkerIds : workers'[w] = r \/ workers'[w].pc = "dead"
      BY <2>3 DEF r
    <3> QED BY <3>2, <3>3 DEF Tagged, Alive
  <2> QED BY <1>0, <2>1, <2>4, FreshSignals
<1> QED BY <1>1, <1>2 DEF AcquireStep

\* The join of a worker that is gone changes nothing the callbacks are about.
LEMMA JoinedSignals ==
  ASSUME Signals, ~ThreadAlive, thread' = 0, ~connected',
         UNCHANGED <<workers, generation, queue>>
  PROVE  Signals'
<1>1. Tagged' /\ ~ThreadAlive' /\ ~Showing' /\ ~Showing
  BY DEF Signals, Tagged, Alive, ThreadAlive, Showing
<1>2. Callbacks'
  BY <1>1 DEF Signals, Callbacks
<1> QED BY <1>1, <1>2 DEF Signals, ReadyIsLive

LEMMA ReleaseSignals ==
  ASSUME IInv, TypeOK', Signals, NEW c \in Consumers, ReleaseStep(c)
  PROVE  Signals'
<1>0. TypeOK /\ queue \in Seq(Event)
  BY DEF IInv, TypeOK
<1>1. CASE Release(c) \/ ReleaseShared(c) \/ ReleaseJoinFailed(c)
  <2>1. UNCHANGED <<workers, thread, generation, ready, connected, queue, stopPc>>
    BY <1>1 DEF Release, ReleaseShared, ReleaseJoinFailed
  <2>2. Shifted(queue, queue', 0)
    BY <1>0, <2>1 DEF Shifted
  <2> QED BY <1>0, <2>1, <2>2, ShiftSignals DEF stopped
<1>2. CASE ReleaseLast(c)
  BY <1>2, HaltSignals DEF ReleaseLast
<1>3. CASE ReleaseJoined(c)
  <2>1. /\ ~ThreadAlive /\ thread' = 0 /\ ~connected'
        /\ UNCHANGED <<workers, generation, queue>>
    BY <1>3 DEF ReleaseJoined
  <2> QED BY <2>1, JoinedSignals
<1> QED BY <1>1, <1>2, <1>3 DEF ReleaseStep

LEMMA StopSignals ==
  ASSUME IInv, TypeOK', Signals, StopStep
  PROVE  Signals'
<1>0. TypeOK /\ queue \in Seq(Event)
  BY DEF IInv, TypeOK
<1>1. CASE StopBegin
  <2>1. /\ UNCHANGED <<workers, thread, generation>> /\ stopped'
        /\ Shifted(queue, queue', 0)
    BY <1>0, <1>1, WakesShift DEF StopBegin, stopped
  <2> QED BY <1>0, <2>1, ShiftSignals
<1>2. CASE StopHalt
  BY <1>2, HaltSignals DEF StopHalt
<1>3. CASE StopJoined
  <2>1. /\ ~ThreadAlive /\ thread' = 0 /\ ~connected'
        /\ UNCHANGED <<workers, generation, queue>>
    BY <1>3 DEF StopJoined
  <2> QED BY <2>1, JoinedSignals
<1>4. CASE StopJoinFailed
  <2>1. UNCHANGED <<workers, thread, generation, ready, connected, queue>> /\ stopped /\ stopped'
    BY <1>4 DEF StopJoinFailed, stopped
  <2>2. Shifted(queue, queue', 0)
    BY <1>0, <2>1 DEF Shifted
  <2> QED BY <1>0, <2>1, <2>2, ShiftSignals
<1> QED BY <1>1, <1>2, <1>3, <1>4 DEF StopStep

LEMMA DispatchSignals ==
  ASSUME IInv, TypeOK', Signals, Dispatch
  PROVE  Signals'
<1>0. /\ TypeOK /\ queue \in Seq(Event) /\ queue # <<>> /\ Head(queue) = queue[1]
      /\ Tail(queue) \in Seq(Event)
  BY DEF IInv, TypeOK, Dispatch, DispatchStale, DispatchState, DispatchIdent, AcquireReturn
<1>1. UNCHANGED <<workers, thread, generation, stopPc>>
  BY DEF Dispatch, DispatchStale, DispatchState, DispatchIdent, AcquireReturn
<1>2. Shifted(queue, queue', 1)
  <2>1. CASE DispatchState
    <3>1. Shifted(Tail(queue), queue', 0) /\ queue' \in Seq(Event)
      BY <1>0, <2>1, WakesShift DEF DispatchState
    <3> QED BY <1>0, <3>1, TailShift
  <2>2. CASE DispatchStale \/ DispatchIdent \/ AcquireReturn
    <3>1. queue' = Tail(queue) /\ Shifted(Tail(queue), Tail(queue), 0)
      BY <1>0, <2>2 DEF DispatchStale, DispatchIdent, AcquireReturn, Shifted
    <3> QED BY <1>0, <3>1, TailShift
  <2> QED BY <2>1, <2>2 DEF Dispatch
<1>3. ready' /\ connected' /\ ~stopped' =>
        \/ ready /\ connected /\ ~(queue[1].kind = "down" /\ queue[1].gen = generation)
        \/ queue[1].kind = "up" /\ queue[1].gen = generation
  BY <1>0, <1>1 DEF Dispatch, DispatchStale, DispatchState, DispatchIdent, AcquireReturn,
                    Current, stopped
<1> QED BY <1>0, <1>1, <1>2, <1>3, ShiftSignals DEF stopped

LEMMA RivalSignals ==
  ASSUME IInv, TypeOK', Signals, RivalStep \/ UNCHANGED vars
  PROVE  Signals'
<1>0. TypeOK /\ queue \in Seq(Event)
  BY DEF IInv, TypeOK
<1>1. UNCHANGED <<workers, thread, generation, ready, connected, queue, stopPc>>
  BY DEF RivalStep, RivalUnchanged, UnlockLock, UnlockCheck, UnlockDone, TargetBegin,
         TargetEnd, TalkBegin, TalkEnd, TrialClaim, TrialEnter, TrialEnd, vars
<1>2. Shifted(queue, queue', 0)
  BY <1>0, <1>1 DEF Shifted
<1> QED BY <1>0, <1>1, <1>2, ShiftSignals DEF stopped

THEOREM SignalsInvariant == Spec => []Signals
<1>1. Init => Signals
  BY DEF Init, Signals, Tagged, Callbacks, ReadyIsLive, Alive, Dead
<1>2. IInv /\ IInv' /\ Signals /\ [Next]_vars => Signals'
  <2> SUFFICES ASSUME IInv, IInv', Signals, [Next]_vars PROVE Signals'
    OBVIOUS
  <2>1. TypeOK'
    BY DEF IInv
  <2> QED BY <2>1, AcquireSignals, ReleaseSignals, WorkerSignals, DispatchSignals,
             StopSignals, RivalSignals DEF Next
<1> QED BY <1>1, <1>2, IInvInvariant, PTL DEF Spec

\* Whenever acquire would take "ready and connected" for video, there is video,
\* or the loop is about to learn that it was lost (hub.py:536-542, 946-953).
THEOREM ReadyIsLiveTheorem == Spec => []ReadyIsLive
<1>1. Signals => ReadyIsLive
  BY DEF Signals
<1> QED BY <1>1, SignalsInvariant, PTL

-----------------------------------------------------------------------------
(* The hub implements the lease service: every step of the hub is a step of *)
(* MediaLease under the mapping of Lease, or a stutter.                     *)

\* With one worker at most, the device is what that worker makes it.
LEMMA DeviceOfWorker ==
  ASSUME OneMediaWorker
  PROVE  /\ \A w \in WorkerIds : Alive(w) =>
              Device = IF workers[w].stop THEN "closing" ELSE "open"
         /\ (\A w \in WorkerIds : ~Alive(w)) => Device = "free"
<1>1. ASSUME NEW w \in WorkerIds, Alive(w)
      PROVE  Device = IF workers[w].stop THEN "closing" ELSE "open"
  <2>1. \A v \in WorkerIds : Alive(v) => v = w
    BY <1>1 DEF OneMediaWorker
  <2> QED BY <1>1, <2>1 DEF Device
<1>2. ASSUME \A w \in WorkerIds : ~Alive(w) PROVE Device = "free"
  BY <1>2 DEF Device
<1> QED BY <1>1, <1>2

LEMMA DeviceKept ==
  ASSUME workers' = workers PROVE Device' = Device
  BY DEF Device, Alive

\* A step that changes neither leases, nor workers, nor unloads, is a stutter.
LEMMA StutterRefines ==
  ASSUME UNCHANGED <<consumers, workers>>, Unloaded' = Unloaded
  PROVE  UNCHANGED Lease!vars
  BY DeviceKept DEF Lease!vars

\* A worker step leaves the device alone, or the worker dies and frees it.
LEMMA WorkerRefines ==
  ASSUME IInv, IInv', NEW w \in WorkerIds, WorkerStep(w)
  PROVE  Lease!Free \/ UNCHANGED Lease!vars
<1>0. TypeOK /\ OneMediaWorker /\ OneMediaWorker' /\ workers \in [WorkerIds -> Worker]
  BY DEF IInv, Exclusion, TypeOK
<1>1. /\ Alive(w) /\ workers' = [workers EXCEPT ![w] = workers'[w]]
      /\ workers'[w] = Dead \/ workers'[w].stop = workers[w].stop
      /\ UNCHANGED <<consumers, stopPc>>
  BY <1>0, WorkerRecord DEF WorkerUnchanged
<1>2. Unloaded' = Unloaded
  BY <1>1 DEF Unloaded
<1>3. Device = IF workers[w].stop THEN "closing" ELSE "open"
  BY <1>0, <1>1, DeviceOfWorker
<1>4. CASE Alive(w)'
  <2>1. workers'[w].stop = workers[w].stop
    BY <1>1, <1>4 DEF Alive, Dead
  <2>2. \A v \in WorkerIds : v # w => ~Alive(v)'
    BY <1>0, <1>4 DEF OneMediaWorker
  <2>3. Device' = IF workers'[w].stop THEN "closing" ELSE "open"
    BY <1>4, <2>2 DEF Device
  <2> QED BY <1>1, <1>2, <1>3, <2>1, <2>3 DEF Lease!vars
<1>5. CASE ~Alive(w)'
  <2>1. \A v \in WorkerIds : ~Alive(v)'
    BY <1>0, <1>1, <1>5 DEF OneMediaWorker, Alive
  <2>2. Device' = "free"
    BY <2>1 DEF Device
  <2> QED BY <1>1, <1>2, <1>3, <2>2 DEF Lease!Free
<1> QED BY <1>4, <1>5

\* A granted lease is Take.
LEMMA AcquireRefines ==
  ASSUME IInv, IInv', NEW c \in Consumers, AcquireStep(c)
  PROVE  Lease!Take(c) \/ UNCHANGED Lease!vars
<1>0. TypeOK /\ OneMediaWorker /\ thread \in 0..MaxWorkers
  BY BoundsAssumption DEF IInv, Exclusion, TypeOK
<1>1. CASE (\E ch \in Channels : Acquire(c, ch)) \/ AcquireRefused(c) \/ AcquireAbort(c)
  <2>1. UNCHANGED <<consumers, workers>> /\ Unloaded' = Unloaded
    BY <1>1 DEF Acquire, AcquireRefused, AcquireAbort, Unloaded
  <2> QED BY <2>1, StutterRefines
<1>2. CASE AcquireShared(c)
  <2>1. /\ ThreadAlive /\ ~workers[thread].stop /\ ~Unloaded /\ Unloaded' = Unloaded
        /\ consumers' = consumers \cup {c} /\ workers' = workers
    BY <1>2 DEF AcquireShared, Refused, Unloaded, stopped
  <2>2. thread \in WorkerIds /\ Alive(thread)
    BY <1>0, <2>1 DEF ThreadAlive, WorkerIds
  <2>3. Device = "open" /\ Device' = "open"
    BY <1>0, <2>1, <2>2, DeviceOfWorker, DeviceKept
  <2> QED BY <2>1, <2>3 DEF Lease!Take
<1>3. CASE AcquireStart(c)
  <2>1. /\ ~ThreadAlive /\ ~Unloaded /\ Unloaded' = Unloaded
        /\ consumers' = consumers \cup {c}
    BY <1>3 DEF AcquireStart, Refused, Unloaded, stopped
  <2>2. Device = "free"
    BY <1>0, <2>1, NoWorker, DeviceOfWorker
  <2>3. started' \in WorkerIds /\ workers'[started'] =
          [Dead EXCEPT !.pc = "loop", !.gen = generation', !.ch = activeCh']
    <3>1. started + 1 \in WorkerIds
      BY <1>3, BoundsAssumption DEF AcquireStart, WorkerIds, IInv, TypeOK
    <3> QED BY <1>3, <3>1 DEF AcquireStart, IInv, TypeOK
  <2>4. workers'[started'].pc = "loop" /\ workers'[started'].stop = FALSE
    BY <2>3 DEF Dead
  <2>5. Device' = "open"
    BY <2>3, <2>4 DEF Device, Alive
  <2> QED BY <2>1, <2>2, <2>5 DEF Lease!Take
<1> QED BY <1>1, <1>2, <1>3 DEF AcquireStep

\* A halt turns an open device into a closing one, and no other.
LEMMA HaltRefines ==
  ASSUME TypeOK, Exclusion, HaltBegin
  PROVE  Device' = IF Device = "open" THEN "closing" ELSE Device
<1>0. /\ workers \in [WorkerIds -> Worker] /\ thread \in 0..MaxWorkers
      /\ \A w \in WorkerIds : Alive(w) => w = thread
  BY BoundsAssumption DEF TypeOK, Exclusion, OneMediaWorker
<1>1. CASE ThreadAlive
  <2>1. thread \in WorkerIds /\ Alive(thread)
    BY <1>0, <1>1 DEF ThreadAlive, WorkerIds
  <2>2. Alive(thread)' /\ workers'[thread].stop
    BY <1>0, <1>1, <2>1 DEF HaltBegin, Alive, Worker
  <2>3. \A w \in WorkerIds : Alive(w)' => workers'[w].stop
    BY HaltStops
  <2>4. Device' = "closing"
    BY <2>1, <2>2, <2>3 DEF Device, HaltBegin
  <2>5. Device \in {"open", "closing"}
    BY <2>1 DEF Device
  <2> QED BY <2>4, <2>5
<1>2. CASE ~ThreadAlive
  <2>1. workers' = workers /\ \A w \in WorkerIds : ~Alive(w)
    BY <1>2, NoWorker DEF HaltBegin, Exclusion
  <2>2. Device = "free"
    BY <2>1 DEF Device
  <2> QED BY <2>1, <2>2, DeviceKept
<1> QED BY <1>1, <1>2

\* A lease that is given back is Drop.
LEMMA ReleaseRefines ==
  ASSUME IInv, IInv', NEW c \in Consumers, ReleaseStep(c)
  PROVE  Lease!Drop(c) \/ UNCHANGED Lease!vars
<1>1. CASE Release(c) \/ ReleaseJoined(c) \/ ReleaseJoinFailed(c)
  <2>1. UNCHANGED <<consumers, workers>> /\ Unloaded' = Unloaded
    BY <1>1 DEF Release, ReleaseJoined, ReleaseJoinFailed, Unloaded
  <2> QED BY <2>1, StutterRefines
<1>2. CASE ReleaseShared(c)
  <2>1. /\ consumers' = consumers \ {c} /\ consumers # {c}
        /\ workers' = workers /\ Unloaded' = Unloaded
    BY <1>2 DEF ReleaseShared, Unloaded
  <2>2. CASE c \in consumers
    <3>1. consumers' # {}
      BY <2>1, <2>2
    <3> QED BY <2>1, <2>2, <3>1, DeviceKept DEF Lease!Drop
  <2>3. CASE c \notin consumers
    BY <2>1, <2>3, StutterRefines
  <2> QED BY <2>2, <2>3
<1>3. CASE ReleaseLast(c)
  <2>1. consumers = {c} /\ consumers' = {} /\ Unloaded' = Unloaded
    BY <1>3 DEF ReleaseLast, Unloaded
  <2>2. Device' = IF Device = "open" THEN "closing" ELSE Device
    BY <1>3, HaltRefines DEF ReleaseLast, IInv
  <2> QED BY <2>1, <2>2 DEF Lease!Drop
<1> QED BY <1>1, <1>2, <1>3 DEF ReleaseStep

\* The unload is Shutdown, at the moment it takes the leases away.
LEMMA StopRefines ==
  ASSUME IInv, IInv', StopStep
  PROVE  Lease!Shutdown \/ UNCHANGED Lease!vars
<1>1. CASE StopBegin \/ StopJoined \/ StopJoinFailed
  <2>1. UNCHANGED <<consumers, workers>> /\ Unloaded' = Unloaded
    BY <1>1 DEF StopBegin, StopJoined, StopJoinFailed, Unloaded
  <2> QED BY <2>1, StutterRefines
<1>2. CASE StopHalt
  <2>1. consumers' = {} /\ ~Unloaded /\ Unloaded'
    BY <1>2 DEF StopHalt, Unloaded
  <2>2. Device' = IF Device = "open" THEN "closing" ELSE Device
    BY <1>2, HaltRefines DEF StopHalt, IInv
  <2> QED BY <2>1, <2>2 DEF Lease!Shutdown, Lease!Revoke
<1> QED BY <1>1, <1>2 DEF StopStep

\* Callbacks, commands, microphone and trial leave the leases alone.
LEMMA OthersRefine ==
  ASSUME Dispatch \/ RivalStep
  PROVE  UNCHANGED Lease!vars
<1>1. UNCHANGED <<consumers, workers, stopPc>>
  <2>1. CASE Dispatch
    BY <2>1 DEF Dispatch, DispatchStale, DispatchState, DispatchIdent, AcquireReturn
  <2>2. CASE RivalStep
    BY <2>2 DEF RivalStep, RivalUnchanged, UnlockLock, UnlockCheck, UnlockDone, TargetBegin,
               TargetEnd, TalkBegin, TalkEnd, TrialClaim, TrialEnter, TrialEnd
  <2> QED BY <2>1, <2>2
<1> QED BY <1>1, StutterRefines DEF Unloaded

\* The hub with its lock, worker threads, generations and posted callbacks is a
\* lease service: its session opens for a lease, is shared, closes with the last
\* lease and is never handed out while it closes or after the unload (hub.py
\* acquire, release, _halt_media, _worker, stop).
THEOREM HubImplementsLease == Spec => ImplementsLease
<1>1. Init => Lease!Init
  <2> SUFFICES ASSUME Init PROVE Lease!Init
    OBVIOUS
  <2>1. consumers = {} /\ Unloaded = FALSE
    BY DEF Init, Unloaded
  <2>2. \A w \in WorkerIds : ~Alive(w)
    BY DEF Init, Alive, Dead
  <2>3. Device = "free"
    BY <2>2 DEF Device
  <2> QED BY <2>1, <2>3 DEF Lease!Init
<1>2. IInv /\ IInv' /\ [Next]_vars => [Lease!Next]_(Lease!vars)
  <2> SUFFICES ASSUME IInv, IInv', [Next]_vars PROVE Lease!Next \/ UNCHANGED Lease!vars
    OBVIOUS
  <2>1. CASE UNCHANGED vars
    BY <2>1, StutterRefines DEF vars, Unloaded
  <2>2. ASSUME NEW c \in Consumers, AcquireStep(c) \/ ReleaseStep(c)
        PROVE  Lease!Next \/ UNCHANGED Lease!vars
    BY <2>2, AcquireRefines, ReleaseRefines DEF Lease!Next
  <2>3. ASSUME NEW w \in WorkerIds, WorkerStep(w)
        PROVE  Lease!Next \/ UNCHANGED Lease!vars
    BY <2>3, WorkerRefines DEF Lease!Next
  <2>4. CASE Dispatch \/ RivalStep
    BY <2>4, OthersRefine
  <2>5. CASE StopStep
    BY <2>5, StopRefines DEF Lease!Next
  <2> QED BY <2>1, <2>2, <2>3, <2>4, <2>5 DEF Next
<1> QED BY <1>1, <1>2, IInvInvariant, PTL DEF Spec, ImplementsLease, Lease!Spec
=============================================================================
