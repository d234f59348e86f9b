--------------------------- MODULE Viewers_proofs ---------------------------
(***************************************************************************)
(* Proofs about the viewers of an intercom, for any number of sessions and *)
(* readers and every bound: who has a lease, what the card may press,      *)
(* which pictures are shown, and whom the device hears.                    *)
(***************************************************************************)
EXTENDS Viewers, TLAPS

USE DEF hubVars, offerVars, talkVars, jobVars, pipeVars

-----------------------------------------------------------------------------
(* Where everything is *)

\* What the microphone, the media worker and the commands of a page do changes
\* no lease, no offer and no viewer.
Placed == <<leases, joining, manager, sub, chan, offer, fate, viewers, closing>>

TalkNext ==
  \/ MediaUp \/ MediaLost \/ ZombieEnds
  \/ \E s \in Sessions : CommandsArrive(s) \/ AutoStop(s) \/ LinkUp(s) \/ LinkLost(s)
  \/ \E s \in Sessions, k \in Ids : TalkStep(s, k)
  \/ TalkReply \/ CallbackRuns \/ CoolDown

LEMMA TalkKeeps ==
  ASSUME TalkNext
  PROVE  UNCHANGED Placed /\ UNCHANGED told
<1> USE DEF Placed
<1>1. CASE MediaUp \/ MediaLost \/ ZombieEnds
  BY <1>1 DEF MediaUp, MediaLost, ZombieEnds
<1>2. ASSUME NEW s \in Sessions, CommandsArrive(s) \/ AutoStop(s) \/ LinkUp(s) \/ LinkLost(s)
      PROVE  UNCHANGED Placed /\ UNCHANGED told
  BY <1>2 DEF CommandsArrive, AutoStop, LinkUp, LinkLost
<1>3. ASSUME NEW s \in Sessions, NEW k \in Ids, TalkStep(s, k)
      PROVE  UNCHANGED Placed /\ UNCHANGED told
  BY <1>3 DEF TalkStep, TalkRefused, TalkStarts, TalkSent, TalkOn, TalkFails, StopBegins, StopEnds
<1>4. CASE TalkReply \/ CallbackRuns \/ CoolDown
  BY <1>4 DEF TalkReply, CallbackRuns, CoolDown
<1> QED BY <1>1, <1>2, <1>3, <1>4 DEF TalkNext

\* ... and what it does to the media worker and the connections.
LEMMA TalkMedia ==
  ASSUME TalkNext
  PROVE  /\ active' = active
         /\ media' \in {media, "live", "starting", "none"}
         /\ media' \in {"starting", "live"} => media \in {"starting", "live"}
         /\ link' = link \/ \E s \in Sessions : \E l \in {"up", "broken"} :
                              link' = [link EXCEPT ![s] = l]
<1>1. CASE MediaUp \/ MediaLost \/ ZombieEnds
  BY <1>1 DEF MediaUp, MediaLost, ZombieEnds
<1>2. ASSUME NEW s \in Sessions, CommandsArrive(s) \/ AutoStop(s) \/ LinkUp(s) \/ LinkLost(s)
      PROVE  /\ active' = active /\ media' = media
             /\ link' = link \/ \E l \in {"up", "broken"} : link' = [link EXCEPT ![s] = l]
  BY <1>2 DEF CommandsArrive, AutoStop, LinkUp, LinkLost
<1>3. ASSUME NEW s \in Sessions, NEW k \in Ids, TalkStep(s, k)
      PROVE  UNCHANGED <<active, media, link>>
  BY <1>3 DEF TalkStep, TalkRefused, TalkStarts, TalkSent, TalkOn, TalkFails, StopBegins, StopEnds
<1>4. CASE TalkReply \/ CallbackRuns \/ CoolDown
  BY <1>4 DEF TalkReply, CallbackRuns, CoolDown
<1> QED BY <1>1, <1>2, <1>3, <1>4 DEF TalkNext

\* The steps that move an offer, a viewer or a lease.
OfferNext(s) ==
  \/ Offered(s) \/ Register(s) \/ Describe(s) \/ Acquire(s) \/ Acquired(s) \/ Answer(s)
  \/ OfferFails(s) \/ OfferGivesBack(s) \/ Unwound(s) \/ OfferEnds(s)

CleanupNext(s) ==
  \/ CleanupCancels(s) \/ CleanupCloses(s) \/ CleanupEnds(s) \/ OfferAbandoned(s)
  \/ PeerGone(s) \/ CloseStep(s)

UnloadNext == Unload \/ UnloadCloses \/ UnloadEnds

LEMMA RtcCases ==
  ASSUME RtcNext
  PROVE  \/ TalkNext \/ Join \/ UnloadNext
         \/ \E s \in Sessions : OfferNext(s) \/ CleanupNext(s)
  BY DEF RtcNext, Hub, OfferStep, TalkNext, UnloadNext, OfferNext, CleanupNext

Subs == {"none", "sent", "lost", "on", "cancel", "gather", "close", "done", "failed"}
Tolds == {"nothing", "answer", "error"}

LEMMA UnwindType == \A at \in OfferPcs : Unwind(at) \in OfferPcs
  BY DEF Unwind, OfferPcs, Running

LEMMA CancelType ==
  ASSUME RtcPlacesOK, NEW S \in SUBSET Sessions, Cancel(S)
  PROVE  /\ offer' \in [Sessions -> OfferPcs]
         /\ fate' \in [Sessions -> {"go", "fail", "cancel"}]
<1>0. offer \in [Sessions -> OfferPcs] /\ fate \in [Sessions -> {"go", "fail", "cancel"}]
  BY DEF RtcPlacesOK
<1>1. offer' \in [Sessions -> OfferPcs]
  BY <1>0, UnwindType DEF Cancel
<1>2. fate' \in [Sessions -> {"go", "fail", "cancel"}]
  BY <1>0 DEF Cancel
<1> QED BY <1>1, <1>2

LEMMA PopType ==
  ASSUME RtcPlacesOK, NEW S \in SUBSET Sessions, Pop(S)
  PROVE  viewers' \subseteq Sessions /\ closing' \in [Sessions -> ClosePcs]
  BY DEF RtcPlacesOK, Pop, ClosePcs, CloseRunning

LEMMA GiveBackType ==
  ASSUME RtcPlacesOK, NEW c \in Sessions \cup Readers, GiveBack(c)
  PROVE  /\ leases' \subseteq Sessions \cup Readers
         /\ joining' \in Sessions \cup Readers \cup {None}
         /\ UNCHANGED <<active, media>>
  BY DEF RtcPlacesOK, GiveBack

LEMMA TakeType ==
  ASSUME RtcPlacesOK, NEW c \in Sessions \cup Readers, NEW ch \in Channels, Take(c, ch)
  PROVE  /\ leases' \subseteq Sessions \cup Readers
         /\ active' \in Channels /\ media' \in {"none", "starting", "live", "zombie"}
         /\ joining' = joining
  BY DEF RtcPlacesOK, Take

LEMMA OfferPlaces ==
  ASSUME RtcPlacesOK, NEW s \in Sessions, OfferNext(s)
  PROVE  RtcPlacesOK'
<1>0. /\ offer \in [Sessions -> OfferPcs] /\ fate \in [Sessions -> {"go", "fail", "cancel"}]
      /\ told \in [Sessions -> Tolds] /\ sub \in [Sessions -> Subs]
      /\ chan \in [Sessions -> Channels] /\ viewers \subseteq Sessions
      /\ closing \in [Sessions -> ClosePcs]
  BY DEF RtcPlacesOK, Tolds, Subs
<1> USE DEF OfferPcs, Running
<1>1. CASE Offered(s)
  <2>1. offer' \in [Sessions -> OfferPcs] /\ sub' \in [Sessions -> Subs]
    BY <1>0, <1>1 DEF Offered, Subs
  <2> QED BY <1>1, <2>1 DEF Offered, RtcPlacesOK, Subs
<1>2. CASE Register(s)
  <2>1. /\ offer' \in [Sessions -> OfferPcs] /\ told' \in [Sessions -> Tolds]
        /\ viewers' \subseteq Sessions
    BY <1>0, <1>2 DEF Register, Tolds
  <2> QED BY <1>2, <2>1 DEF Register, RtcPlacesOK, Tolds
<1>3. CASE Describe(s) \/ Acquired(s)
  <2>1. offer' \in [Sessions -> OfferPcs]
    BY <1>0, <1>3 DEF Describe, Acquired, Resumes
  <2> QED BY <1>3, <2>1 DEF Describe, Acquired, RtcPlacesOK
<1>4. CASE Acquire(s)
  <2>1. offer' \in [Sessions -> OfferPcs]
    BY <1>0, <1>4 DEF Acquire
  <2>2. /\ leases' \subseteq Sessions \cup Readers
        /\ active' \in Channels /\ media' \in {"none", "starting", "live", "zombie"}
        /\ joining' = joining
    BY <1>0, <1>4, TakeType DEF Acquire
  <2> QED BY <1>4, <2>1, <2>2 DEF Acquire, RtcPlacesOK
<1>5. CASE Answer(s)
  <2>1. offer' \in [Sessions -> OfferPcs] /\ told' \in [Sessions -> Tolds]
    BY <1>0, <1>5 DEF Answer, Resumes, Tolds
  <2> QED BY <1>5, <2>1 DEF Answer, RtcPlacesOK, Tolds
<1>6. CASE OfferFails(s)
  <2>1. Unwind(offer[s]) \in OfferPcs
    BY <1>0, UnwindType
  <2>2. offer' \in [Sessions -> OfferPcs] /\ fate' \in [Sessions -> {"go", "fail", "cancel"}]
    BY <1>0, <1>6, <2>1 DEF OfferFails
  <2> QED BY <1>6, <2>2 DEF OfferFails, RtcPlacesOK
<1>7. CASE OfferGivesBack(s)
  <2>1. offer' \in [Sessions -> OfferPcs]
    BY <1>0, <1>7 DEF OfferGivesBack
  <2>2. /\ leases' \subseteq Sessions \cup Readers
        /\ joining' \in Sessions \cup Readers \cup {None}
        /\ UNCHANGED <<active, media>>
    BY <1>7, GiveBackType DEF OfferGivesBack
  <2> QED BY <1>7, <2>1, <2>2 DEF OfferGivesBack, RtcPlacesOK
<1>8. CASE Unwound(s)
  <2>1. offer' \in [Sessions -> OfferPcs]
    BY <1>0, <1>8 DEF Unwound
  <2>2. viewers' \subseteq Sessions /\ closing' \in [Sessions -> ClosePcs]
    BY <1>0, <1>8, PopType DEF Unwound
  <2> QED BY <1>8, <2>1, <2>2 DEF Unwound, RtcPlacesOK
<1>9. CASE OfferEnds(s)
  <2>1. offer' \in [Sessions -> OfferPcs] /\ told' \in [Sessions -> Tolds]
    BY <1>0, <1>9 DEF OfferEnds, Tolds
  <2> QED BY <1>9, <2>1 DEF OfferEnds, RtcPlacesOK, Tolds
<1> QED BY <1>1, <1>2, <1>3, <1>4, <1>5, <1>6, <1>7, <1>8, <1>9 DEF OfferNext

LEMMA CleanupPlaces ==
  ASSUME RtcPlacesOK, NEW s \in Sessions, CleanupNext(s)
  PROVE  RtcPlacesOK'
<1>0. /\ offer \in [Sessions -> OfferPcs] /\ sub \in [Sessions -> Subs]
      /\ viewers \subseteq Sessions /\ closing \in [Sessions -> ClosePcs]
  BY DEF RtcPlacesOK, Subs
<1> USE DEF ClosePcs, CloseRunning
<1>1. CASE CleanupCancels(s)
  <2>1. sub' \in [Sessions -> Subs]
    BY <1>0, <1>1 DEF CleanupCancels, Subs
  <2>2. offer' \in [Sessions -> OfferPcs] /\ fate' \in [Sessions -> {"go", "fail", "cancel"}]
    BY <1>1, CancelType DEF CleanupCancels
  <2> QED BY <1>1, <2>1, <2>2 DEF CleanupCancels, RtcPlacesOK, Subs
<1>2. CASE CleanupCloses(s) \/ PeerGone(s)
  <2>1. sub' \in [Sessions -> Subs]
    BY <1>0, <1>2 DEF CleanupCloses, PeerGone, Subs
  <2>2. viewers' \subseteq Sessions /\ closing' \in [Sessions -> ClosePcs]
    BY <1>0, <1>2, PopType DEF CleanupCloses, PeerGone
  <2> QED BY <1>2, <2>1, <2>2 DEF CleanupCloses, PeerGone, RtcPlacesOK, Subs
<1>3. CASE CleanupEnds(s) \/ OfferAbandoned(s)
  <2>1. CleanupEnds(s) => closing[s] \in Subs
    BY <1>0 DEF CleanupEnds, Subs
  <2>2. sub' \in [Sessions -> Subs]
    BY <1>0, <1>3, <2>1 DEF CleanupEnds, OfferAbandoned, CleanupOf, Subs
  <2> QED BY <1>3, <2>2 DEF CleanupEnds, OfferAbandoned, RtcPlacesOK, Subs
<1>4. CASE CloseMic(s) \/ CloseJobs(s) \/ CloseTalk(s)
  <2>1. closing' \in [Sessions -> ClosePcs]
    BY <1>0, <1>4 DEF CloseMic, CloseJobs, CloseTalk
  <2> QED BY <1>4, <2>1 DEF CloseMic, CloseJobs, CloseTalk, RtcPlacesOK
<1>5. CASE CloseLease(s)
  <2>1. closing' \in [Sessions -> ClosePcs]
    BY <1>0, <1>5 DEF CloseLease
  <2>2. /\ leases' \subseteq Sessions \cup Readers
        /\ joining' \in Sessions \cup Readers \cup {None}
        /\ UNCHANGED <<active, media>>
    BY <1>5, GiveBackType DEF CloseLease
  <2> QED BY <1>5, <2>1, <2>2 DEF CloseLease, RtcPlacesOK
<1> QED BY <1>1, <1>2, <1>3, <1>4, <1>5 DEF CleanupNext, CloseStep

LEMMA JoinPlaces ==
  ASSUME RtcPlacesOK, Join
  PROVE  RtcPlacesOK'
<1>0. offer \in [Sessions -> OfferPcs] /\ closing \in [Sessions -> ClosePcs]
  BY DEF RtcPlacesOK
<1>1. offer' \in [Sessions -> OfferPcs]
  BY <1>0 DEF Join, OfferPcs, Running
<1>2. closing' \in [Sessions -> ClosePcs]
  BY <1>0 DEF Join, ClosePcs
<1>3. /\ joining' = None /\ media' \in {"none", "zombie"} /\ active' \in {active, 1}
      /\ UNCHANGED <<leases, manager, sub, chan, fate, told, viewers, link>>
  BY DEF Join
<1> QED BY <1>1, <1>2, <1>3 DEF RtcPlacesOK, Channels

LEMMA UnloadPlaces ==
  ASSUME RtcPlacesOK, UnloadNext
  PROVE  RtcPlacesOK'
<1>1. CASE Unload
  <2>1. offer' \in [Sessions -> OfferPcs] /\ fate' \in [Sessions -> {"go", "fail", "cancel"}]
    <3> DEFINE S == {s \in Sessions : offer[s] \in Running}
    <3>1. S \in SUBSET Sessions /\ Cancel(S)
      BY <1>1 DEF Unload
    <3> HIDE DEF S
    <3> QED BY <3>1, CancelType
  <2> QED BY <1>1, <2>1 DEF Unload, RtcPlacesOK
<1>2. CASE UnloadCloses
  <2>1. viewers' \subseteq Sessions /\ closing' \in [Sessions -> ClosePcs]
    BY <1>2, PopType DEF UnloadCloses, RtcPlacesOK
  <2> QED BY <1>2, <2>1 DEF UnloadCloses, RtcPlacesOK
<1>3. CASE UnloadEnds
  BY <1>3 DEF UnloadEnds, RtcPlacesOK
<1> QED BY <1>1, <1>2, <1>3 DEF UnloadNext

LEMMA TalkPlaces ==
  ASSUME RtcPlacesOK, TalkNext
  PROVE  RtcPlacesOK'
<1>1. UNCHANGED Placed /\ UNCHANGED told /\ active' = active
      /\ media' \in {"none", "starting", "live", "zombie"}
  BY TalkKeeps, TalkMedia DEF RtcPlacesOK
<1>2. link' \in [Sessions -> {"new", "up", "broken"}]
  BY TalkMedia DEF RtcPlacesOK
<1> QED BY <1>1, <1>2 DEF RtcPlacesOK, Placed

LEMMA RtcPlaces ==
  ASSUME RtcPlacesOK, RtcNext
  PROVE  RtcPlacesOK'
  BY RtcCases, OfferPlaces, CleanupPlaces, JoinPlaces, UnloadPlaces, TalkPlaces

-----------------------------------------------------------------------------
(* Who has a lease *)

\* A step that leaves the leases, offers and viewers alone.
LEMMA PlacedKeeps ==
  ASSUME SessionLeases, SubsOnce, UNCHANGED Placed
  PROVE  SessionLeases' /\ SubsOnce'
  BY DEF SessionLeases, SubsOnce, Placed

\* An offer takes its lease once, and gives it back when it fails.
LEMMA OfferLeases ==
  ASSUME RtcPlacesOK, SessionLeases, SubsOnce, NEW t \in Sessions, OfferNext(t)
  PROVE  SessionLeases' /\ SubsOnce'
<1>0. /\ offer \in [Sessions -> OfferPcs] /\ sub \in [Sessions -> Subs]
      /\ viewers \subseteq Sessions /\ closing \in [Sessions -> ClosePcs]
  BY DEF RtcPlacesOK, Subs
<1>1. CASE Offered(t)
  <2>1. /\ sub[t] = "sent" /\ offer[t] = "none"
        /\ sub' = [sub EXCEPT ![t] = "on"] /\ offer' = [offer EXCEPT ![t] = "created"]
        /\ UNCHANGED <<leases, viewers, closing>>
    BY <1>1 DEF Offered, SubsOnce
  <2> QED BY <1>0, <2>1 DEF SessionLeases, SubsOnce
<1>2. CASE Register(t)
  BY <1>0, <1>2 DEF Register, SessionLeases, SubsOnce
<1>3. CASE Describe(t) \/ Acquired(t) \/ Answer(t)
  BY <1>0, <1>3 DEF Describe, Acquired, Answer, Resumes, SessionLeases, SubsOnce
<1>4. CASE Acquire(t)
  BY <1>0, <1>4 DEF Acquire, Take, SessionLeases, SubsOnce
<1>5. CASE OfferFails(t)
  <2>1. /\ offer[t] \in {"describe", "acquire", "ready", "answer"}
        /\ offer' = [offer EXCEPT ![t] = IF offer[t] = "ready" THEN "giveup" ELSE "unwound"]
        /\ UNCHANGED <<leases, viewers, closing, sub>>
    BY <1>0, <1>5 DEF OfferFails, Unwind
  <2> QED BY <1>0, <2>1 DEF SessionLeases, SubsOnce
<1>6. CASE OfferGivesBack(t)
  BY <1>0, <1>6 DEF OfferGivesBack, GiveBack, SessionLeases, SubsOnce
<1>7. CASE Unwound(t)
  BY <1>0, <1>7 DEF Unwound, Pop, SessionLeases, SubsOnce
<1>8. CASE OfferEnds(t)
  BY <1>0, <1>8 DEF OfferEnds, SessionLeases, SubsOnce
<1> QED BY <1>1, <1>2, <1>3, <1>4, <1>5, <1>6, <1>7, <1>8 DEF OfferNext

\* What a cancelled offer does with its lease.
LEMMA CancelKeeps ==
  ASSUME RtcPlacesOK, NEW S \in SUBSET Sessions, Cancel(S)
  PROVE  \A s \in Sessions :
           /\ offer'[s] = "none" <=> offer[s] = "none"
           /\ offer'[s] = "created" => offer[s] = "created" /\ s \notin S
           /\ offer[s] = "done" => offer'[s] = "done"
           /\ offer[s] \in {"ready", "late", "giveup"} => offer'[s] \in {"ready", "late", "giveup"}
<1>1. offer \in [Sessions -> OfferPcs]
  BY DEF RtcPlacesOK
<1> QED BY <1>1 DEF Cancel, Unwind, OfferPcs, Running

LEMMA CleanupLeases ==
  ASSUME RtcPlacesOK, SessionLeases, SubsOnce, NEW t \in Sessions, CleanupNext(t)
  PROVE  SessionLeases' /\ SubsOnce'
<1>0. /\ offer \in [Sessions -> OfferPcs] /\ sub \in [Sessions -> Subs]
      /\ viewers \subseteq Sessions /\ closing \in [Sessions -> ClosePcs]
  BY DEF RtcPlacesOK, Subs
<1>1. CASE CleanupCancels(t)
  <2>1. /\ sub[t] = "cancel" /\ sub' = [sub EXCEPT ![t] = "gather"] /\ Cancel({t})
        /\ UNCHANGED <<leases, viewers, closing>>
    BY <1>1 DEF CleanupCancels
  <2>2. \A s \in Sessions :
           /\ offer'[s] = "none" <=> offer[s] = "none"
           /\ offer'[s] = "created" => offer[s] = "created" /\ s # t
           /\ offer[s] = "done" => offer'[s] = "done"
           /\ offer[s] \in {"ready", "late", "giveup"} => offer'[s] \in {"ready", "late", "giveup"}
    BY <2>1, CancelKeeps
  <2>3. SessionLeases'
    BY <2>1, <2>2 DEF SessionLeases
  <2>4. SubsOnce'
    BY <1>0, <2>1, <2>2 DEF SubsOnce
  <2> QED BY <2>3, <2>4
<1>2. CASE CleanupCloses(t)
  <2>1. /\ sub[t] = "gather" /\ offer[t] \notin Running
        /\ sub' = [sub EXCEPT ![t] = IF t \in viewers \/ closing[t] # "none" THEN "close" ELSE "done"]
        /\ viewers' = viewers \ {t}
        /\ closing' = [s \in Sessions |-> IF s = t /\ t \in viewers THEN "mic" ELSE closing[s]]
        /\ UNCHANGED <<leases, offer>>
    BY <1>0, <1>2 DEF CleanupCloses, Pop
  <2>2. offer[t] = "done"
    BY <1>0, <2>1 DEF SubsOnce, OfferPcs
  <2>3. SessionLeases'
    BY <2>1 DEF SessionLeases
  <2>4. SubsOnce'
    BY <1>0, <2>1, <2>2 DEF SubsOnce
  <2> QED BY <2>3, <2>4
<1>3. CASE CleanupEnds(t)
  <2>1. /\ sub[t] = "close" /\ closing[t] \notin CloseRunning /\ sub' = [sub EXCEPT ![t] = closing[t]]
        /\ UNCHANGED <<leases, viewers, closing, offer>>
    BY <1>3 DEF CleanupEnds
  <2>2. closing[t] \in {"done", "failed"}
    BY <1>0, <2>1 DEF SubsOnce, ClosePcs
  <2> QED BY <1>0, <2>1, <2>2 DEF SessionLeases, SubsOnce
<1>4. CASE OfferAbandoned(t)
  BY <1>0, <1>4 DEF OfferAbandoned, CleanupOf, SessionLeases, SubsOnce
<1>5. CASE PeerGone(t)
  BY <1>0, <1>5 DEF PeerGone, Pop, SessionLeases, SubsOnce
<1>6. CASE CloseMic(t) \/ CloseJobs(t) \/ CloseTalk(t)
  <2>1. /\ closing[t] \in {"mic", "jobs", "talk"}
        /\ \E l \in {"jobs", "talk", "lease"} : closing' = [closing EXCEPT ![t] = l]
        /\ UNCHANGED <<leases, viewers, sub, offer>>
    BY <1>6 DEF CloseMic, CloseJobs, CloseTalk
  <2> QED BY <1>0, <2>1 DEF SessionLeases, SubsOnce
<1>7. CASE CloseLease(t)
  <2>1. /\ closing[t] = "lease" /\ leases' = leases \ {t}
        /\ \E l \in {"join", "done"} : closing' = [closing EXCEPT ![t] = l]
        /\ UNCHANGED <<viewers, sub, offer>>
    BY <1>7 DEF CloseLease, GiveBack
  <2> QED BY <1>0, <2>1 DEF SessionLeases, SubsOnce
<1> QED BY <1>1, <1>2, <1>3, <1>4, <1>5, <1>6, <1>7 DEF CleanupNext, CloseStep

LEMMA JoinLeases ==
  ASSUME RtcPlacesOK, SessionLeases, SubsOnce, Join
  PROVE  SessionLeases' /\ SubsOnce'
<1>1. /\ offer' = [s \in Sessions |->
                 IF s = joining /\ offer[s] = "giving" THEN "unwound" ELSE offer[s]]
      /\ \E l \in {"done", "failed"} : closing' = [s \in Sessions |->
                         IF s = joining /\ closing[s] = "join" THEN l ELSE closing[s]]
      /\ UNCHANGED <<leases, viewers, sub>>
  BY DEF Join
<1> QED BY <1>1 DEF SessionLeases, SubsOnce

LEMMA UnloadLeases ==
  ASSUME RtcPlacesOK, SessionLeases, SubsOnce, UnloadNext
  PROVE  SessionLeases' /\ SubsOnce'
<1>1. CASE Unload
  <2> DEFINE S == {s \in Sessions : offer[s] \in Running}
  <2>1. S \in SUBSET Sessions /\ Cancel(S) /\ UNCHANGED <<leases, viewers, closing, sub>>
    BY <1>1 DEF Unload
  <2> HIDE DEF S
  <2>2. \A s \in Sessions :
           /\ offer'[s] = "none" <=> offer[s] = "none"
           /\ offer'[s] = "created" => offer[s] = "created" /\ s \notin S
           /\ offer[s] = "done" => offer'[s] = "done"
           /\ offer[s] \in {"ready", "late", "giveup"} => offer'[s] \in {"ready", "late", "giveup"}
    BY <2>1, CancelKeeps
  <2> QED BY <2>1, <2>2 DEF SessionLeases, SubsOnce
<1>2. CASE UnloadCloses
  BY <1>2 DEF UnloadCloses, Pop, SessionLeases, SubsOnce
<1>3. CASE UnloadEnds
  BY <1>3 DEF UnloadEnds, SessionLeases, SubsOnce
<1> QED BY <1>1, <1>2, <1>3 DEF UnloadNext

LEMMA RtcLeases ==
  ASSUME RtcPlacesOK, SessionLeases, SubsOnce, RtcNext
  PROVE  SessionLeases' /\ SubsOnce'
  BY RtcCases, OfferLeases, CleanupLeases, JoinLeases, UnloadLeases, TalkKeeps, PlacedKeeps

\* What the integration does with a subscription the page made: one that was
\* never made stays so, and one that is done stays done.
LEMMA RtcSubs ==
  ASSUME RtcPlacesOK, RtcNext, NEW s \in Sessions
  PROVE  /\ sub[s] = "none" => sub'[s] = "none"
         /\ sub[s] = "done" => sub'[s] = "done"
<1>0. sub \in [Sessions -> Subs]
  BY DEF RtcPlacesOK, Subs
<1>1. ASSUME NEW t \in Sessions, OfferNext(t)
      PROVE  sub[s] \in {"none", "done"} => sub'[s] = sub[s]
  BY <1>0, <1>1 DEF OfferNext, Offered, Register, Describe, Acquire, Acquired, Answer, OfferFails,
       OfferGivesBack, Unwound, OfferEnds
<1>2. ASSUME NEW t \in Sessions, CleanupNext(t)
      PROVE  sub[s] \in {"none", "done"} => sub'[s] = sub[s]
  BY <1>0, <1>2 DEF CleanupNext, CleanupCancels, CleanupCloses, CleanupEnds, OfferAbandoned,
       CleanupOf, PeerGone, CloseStep, CloseMic, CloseJobs, CloseTalk, CloseLease
<1>3. CASE Join \/ UnloadNext
  BY <1>3 DEF Join, UnloadNext, Unload, UnloadCloses, UnloadEnds
<1>4. CASE TalkNext
  BY <1>4, TalkKeeps DEF Placed
<1> QED BY <1>1, <1>2, <1>3, <1>4, RtcCases

-----------------------------------------------------------------------------
(* Pages and the card *)

Pages == {"unused", "peer", "offered", "left"}
Releases == {"no", "token", "stop", "ok", "failed"}

\* What _close does to the sessions it leaves.
LEMMA LeaveMoves ==
  ASSUME PlacesOK, NEW S \in SUBSET Sessions, Leave(S)
  PROVE  /\ page' \in [Sessions -> Pages] /\ released' \in [Sessions -> Releases]
         /\ link' \in [Sessions -> {"new", "up", "broken"}]
         /\ \A s \in Sessions :
              /\ page'[s] = IF s \in S THEN "left" ELSE page[s]
              /\ released'[s] = IF s \in S /\ page[s] = "offered" THEN "token" ELSE released[s]
<1>0. /\ page \in [Sessions -> Pages] /\ released \in [Sessions -> Releases]
      /\ link \in [Sessions -> {"new", "up", "broken"}]
  BY DEF PlacesOK, CardPlacesOK, RtcPlacesOK, Pages, Releases
<1> QED BY <1>0 DEF Leave, Pages, Releases

LEMMA MineType ==
  ASSUME PlacesOK
  PROVE  Mine \in SUBSET Sessions /\ \A s \in Sessions : s \in Mine <=> s = cur
  BY RtcAssumption DEF PlacesOK, CardPlacesOK, Mine

LEMMA ShutMoves ==
  ASSUME PlacesOK, NEW o, NEW w, NEW f, Shut(o, w, f)
  PROVE  /\ page' \in [Sessions -> Pages] /\ released' \in [Sessions -> Releases]
         /\ link' \in [Sessions -> {"new", "up", "broken"}]
         /\ \A s \in Sessions :
              /\ page'[s] = IF s = cur THEN "left" ELSE page[s]
              /\ released'[s] = IF s = cur /\ page[s] = "offered" THEN "token" ELSE released[s]
         /\ cur' = None /\ opening' = "off" /\ hls' = FALSE
         /\ outOk' = o /\ switchOk' = w /\ fall' = f
<1>1. Leave(Mine) /\ Mine \in SUBSET Sessions /\ \A s \in Sessions : s \in Mine <=> s = cur
  BY MineType DEF Shut
<1>2. /\ page' \in [Sessions -> Pages] /\ released' \in [Sessions -> Releases]
      /\ link' \in [Sessions -> {"new", "up", "broken"}]
      /\ \A s \in Sessions :
              /\ page'[s] = IF s \in Mine THEN "left" ELSE page[s]
              /\ released'[s] = IF s \in Mine /\ page[s] = "offered" THEN "token" ELSE released[s]
  BY <1>1, LeaveMoves
<1> QED BY <1>1, <1>2 DEF Shut

\* What pages do to the subscriptions: they send one, lose one that was sent,
\* or end one.
SubMoves ==
  \A s \in Sessions :
    \/ sub'[s] = sub[s]
    \/ sub[s] = "on" /\ sub'[s] = "cancel"
    \/ sub[s] = "sent" /\ sub'[s] = "lost"
    \/ sub[s] = "none" /\ sub'[s] = "sent"

Served == <<leases, active, media, joining, manager, offer, fate, viewers, closing, told>>

LEMMA CardServed ==
  ASSUME CardNext \/ PageNext
  PROVE  UNCHANGED Served
<1> USE DEF Served, serverVars
<1>1. CASE PageNext
  BY <1>1 DEF PageNext, PageLeaves, ReleaseAsks, SocketLost, MicToggle, MicStops, MicGranted, MicTimeout,
     MailArrives, MicCut
<1>2. CASE CardOpens \/ OpenClosed \/ OpenOffers \/ OpenEnds \/ OpenFails
  BY <1>2 DEF CardOpens, OpenClosed, OpenOffers, OpenEnds, OpenFails
<1>3. CASE \E s \in Sessions : OpenPeer(s) \/ ReleaseAsks(s) \/ ReleaseAnswered(s) \/ ReleaseFails(s)
  BY <1>3 DEF OpenPeer, ReleaseAsks, ReleaseAnswered, ReleaseFails
<1>4. CASE CardCloses \/ CardHides \/ CardShows \/ CardRefreshes
  BY <1>4 DEF CardCloses, CardHides, CardShows, CardRefreshes
<1>5. CASE FallsBack \/ FallbackClosed \/ FallbackLoads
  BY <1>5 DEF FallsBack, FallbackClosed, FallbackLoads
<1>6. CASE CardSelects \/ SelectClosed \/ SelectEnds
  BY <1>6 DEF CardSelects, SelectClosed, SelectEnds
<1>7. CASE \E ch \in Channels : OutputClicked(ch)
  BY <1>7 DEF OutputClicked
<1>8. CASE OutputContinues \/ OutputPresses \/ OutputEnds
  BY <1>8 DEF OutputContinues, OutputPresses, OutputEnds
<1>9. CASE SocketLost(Sessions)
  BY <1>9 DEF SocketLost
<1> QED BY <1>1, <1>2, <1>3, <1>4, <1>5, <1>6, <1>7, <1>8, <1>9 DEF CardNext

LEMMA ServedLeases ==
  ASSUME SessionLeases, SubsOnce, UNCHANGED Served, SubMoves
  PROVE  SessionLeases' /\ SubsOnce'
<1>1. SessionLeases'
  BY DEF SessionLeases, Served
<1>2. SubsOnce'
  BY DEF SubsOnce, Served, SubMoves
<1> QED BY <1>1, <1>2

\* The types that a step of a page or of the card has to keep.
WebTypes ==
  /\ sub \in [Sessions -> Subs] /\ chan \in [Sessions -> Channels]
  /\ link \in [Sessions -> {"new", "up", "broken"}]
  /\ page \in [Sessions -> Pages] /\ released \in [Sessions -> Releases]
  /\ cur \in Sessions \cup {None}

TaskTypes ==
  /\ sel \in Channels /\ outTo \in Channels
  /\ known \in BOOLEAN /\ visible \in BOOLEAN /\ outOk \in BOOLEAN
  /\ switchOk \in BOOLEAN /\ reopen \in BOOLEAN /\ hls \in BOOLEAN
  /\ opening \in {"off", "closing", "settings", "ice", "ready"}
  /\ out \in {"off", "closing", "settings", "settle", "press"}
  /\ switch \in {"off", "closing", "opening"}
  /\ fall \in {"off", "closing", "loading"}

LEMMA PlacesTypes ==
  /\ PlacesOK => WebTypes /\ TaskTypes
  /\ PlacesOK /\ UNCHANGED Served /\ WebTypes' /\ TaskTypes' => PlacesOK'
<1>1. PlacesOK => WebTypes /\ TaskTypes
  BY DEF PlacesOK, RtcPlacesOK, CardPlacesOK, WebTypes, TaskTypes, Pages, Releases, Subs
<1>2. ASSUME PlacesOK, UNCHANGED Served, WebTypes', TaskTypes' PROVE PlacesOK'
  <2>1. RtcPlacesOK'
    BY <1>2 DEF PlacesOK, RtcPlacesOK, WebTypes, Served, Subs
  <2>2. CardPlacesOK'
    BY <1>2 DEF CardPlacesOK, WebTypes, TaskTypes, Pages, Releases
  <2> QED BY <2>1, <2>2 DEF PlacesOK
<1> QED BY <1>1, <1>2

LEMMA CleanupOfMoves ==
  ASSUME sub \in [Sessions -> Subs], NEW S
  PROVE  /\ CleanupOf(S) \in [Sessions -> Subs]
         /\ \A s \in Sessions :
              CleanupOf(S)[s] = sub[s] \/ (sub[s] = "on" /\ CleanupOf(S)[s] = "cancel")
<1>1. \A s \in Sessions :
        (IF s \in S /\ sub[s] = "on" THEN "cancel" ELSE sub[s]) \in Subs
  BY DEF Subs
<1>2. CleanupOf(S) \in [Sessions -> Subs]
  BY <1>1 DEF CleanupOf
<1>3. \A s \in Sessions :
        CleanupOf(S)[s] = sub[s] \/ (sub[s] = "on" /\ CleanupOf(S)[s] = "cancel")
  BY DEF CleanupOf
<1> QED BY <1>2, <1>3

Web == PlacesOK /\ SubsOnce /\ PagesOnce /\ OneSession /\ PressReady
WebStep == WebTypes' /\ TaskTypes' /\ SubMoves /\ PagesOnce' /\ OneSession' /\ PressReady'

\* The card's tasks are as they were, and no session it has changes its page.
LEMMA TasksKeep ==
  ASSUME Web, UNCHANGED <<cur, sel, known, visible, opening, out, outTo, outOk, switch, switchOk,
                          reopen, fall, hls, cast>>
  PROVE  /\ TaskTypes'
         /\ (out = "settings" /\ Settled /\ AllReleased => Settled' /\ AllReleased') => PressReady'
         /\ page' = page => OneSession'
<1>1. TaskTypes'
  BY PlacesTypes DEF Web, TaskTypes
<1>2. (out = "settings" /\ Settled /\ AllReleased => Settled' /\ AllReleased') => PressReady'
  BY DEF Web, PressReady
<1>3. page' = page => OneSession'
  BY DEF Web, OneSession
<1> QED BY <1>1, <1>2, <1>3

\* The release of a session goes on.
LEMMA ReleaseStep ==
  ASSUME Web, cast' = cast, NEW t \in Sessions,
         ReleaseAsks(t) \/ ReleaseAnswered(t) \/ ReleaseFails(t)
  PROVE  WebStep
<1>0. WebTypes /\ TaskTypes /\ PagesOnce
  BY PlacesTypes DEF Web
<1>1. /\ released[t] \in {"token", "stop"}
      /\ sub' = sub \/ sub' = CleanupOf({t})
      /\ \E l \in {"stop", "ok", "failed"} :
           /\ released' = [released EXCEPT ![t] = l]
           /\ l = "ok" => sub[t] = "done" /\ sub' = sub
      /\ UNCHANGED <<page, chan, link>>
      /\ UNCHANGED <<cur, sel, known, visible, opening, out, outTo, outOk, switch, switchOk,
                     reopen, fall, hls>>
  BY DEF ReleaseAsks, ReleaseAnswered, ReleaseFails, taskVars, seenVars
<1>2. /\ sub' \in [Sessions -> Subs] /\ SubMoves
      /\ \A s \in Sessions : sub'[s] = sub[s] \/ (sub[s] = "on" /\ sub'[s] = "cancel")
  BY <1>0, <1>1, CleanupOfMoves DEF WebTypes, SubMoves
<1>3. WebTypes'
  BY <1>0, <1>1, <1>2 DEF WebTypes, Releases
<1>4. PagesOnce'
  <2> SUFFICES ASSUME NEW s \in Sessions
               PROVE  /\ page[s] \in {"unused", "peer"} => sub'[s] = "none" /\ released'[s] = "no"
                      /\ page[s] = "left" /\ released'[s] = "no" => sub'[s] = "none"
                      /\ released'[s] = "ok" => sub'[s] = "done"
    BY <1>1 DEF PagesOnce
  <2>1. PICK l \in {"stop", "ok", "failed"} :
           /\ released' = [released EXCEPT ![t] = l]
           /\ l = "ok" => sub[t] = "done" /\ sub' = sub
    BY <1>1
  <2>2. released'[s] = IF s = t THEN l ELSE released[s]
    BY <1>0, <2>1 DEF WebTypes
  <2>3. sub[s] \in {"none", "done"} => sub'[s] = sub[s]
    BY <1>2
  <2>4. /\ page[s] \in {"unused", "peer"} => sub[s] = "none" /\ released[s] = "no"
        /\ page[s] = "left" /\ released[s] = "no" => sub[s] = "none"
        /\ released[s] = "ok" => sub[s] = "done"
    BY <1>0 DEF PagesOnce
  <2> QED BY <1>1, <2>1, <2>2, <2>3, <2>4
<1>5. ~Settled
  BY <1>1 DEF Settled
<1> QED BY <1>1, <1>2, <1>3, <1>4, <1>5, TasksKeep DEF WebStep

LEMMA SocketStep ==
  ASSUME Web, cast' = cast, NEW S \in SUBSET Sessions, SocketLost(S)
  PROVE  WebStep
<1>0. WebTypes /\ TaskTypes /\ PagesOnce
  BY PlacesTypes DEF Web
<1>1. /\ sub' = [s \in Sessions |-> IF s \in S /\ sub[s] = "sent" THEN "lost" ELSE CleanupOf(S)[s]]
      /\ released' = [s \in Sessions |-> IF s \in S /\ released[s] \in {"token", "stop"}
                                       THEN "failed" ELSE released[s]]
      /\ UNCHANGED <<page, chan, link>>
      /\ UNCHANGED <<cur, sel, known, visible, opening, out, outTo, outOk, switch, switchOk,
                     reopen, fall, hls>>
  BY DEF SocketLost, taskVars, seenVars
<1>2. \A s \in Sessions :
        /\ CleanupOf(S)[s] \in Subs
        /\ CleanupOf(S)[s] = sub[s] \/ (sub[s] = "on" /\ CleanupOf(S)[s] = "cancel")
  <2>1. sub \in [Sessions -> Subs]
    BY <1>0 DEF WebTypes
  <2>2. /\ CleanupOf(S) \in [Sessions -> Subs]
        /\ \A s \in Sessions :
             CleanupOf(S)[s] = sub[s] \/ (sub[s] = "on" /\ CleanupOf(S)[s] = "cancel")
    BY <2>1, CleanupOfMoves
  <2> QED BY <2>2
<1>3. /\ sub' \in [Sessions -> Subs] /\ SubMoves
      /\ \A s \in Sessions : sub'[s] = sub[s] \/ (sub[s] \in {"on", "sent"} /\ sub'[s] \in {"cancel", "lost"})
  BY <1>1, <1>2 DEF SubMoves, Subs
<1>4. WebTypes'
  BY <1>0, <1>1, <1>3 DEF WebTypes, Releases
<1>5. PagesOnce'
  <2> SUFFICES ASSUME NEW s \in Sessions
               PROVE  /\ page[s] \in {"unused", "peer"} => sub'[s] = "none" /\ released'[s] = "no"
                      /\ page[s] = "left" /\ released'[s] = "no" => sub'[s] = "none"
                      /\ released'[s] = "ok" => sub'[s] = "done"
    BY <1>1 DEF PagesOnce
  <2>1. released'[s] = released[s] \/ (released[s] \in {"token", "stop"} /\ released'[s] = "failed")
    BY <1>1
  <2>2. sub[s] \in {"none", "done"} => sub'[s] = sub[s]
    BY <1>3
  <2>3. /\ page[s] \in {"unused", "peer"} => sub[s] = "none" /\ released[s] = "no"
        /\ page[s] = "left" /\ released[s] = "no" => sub[s] = "none"
        /\ released[s] = "ok" => sub[s] = "done"
    BY <1>0 DEF PagesOnce
  <2> QED BY <1>1, <2>1, <2>2, <2>3
<1>6. Settled /\ AllReleased => Settled' /\ AllReleased'
  BY <1>1 DEF Settled, AllReleased
<1> QED BY <1>1, <1>3, <1>4, <1>5, <1>6, TasksKeep DEF WebStep

\* A page of its own.
LEMMA PageStep ==
  ASSUME Web, cast = "pages", cast' = cast, PageNext
  PROVE  WebStep
<1>0. WebTypes /\ TaskTypes /\ PagesOnce /\ OneSession /\ PressReady /\ PlacesOK
  BY PlacesTypes DEF Web
<1>1. ASSUME NEW t \in Sessions, PageLeaves(t) PROVE WebStep
  <2>1. /\ page[t] = "offered" /\ Leave({t})
        /\ UNCHANGED <<sub, chan>>
        /\ UNCHANGED <<cur, sel, known, visible, opening, out, outTo, outOk, switch, switchOk,
                       reopen, fall, hls>>
    BY <1>1 DEF PageLeaves, taskVars, seenVars
  <2>2. /\ page' \in [Sessions -> Pages] /\ released' \in [Sessions -> Releases]
        /\ link' \in [Sessions -> {"new", "up", "broken"}]
        /\ \A s \in Sessions :
              /\ page'[s] = IF s \in {t} THEN "left" ELSE page[s]
              /\ released'[s] = IF s \in {t} /\ page[s] = "offered" THEN "token" ELSE released[s]
    BY <1>0, <2>1, LeaveMoves
  <2>3. SubMoves /\ WebTypes'
    BY <1>0, <2>1, <2>2 DEF SubMoves, WebTypes
  <2>4. PagesOnce'
    BY <1>0, <2>1, <2>2 DEF PagesOnce
  <2>5. OneSession'
    BY <1>0, <2>1, <2>2 DEF OneSession, WebTypes
  <2>6. PressReady'
    BY <1>0, <2>1 DEF PressReady
  <2> QED BY <2>1, <2>3, <2>4, <2>5, <2>6, TasksKeep DEF WebStep
<1>2. ASSUME NEW t \in Sessions,
             MicToggle(t) \/ MicGranted(t) \/ MicTimeout(t) \/ MailArrives(t) \/ MicCut(t)
      PROVE  WebStep
  <2>1. /\ UNCHANGED <<sub, chan, link, page, released>>
        /\ UNCHANGED <<cur, sel, known, visible, opening, out, outTo, outOk, switch, switchOk,
                       reopen, fall, hls>>
    BY <1>2 DEF MicToggle, MicStops, MicGranted, MicTimeout, MailArrives, MicCut, taskVars, seenVars
  <2>2. SubMoves /\ WebTypes' /\ PagesOnce'
    BY <1>0, <2>1 DEF SubMoves, WebTypes, PagesOnce
  <2>3. Settled /\ AllReleased => Settled' /\ AllReleased'
    BY <2>1 DEF Settled, AllReleased
  <2> QED BY <2>1, <2>2, <2>3, TasksKeep DEF WebStep
<1>3. \A t \in Sessions : {t} \in SUBSET Sessions
  OBVIOUS
<1> QED BY <1>1, <1>2, <1>3, SocketStep, ReleaseStep DEF PageNext

\* _close leaves the session, and nothing that was under way goes on.
LEMMA ShutStep ==
  ASSUME Web, cast = "card", cast' = cast, UNCHANGED <<sub, chan, sel>>,
         NEW o \in BOOLEAN, NEW w \in BOOLEAN, NEW f \in {"off", "closing"}, Shut(o, w, f),
         known' \in BOOLEAN, visible' \in BOOLEAN, reopen' \in BOOLEAN, outTo' \in Channels,
         out' \in {"off", "closing", "settings", "settle", "press"},
         switch' \in {"off", "closing", "opening"},
         out' # "off" => switch' = "off",
         o => out' = "closing" /\ f = "off"
  PROVE  WebStep
<1>0. WebTypes /\ TaskTypes /\ PagesOnce /\ OneSession /\ PressReady /\ PlacesOK
  BY PlacesTypes DEF Web
<1>1. /\ page' \in [Sessions -> Pages] /\ released' \in [Sessions -> Releases]
      /\ link' \in [Sessions -> {"new", "up", "broken"}]
      /\ \A s \in Sessions :
              /\ page'[s] = IF s = cur THEN "left" ELSE page[s]
              /\ released'[s] = IF s = cur /\ page[s] = "offered" THEN "token" ELSE released[s]
      /\ cur' = None /\ opening' = "off" /\ hls' = FALSE
      /\ outOk' = o /\ switchOk' = w /\ fall' = f
  BY <1>0, ShutMoves
<1>2. WebTypes' /\ SubMoves
  BY <1>0, <1>1 DEF WebTypes, SubMoves
<1>3. hls' \in BOOLEAN /\ outOk' \in BOOLEAN /\ switchOk' \in BOOLEAN
  BY <1>1, ZenonT(20)
<1>4. TaskTypes'
  BY <1>0, <1>1, <1>3 DEF TaskTypes
<1>5. PagesOnce'
  <2> SUFFICES ASSUME NEW s \in Sessions
               PROVE  /\ page'[s] \in {"unused", "peer"} => sub[s] = "none" /\ released'[s] = "no"
                      /\ page'[s] = "left" /\ released'[s] = "no" => sub[s] = "none"
                      /\ released'[s] = "ok" => sub[s] = "done"
    BY DEF PagesOnce
  <2>1. /\ page[s] \in {"unused", "peer"} => sub[s] = "none" /\ released[s] = "no"
        /\ page[s] = "left" /\ released[s] = "no" => sub[s] = "none"
        /\ released[s] = "ok" => sub[s] = "done"
        /\ page[s] \in Pages
    BY <1>0 DEF PagesOnce, WebTypes
  <2>2. /\ page'[s] = IF s = cur THEN "left" ELSE page[s]
        /\ released'[s] = IF s = cur /\ page[s] = "offered" THEN "token" ELSE released[s]
    BY <1>1
  <2> QED BY <2>1, <2>2 DEF Pages
<1>6. OneSession'
  BY <1>0, <1>1 DEF OneSession
<1>7. PressReady'
  BY <1>1 DEF PressReady
<1> QED BY <1>2, <1>4, <1>5, <1>6, <1>7 DEF WebStep

\* A step of a task of the card that leaves its session alone.
LEMMA TaskStep ==
  ASSUME Web, cast' = cast, UNCHANGED <<sub, chan, link, page, released, cur>>,
         TaskTypes', PressReady',
         opening' = opening \/ opening' \in {"off", "ready"} \/ (opening' # "ice" /\ cur = None)
  PROVE  WebStep
<1>0. WebTypes /\ PagesOnce /\ OneSession
  BY PlacesTypes DEF Web
<1>1. WebTypes' /\ SubMoves /\ PagesOnce'
  BY <1>0 DEF WebTypes, SubMoves, PagesOnce
<1>2. OneSession'
  BY <1>0 DEF OneSession
<1> QED BY <1>1, <1>2 DEF WebStep

\* The card opens a session.
LEMMA OpenStep ==
  ASSUME Web, cast = "card", cast' = cast,
         \/ CardOpens \/ OpenClosed \/ OpenOffers \/ OpenEnds \/ OpenFails
         \/ \E s \in Sessions : OpenPeer(s)
  PROVE  WebStep
<1>0. WebTypes /\ TaskTypes /\ PagesOnce /\ OneSession /\ PressReady /\ PlacesOK
  BY PlacesTypes DEF Web
<1> USE DEF taskVars, seenVars, pageVars
<1>1. CASE CardOpens
  <2>1. /\ UNCHANGED <<sub, chan, link, page, released, cur, sel, known, visible>>
        /\ UNCHANGED <<out, outTo, switch, reopen, fall, hls>>
        /\ out = "off" /\ opening' = "closing" /\ outOk' = FALSE /\ switchOk' = FALSE
        /\ cur = None
    BY <1>1 DEF CardOpens, Openable, Busy
  <2>2. outOk' \in BOOLEAN /\ switchOk' \in BOOLEAN
    BY <2>1, Zenon
  <2>3. TaskTypes'
    BY <1>0, <2>1, <2>2 DEF TaskTypes
  <2>4. PressReady'
    BY <2>1 DEF PressReady
  <2> QED BY <2>1, <2>3, <2>4, TaskStep
<1>2. CASE OpenClosed
  <2>1. CASE AllReleased
    <3>1. /\ UNCHANGED <<sub, chan, link, page, released, cur, sel, known, visible>>
          /\ UNCHANGED <<out, outTo, outOk, switch, switchOk, reopen, fall, hls>>
          /\ opening = "closing" /\ opening' = "settings" /\ cur = None
      BY <1>0, <1>2, <2>1 DEF OpenClosed, OneSession
    <3>2. TaskTypes'
      BY <1>0, <3>1 DEF TaskTypes
    <3>3. PressReady'
      BY <1>0, <3>1 DEF PressReady
    <3> QED BY <3>1, <3>2, <3>3, TaskStep
  <2>2. CASE ~AllReleased
    <3>1. /\ Shut(FALSE, FALSE, "off")
          /\ UNCHANGED <<sub, chan, sel, known, visible, out, outTo, switch, reopen>>
      BY <1>2, <2>2 DEF OpenClosed
    <3> QED BY <1>0, <3>1, ShutStep DEF TaskTypes, PressReady
  <2> QED BY <2>1, <2>2
<1>3. CASE OpenEnds
  <2>1. /\ UNCHANGED <<sub, chan, link, page, released, cur, sel, known, visible>>
        /\ UNCHANGED <<out, outTo, outOk, switch, switchOk, reopen, fall, hls>>
        /\ opening = "ready" /\ opening' = "off"
    BY <1>3 DEF OpenEnds
  <2>2. TaskTypes'
    BY <1>0, <2>1 DEF TaskTypes
  <2>3. PressReady'
    BY <1>0, <2>1 DEF PressReady
  <2> QED BY <2>1, <2>2, <2>3, TaskStep
<1>4. CASE OpenFails
  <2>1. /\ Shut(FALSE, FALSE, "off")
        /\ UNCHANGED <<sub, chan, sel, known, visible, out, outTo, switch, reopen>>
    BY <1>4 DEF OpenFails, Closed
  <2> QED BY <1>0, <2>1, ShutStep DEF TaskTypes, PressReady
<1>5. ASSUME NEW t \in Sessions, OpenPeer(t) PROVE WebStep
  <2>1. /\ opening = "settings" /\ page[t] = "unused" /\ opening' = "ice" /\ cur' = t
        /\ known' = TRUE /\ page' = [page EXCEPT ![t] = "peer"]
        /\ UNCHANGED <<sub, chan, link, released, sel, visible>>
        /\ UNCHANGED <<out, outTo, outOk, switch, switchOk, reopen, fall, hls>>
    BY <1>5 DEF OpenPeer
  <2>2. known' \in BOOLEAN
    BY <2>1, Zenon
  <2>3. SubMoves /\ TaskTypes'
    BY <1>0, <2>1, <2>2 DEF SubMoves, TaskTypes
  <2>4. WebTypes'
    BY <1>0, <2>1 DEF WebTypes, Pages
  <2>5. PagesOnce'
    BY <1>0, <2>1 DEF PagesOnce, WebTypes
  <2>6. PressReady'
    BY <1>0, <2>1 DEF PressReady
  <2>7. OneSession'
    BY <1>0, <2>1, RtcAssumption DEF OneSession, WebTypes
  <2> QED BY <2>3, <2>4, <2>5, <2>6, <2>7 DEF WebStep
<1>6. CASE OpenOffers
  <2>1. /\ opening = "ice" /\ opening' = "ready"
        /\ page' = [page EXCEPT ![cur] = "offered"]
        /\ sub' = [sub EXCEPT ![cur] = "sent"]
        /\ chan' = [chan EXCEPT ![cur] = sel]
        /\ UNCHANGED <<link, released, cur, sel, known, visible>>
        /\ UNCHANGED <<out, outTo, outOk, switch, switchOk, reopen, fall, hls>>
    BY <1>6 DEF OpenOffers
  <2>2. cur \in Sessions /\ page[cur] = "peer" /\ sub[cur] = "none" /\ released[cur] = "no"
    BY <1>0, <2>1 DEF OneSession, PagesOnce, WebTypes
  <2>3. TaskTypes'
    BY <1>0, <2>1 DEF TaskTypes
  <2>4. WebTypes' /\ SubMoves
    BY <1>0, <2>1, <2>2 DEF WebTypes, TaskTypes, SubMoves, Pages, Subs
  <2>5. PagesOnce'
    BY <1>0, <2>1, <2>2 DEF PagesOnce, WebTypes
  <2>6. OneSession'
    BY <1>0, <2>1, <2>2 DEF OneSession, WebTypes
  <2>7. PressReady'
    BY <1>0, <2>1, <2>2 DEF PressReady
  <2> QED BY <2>3, <2>4, <2>5, <2>6, <2>7 DEF WebStep
<1> QED BY <1>1, <1>2, <1>3, <1>4, <1>5, <1>6

\* It closes, hides, falls back.
LEMMA CloseStepOfCard ==
  ASSUME Web, cast = "card", cast' = cast,
         \/ CardCloses \/ CardHides \/ CardShows \/ CardRefreshes
         \/ FallsBack \/ FallbackClosed \/ FallbackLoads
  PROVE  WebStep
<1>0. WebTypes /\ TaskTypes /\ PagesOnce /\ OneSession /\ PressReady /\ PlacesOK
  BY PlacesTypes DEF Web
<1> USE DEF taskVars, seenVars, pageVars
<1>1. CASE CardCloses
  <2>1. /\ Shut(FALSE, FALSE, "off")
        /\ UNCHANGED <<sub, chan, sel, known, visible, out, outTo, switch, reopen>>
    BY <1>1 DEF CardCloses, Closed
  <2> QED BY <1>0, <2>1, ShutStep DEF TaskTypes, PressReady
<1>2. CASE CardHides
  <2>1. /\ Shut(FALSE, FALSE, "off") /\ visible' = FALSE
        /\ UNCHANGED <<sub, chan, sel, known, out, outTo, switch, reopen>>
    BY <1>2 DEF CardHides
  <2>2. visible' \in BOOLEAN
    BY <2>1, Zenon
  <2> QED BY <1>0, <2>1, <2>2, ShutStep DEF TaskTypes, PressReady
<1>3. CASE CardShows \/ CardRefreshes
  <2>1. /\ UNCHANGED <<sub, chan, link, page, released, cur, sel>>
        /\ UNCHANGED <<opening, out, outTo, outOk, switch, switchOk, reopen, fall, hls>>
        /\ visible' = visible \/ visible' = TRUE
        /\ known' = known \/ known' = TRUE
    BY <1>3 DEF CardShows, CardRefreshes
  <2>2. visible' \in BOOLEAN /\ known' \in BOOLEAN
    <3>1. visible \in BOOLEAN /\ known \in BOOLEAN
      BY <1>0 DEF TaskTypes
    <3> QED BY <2>1, <3>1, Zenon
  <2>3. TaskTypes'
    BY <1>0, <2>1, <2>2 DEF TaskTypes
  <2>4. PressReady'
    BY <1>0, <2>1 DEF PressReady, Settled, AllReleased
  <2> QED BY <2>1, <2>3, <2>4, TaskStep
<1>4. CASE FallsBack
  <2>1. /\ Shut(FALSE, FALSE, "closing")
        /\ UNCHANGED <<sub, chan, sel, known, visible, out, outTo, switch, reopen>>
    BY <1>4 DEF FallsBack
  <2> QED BY <1>0, <2>1, ShutStep DEF TaskTypes, PressReady
<1>5. CASE FallbackClosed
  <2>1. CASE AllReleased
    <3>1. /\ UNCHANGED <<sub, chan, link, page, released, cur, sel, known, visible>>
          /\ UNCHANGED <<opening, out, outTo, outOk, switch, switchOk, reopen, hls>>
          /\ fall = "closing" /\ fall' = "loading"
      BY <1>5, <2>1 DEF FallbackClosed
    <3>2. TaskTypes'
      BY <1>0, <3>1 DEF TaskTypes
    <3>3. PressReady'
      BY <1>0, <3>1 DEF PressReady
    <3> QED BY <3>1, <3>2, <3>3, TaskStep
  <2>2. CASE ~AllReleased
    <3>1. /\ Shut(FALSE, FALSE, "off")
          /\ UNCHANGED <<sub, chan, sel, known, visible, out, outTo, switch, reopen>>
      BY <1>5, <2>2 DEF FallbackClosed
    <3> QED BY <1>0, <3>1, ShutStep DEF TaskTypes, PressReady
  <2> QED BY <2>1, <2>2
<1>6. CASE FallbackLoads
  <2>1. /\ UNCHANGED <<sub, chan, link, page, released, cur, sel, known, visible>>
        /\ UNCHANGED <<opening, out, outTo, outOk, switch, switchOk, reopen>>
        /\ fall = "loading" /\ fall' = "off" /\ hls' = TRUE
    BY <1>6 DEF FallbackLoads
  <2>2. hls' \in BOOLEAN
    BY <2>1, Zenon
  <2>3. TaskTypes'
    BY <1>0, <2>1, <2>2 DEF TaskTypes
  <2>4. PressReady'
    BY <1>0, <2>1 DEF PressReady
  <2> QED BY <2>1, <2>3, <2>4, TaskStep
<1> QED BY <1>1, <1>2, <1>3, <1>4, <1>5, <1>6

\* It changes the entry, or presses an output.
LEMMA OutputStep ==
  ASSUME Web, cast = "card", cast' = cast,
         \/ CardSelects \/ SelectClosed \/ SelectEnds
         \/ \E ch \in Channels : OutputClicked(ch)
         \/ OutputContinues \/ OutputPresses \/ OutputEnds
  PROVE  WebStep
<1>0. WebTypes /\ TaskTypes /\ PagesOnce /\ OneSession /\ PressReady /\ PlacesOK
  BY PlacesTypes DEF Web
<1> USE DEF taskVars, seenVars, pageVars
<1>1. CASE CardSelects
  <2>1. /\ Shut(FALSE, ~hls, "off") /\ out = "off" /\ switch' = "closing" /\ reopen' = Busy
        /\ UNCHANGED <<sub, chan, sel, known, visible, out, outTo>>
    BY <1>1 DEF CardSelects
  <2>2. reopen' \in BOOLEAN /\ (~hls) \in BOOLEAN
    BY <2>1, Zenon DEF Busy
  <2> QED BY <1>0, <2>1, <2>2, ShutStep DEF TaskTypes, PressReady
<1>2. CASE SelectClosed
  <2>1. /\ UNCHANGED <<sub, chan, link, page, released, cur, visible>>
        /\ UNCHANGED <<out, outTo, reopen, fall, hls>>
        /\ switch = "closing" /\ switch' \in {"off", "opening"} /\ switchOk' = FALSE
        /\ sel' = sel \/ sel' = Other(sel)
        /\ known' = known \/ known' = FALSE
        /\ outOk' = outOk \/ outOk' = FALSE
        /\ opening' = opening \/ (opening' = "closing" /\ cur = None)
    BY <1>2 DEF SelectClosed, Openable, Busy
  <2>2. known' \in BOOLEAN /\ outOk' \in BOOLEAN /\ switchOk' \in BOOLEAN
    <3>1. known \in BOOLEAN /\ outOk \in BOOLEAN
      BY <1>0 DEF TaskTypes
    <3> QED BY <2>1, <3>1, Zenon
  <2>3. sel' \in Channels
    BY <1>0, <2>1 DEF TaskTypes, Other, Channels
  <2>4. TaskTypes'
    BY <1>0, <2>1, <2>2, <2>3 DEF TaskTypes
  <2>5. PressReady'
    BY <1>0, <2>1 DEF PressReady
  <2> QED BY <2>1, <2>4, <2>5, TaskStep
<1>3. CASE SelectEnds
  <2>1. /\ UNCHANGED <<sub, chan, link, page, released, cur, sel, known, visible>>
        /\ UNCHANGED <<opening, out, outTo, outOk, switchOk, reopen, fall, hls>>
        /\ switch' = "off"
    BY <1>3 DEF SelectEnds
  <2>2. TaskTypes'
    BY <1>0, <2>1 DEF TaskTypes
  <2>3. PressReady'
    BY <1>0, <2>1 DEF PressReady, Settled, AllReleased
  <2> QED BY <2>1, <2>2, <2>3, TaskStep
<1>4. ASSUME NEW ch \in Channels, OutputClicked(ch) PROVE WebStep
  <2>1. /\ out = "off" /\ switch = "off" /\ outTo' = ch
        /\ UNCHANGED <<sub, chan, sel, known, visible, switch, reopen>>
    BY <1>4 DEF OutputClicked
  <2>2. CASE ch # sel /\ Busy
    <3>1. out' = "closing" /\ Shut(Acknowledged, FALSE, "off")
      BY <1>4, <2>2 DEF OutputClicked
    <3>2. Acknowledged \in BOOLEAN
      BY Zenon DEF Acknowledged
    <3> QED BY <1>0, <2>1, <3>1, <3>2, ShutStep DEF TaskTypes
  <2>3. CASE ~(ch # sel /\ Busy)
    <3>1. /\ UNCHANGED <<link, page, released, cur, opening, switchOk, fall, hls>>
          /\ out' = "settle" /\ outOk' = TRUE
      BY <1>4, <2>3 DEF OutputClicked
    <3>2. outOk' \in BOOLEAN
      BY <3>1, Zenon
    <3>3. TaskTypes'
      BY <1>0, <2>1, <3>1, <3>2 DEF TaskTypes
    <3>4. PressReady'
      BY <1>0, <2>1, <2>3, <3>1 DEF PressReady, Busy
    <3> QED BY <2>1, <3>1, <3>3, <3>4, TaskStep
  <2> QED BY <2>2, <2>3
<1>5. CASE OutputContinues
  <2>1. /\ UNCHANGED <<sub, chan, link, page, released, cur, sel, known, visible>>
        /\ UNCHANGED <<opening, outTo, outOk, switch, switchOk, reopen, fall, hls>>
        /\ out = "closing" /\ Settled
        /\ out' = "off" \/ (out' = "settings" /\ AllReleased)
    BY <1>5 DEF OutputContinues
  <2>2. TaskTypes'
    BY <1>0, <2>1 DEF TaskTypes
  <2>3. PressReady'
    BY <1>0, <2>1 DEF PressReady, Settled, AllReleased
  <2> QED BY <2>1, <2>2, <2>3, TaskStep
<1>6. CASE OutputPresses \/ OutputEnds
  <2>1. /\ UNCHANGED <<sub, chan, link, page, released, cur, sel, known, visible>>
        /\ UNCHANGED <<opening, outTo, outOk, switch, switchOk, reopen, fall, hls>>
        /\ out' = "off" \/ (out' = "press" /\ out # "off")
    BY <1>6 DEF OutputPresses, OutputEnds
  <2>2. TaskTypes'
    BY <1>0, <2>1 DEF TaskTypes
  <2>3. PressReady'
    BY <1>0, <2>1 DEF PressReady
  <2> QED BY <2>1, <2>2, <2>3, TaskStep
<1> QED BY <1>1, <1>2, <1>3, <1>4, <1>5, <1>6

LEMMA CardStep ==
  ASSUME Web, cast = "card", cast' = cast, CardNext
  PROVE  WebStep
<1>1. Sessions \in SUBSET Sessions
  OBVIOUS
<1> QED BY <1>1, OpenStep, CloseStepOfCard, OutputStep, SocketStep, ReleaseStep DEF CardNext

-----------------------------------------------------------------------------
(* Readers of the local stream *)

\* What a step of a viewer does to the hub, and to the unload.
LEMMA HubMoves ==
  ASSUME RtcNext
  PROVE  /\ Stopped => Stopped'
         /\ \/ /\ UNCHANGED <<leases, joining>>
               /\ media' \in {"starting", "live"} => media \in {"starting", "live"}
            \/ \E s \in Sessions : Take(s, chan[s]) \/ GiveBack(s)
            \/ UNCHANGED leases /\ media' \in {"none", "zombie"}
<1>1. ASSUME NEW s \in Sessions, OfferNext(s)
      PROVE  /\ manager' = manager
             /\ UNCHANGED hubVars \/ Take(s, chan[s]) \/ GiveBack(s)
  BY <1>1 DEF OfferNext, Offered, Register, Describe, Acquire, Acquired, Answer, OfferFails,
       OfferGivesBack, Unwound, OfferEnds
<1>2. ASSUME NEW s \in Sessions, CleanupNext(s)
      PROVE  manager' = manager /\ (UNCHANGED hubVars \/ GiveBack(s))
  BY <1>2 DEF CleanupNext, CleanupCancels, CleanupCloses, CleanupEnds, OfferAbandoned,
       PeerGone, CloseStep, CloseMic, CloseJobs, CloseTalk, CloseLease
<1>3. CASE Join
  BY <1>3 DEF Join, Stopped
<1>4. CASE UnloadNext
  BY <1>4 DEF UnloadNext, Unload, UnloadCloses, UnloadEnds, Stopped
<1>5. CASE TalkNext
  BY <1>5, TalkKeeps, TalkMedia DEF Placed, Stopped
<1> QED BY <1>1, <1>2, <1>3, <1>4, <1>5, RtcCases DEF Stopped

\* A source runs for somebody: the last lease is given back with a join.
LEMMA SourceMoves ==
  ASSUME SourceLeased, NEW c \in Sessions \cup Readers, NEW ch,
         Take(c, ch) \/ GiveBack(c)
  PROVE  SourceLeased'
<1>1. CASE Take(c, ch)
  BY <1>1 DEF Take, SourceLeased
<1>2. CASE GiveBack(c)
  BY <1>2, RtcAssumption DEF GiveBack, Last, SourceLeased
<1> QED BY <1>1, <1>2

\* No viewer takes or returns the lease of a reader.
LEMMA ReadersApart ==
  ASSUME NEW c \in Sessions, NEW ch, Take(c, ch) \/ GiveBack(c), NEW r \in Readers
  PROVE  r \in leases' <=> r \in leases
  BY RtcAssumption DEF Take, GiveBack

\* A step of a viewer, with the source's decoder behind it.
LEMMA RtcStream ==
  ASSUME StreamIInv, RtcNext, SourceFollows
  PROVE  StreamIInv'
<1>0. StreamPlacesOK /\ ReaderLeases /\ EncoderServes /\ SourceLeased /\ Chain
  BY DEF StreamIInv
<1>1. /\ UNCHANGED <<reader, acq, queues, shut, frames, needKey, enc, muxing>>
      /\ \/ UNCHANGED <<decoding, tail>>
         \/ decoding' = FALSE /\ tail' = "missed"
  BY DEF SourceFollows
<1>2. StreamPlacesOK'
  <2>1. decoding' \in BOOLEAN
    <3>1. decoding \in BOOLEAN
      BY <1>0 DEF StreamPlacesOK
    <3> QED BY <1>1, <3>1, Zenon
  <2>2. tail' \in Places
    BY <1>0, <1>1 DEF StreamPlacesOK, Places
  <2> QED BY <1>0, <1>1, <2>1, <2>2 DEF StreamPlacesOK
<1>3. \A r \in Readers : r \in leases' <=> r \in leases
  BY HubMoves, ReadersApart
<1>4. ReaderLeases'
  BY <1>0, <1>1, <1>3 DEF ReaderLeases
<1>5. EncoderServes'
  BY <1>0, <1>1 DEF EncoderServes, PipelineLocked
<1>6. SourceLeased'
  <2>1. CASE /\ UNCHANGED <<leases, joining>>
             /\ media' \in {"starting", "live"} => media \in {"starting", "live"}
    BY <1>0, <2>1 DEF SourceLeased
  <2>2. CASE media' \in {"none", "zombie"}
    BY <2>2 DEF SourceLeased
  <2> QED BY <1>0, <2>1, <2>2, HubMoves, SourceMoves
<1>7. Chain'
  <2>1. Deaf => Deaf'
    BY <1>1, HubMoves DEF Deaf
  <2>2. (\A i \in DOMAIN frames' : Follows(frames[i])') /\ Follows(muxing)'
    BY <1>0, <1>1 DEF Chain, Follows
  <2>3. needKey' \/ Deaf' \/ (tail' # "dropped" /\ (decoding' => tail' # "missed"))
    BY <1>0, <1>1, <2>1 DEF Chain
  <2> QED BY <2>2, <2>3 DEF Chain
<1> QED BY <1>2, <1>4, <1>5, <1>6, <1>7 DEF StreamIInv

\* The readers that move nothing but themselves.
LEMMA StreamKeeps ==
  ASSUME StreamIInv, UNCHANGED <<reader, acq, queues, shut, frames, needKey, enc, muxing,
                                 decoding, tail, leases, joining, media, manager>>
  PROVE  StreamIInv'
<1>0. StreamPlacesOK /\ ReaderLeases /\ EncoderServes /\ SourceLeased /\ Chain
  BY DEF StreamIInv
<1>1. StreamPlacesOK'
  BY <1>0 DEF StreamPlacesOK
<1>2. ReaderLeases' /\ EncoderServes' /\ SourceLeased'
  BY <1>0 DEF ReaderLeases, EncoderServes, PipelineLocked, SourceLeased
<1>3. Chain'
  BY <1>0 DEF Chain, Follows, Deaf, Stopped
<1> QED BY <1>1, <1>2, <1>3 DEF StreamIInv

ReaderPcs == {"none", "header", "adding", "waiting", "body", "cleanup", "settle", "encoder", "lease",
              "leaving", "gone"}
AcqPcs == {"off", "lock", "ready", "held", "giveup", "giving", "ended"}

\* What one reader knows of its lease.
LeaseOf(r) ==
  /\ reader[r] \in {"none", "header"} => acq[r] = "off"
  /\ acq[r] = "off" => r \notin leases
  /\ reader[r] \in {"encoder", "lease"} => acq[r] \in {"held", "ended"}
  /\ reader[r] \in {"leaving", "gone"} => r \notin leases /\ acq[r] \in {"off", "held", "ended"}

\* A step of a reader keeps what it knows of its lease, and that of the others.
LEMMA ReaderKeepsLeases ==
  ASSUME StreamIInv, NEW t \in Readers, ReaderStep(t)
  PROVE  /\ reader' \in [Readers -> ReaderPcs] /\ acq' \in [Readers -> AcqPcs]
         /\ ReaderLeases'
<1>0. /\ reader \in [Readers -> ReaderPcs] /\ acq \in [Readers -> AcqPcs]
      /\ ReaderLeases
  BY DEF StreamIInv, StreamPlacesOK, ReaderPcs, AcqPcs
<1>1. CASE Connects(t) \/ Requests(t) \/ Breaks(t)
  <2>1. /\ leases' = leases
        /\ reader[t] \in {"none", "header", "adding", "waiting", "body"}
        /\ \E l \in {"header", "adding", "cleanup", "gone"} :
             /\ reader' = [reader EXCEPT ![t] = l]
             /\ l = "header" => acq' = acq /\ reader[t] = "none"
             /\ l = "gone" => acq' = acq /\ reader[t] \in {"none", "header"}
             /\ l \in {"adding", "cleanup"} => acq' = acq \/ acq' = [acq EXCEPT ![t] = "lock"]
    BY <1>1 DEF Connects, Requests, Breaks, Go, AcqGo
  <2> QED BY <1>0, <2>1 DEF ReaderLeases, ReaderPcs, AcqPcs
<1>2. CASE AddQueue(t) \/ Streams(t) \/ Writes(t)
  <2>1. /\ leases' = leases /\ acq' = acq
        /\ reader' = reader \/ \E l \in {"cleanup", "waiting", "body"} : reader' = [reader EXCEPT ![t] = l]
    BY <1>2 DEF AddQueue, Streams, Writes, Go
  <2> QED BY <1>0, <2>1 DEF ReaderLeases, ReaderPcs, AcqPcs
<1>3. CASE ReaderTakes(t)
  <2>1. /\ reader' = reader /\ acq[t] = "lock"
        /\ \/ acq' = [acq EXCEPT ![t] = "ended"] /\ leases' = leases
           \/ acq' = [acq EXCEPT ![t] = "ready"] /\ leases' = leases \cup {t}
    BY <1>3 DEF ReaderTakes, AcqGo, Take
  <2> QED BY <1>0, <2>1 DEF ReaderLeases, ReaderPcs, AcqPcs
<1>4. CASE ReaderReady(t) \/ ReaderGivesUp(t) \/ ReaderGivenUp(t)
  <2>1. /\ reader' = reader /\ acq[t] \in {"ready", "giveup", "giving"}
        /\ \E l \in {"held", "giveup", "giving", "ended"} : acq' = [acq EXCEPT ![t] = l]
        /\ leases' = leases \/ leases' = leases \ {t}
    BY <1>4 DEF ReaderReady, ReaderGivesUp, ReaderGivenUp, AcqGo, GiveBack
  <2> QED BY <1>0, <2>1 DEF ReaderLeases, ReaderPcs, AcqPcs
<1>5. CASE CancelsAcquisition(t)
  <2>1. /\ reader[t] = "cleanup" /\ reader' = [reader EXCEPT ![t] = "settle"] /\ leases' = leases
        /\ \E l \in AcqPcs : acq' = [acq EXCEPT ![t] = l] /\ (l = "off" => acq[t] = "off")
    BY <1>0, <1>5 DEF CancelsAcquisition, Go, AcqGo, AcqPcs
  <2> QED BY <1>0, <2>1 DEF ReaderLeases, ReaderPcs, AcqPcs
<1>6. CASE RemoveQueue(t) \/ EncoderJoined(t)
  <2>1. /\ leases' = leases /\ acq' = acq
        /\ acq[t] \in {"held", "ended"}
        /\ \E l \in {"encoder", "lease"} : reader' = [reader EXCEPT ![t] = l]
    BY <1>0, <1>6 DEF RemoveQueue, EncoderJoined, Go, ReaderLeases
  <2> QED BY <1>0, <2>1 DEF ReaderLeases, ReaderPcs, AcqPcs
<1>7. CASE ReaderReleases(t) \/ ReaderReleased(t)
  <2>1. /\ acq' = acq /\ reader[t] \in {"lease", "leaving"}
        /\ leases' = leases \ {t} \/ (leases' = leases /\ reader[t] = "leaving")
        /\ \E l \in {"leaving", "gone"} : reader' = [reader EXCEPT ![t] = l]
    BY <1>7 DEF ReaderReleases, ReaderReleased, Go, GiveBack
  <2> QED BY <1>0, <2>1 DEF ReaderLeases, ReaderPcs, AcqPcs
<1> QED BY <1>1, <1>2, <1>3, <1>4, <1>5, <1>6, <1>7 DEF ReaderStep

\* ... and the encoder serves the queues.
LEMMA ReaderKeepsEncoder ==
  ASSUME StreamIInv, NEW t \in Readers, ReaderStep(t)
  PROVE  EncoderServes' /\ queues' \subseteq Readers
         /\ enc' \in Serving \cup {"none", "ending", "done"}
<1>0. /\ reader \in [Readers -> ReaderPcs] /\ queues \subseteq Readers /\ EncoderServes
      /\ enc \in Serving \cup {"none", "ending", "done"}
  BY DEF StreamIInv, StreamPlacesOK, ReaderPcs
<1>1. CASE /\ UNCHANGED <<queues, enc>>
           /\ \A r \in Readers : reader'[r] = "encoder" <=> reader[r] = "encoder"
  BY <1>0, <1>1 DEF EncoderServes, PipelineLocked
<1>2. CASE Connects(t) \/ Requests(t) \/ Breaks(t) \/ Streams(t) \/ Writes(t)
  <2>1. /\ UNCHANGED <<queues, enc>> /\ reader[t] # "encoder"
        /\ reader' = reader \/ \E l \in ReaderPcs \ {"encoder"} : reader' = [reader EXCEPT ![t] = l]
    BY <1>0, <1>2 DEF Connects, Requests, Breaks, Streams, Writes, Go, ReaderPcs
  <2> QED BY <1>0, <1>1, <2>1
<1>3. CASE ReaderTakes(t) \/ ReaderReady(t) \/ ReaderGivesUp(t) \/ ReaderGivenUp(t)
  BY <1>1, <1>3 DEF ReaderTakes, ReaderReady, ReaderGivesUp, ReaderGivenUp
<1>4. CASE CancelsAcquisition(t) \/ ReaderReleases(t) \/ ReaderReleased(t)
  <2>1. /\ UNCHANGED <<queues, enc>> /\ reader[t] # "encoder"
        /\ \E l \in ReaderPcs \ {"encoder"} : reader' = [reader EXCEPT ![t] = l]
    BY <1>0, <1>4 DEF CancelsAcquisition, ReaderReleases, ReaderReleased, Go, ReaderPcs
  <2> QED BY <1>0, <1>1, <2>1
<1>5. CASE AddQueue(t)
  <2>1. /\ ~PipelineLocked
        /\ \E l \in {"cleanup", "waiting"} : reader' = [reader EXCEPT ![t] = l]
        /\ \/ UNCHANGED <<queues, enc>>
           \/ /\ queues' = queues \cup {t}
              /\ enc' = IF enc = "none" THEN "opening" ELSE enc
    BY <1>5 DEF AddQueue, Go
  <2>2. \A r \in Readers : reader'[r] # "encoder" /\ reader[r] # "encoder"
    BY <1>0, <2>1 DEF PipelineLocked
  <2> QED BY <1>0, <1>1, <2>1, <2>2 DEF EncoderServes, Serving
<1>6. CASE RemoveQueue(t)
  <2>1. /\ ~PipelineLocked /\ queues' = queues \ {t}
        /\ \/ /\ queues' = {} /\ enc # "none" /\ reader' = [reader EXCEPT ![t] = "encoder"]
              /\ enc' = IF enc \in Serving THEN "ending" ELSE enc
           \/ /\ queues' # {} \/ enc = "none"
              /\ reader' = [reader EXCEPT ![t] = "lease"] /\ enc' = enc
    BY <1>6 DEF RemoveQueue, Go
  <2>2. \A r \in Readers : reader[r] # "encoder"
    BY <2>1 DEF PipelineLocked
  <2>3. CASE reader' = [reader EXCEPT ![t] = "encoder"] /\ queues' = {} /\ enc # "none"
             /\ enc' = IF enc \in Serving THEN "ending" ELSE enc
    <3>1. \A r \in Readers : reader'[r] = "encoder" <=> r = t
      BY <1>0, <2>2, <2>3
    <3>2. enc' \in {"ending", "done"}
      BY <1>0, <2>3
    <3> QED BY <1>0, <2>1, <2>3, <3>1, <3>2 DEF EncoderServes, PipelineLocked
  <2>4. CASE reader' = [reader EXCEPT ![t] = "lease"] /\ enc' = enc /\ (queues' # {} \/ enc = "none")
    <3>1. \A r \in Readers : reader'[r] # "encoder"
      BY <1>0, <2>2, <2>4
    <3> QED BY <1>0, <2>1, <2>4, <3>1 DEF EncoderServes, PipelineLocked
  <2> QED BY <2>1, <2>3, <2>4
<1>7. CASE EncoderJoined(t)
  <2>1. /\ reader[t] = "encoder" /\ enc' = "none" /\ queues' = queues
        /\ reader' = [reader EXCEPT ![t] = "lease"]
    BY <1>7 DEF EncoderJoined, Go
  <2>2. queues = {} /\ \A q \in Readers : reader[q] = "encoder" => q = t
    BY <1>0, <2>1 DEF EncoderServes
  <2>3. \A r \in Readers : reader'[r] # "encoder"
    BY <1>0, <2>1, <2>2
  <2> QED BY <1>0, <2>1, <2>2, <2>3 DEF EncoderServes, PipelineLocked
<1> QED BY <1>2, <1>3, <1>4, <1>5, <1>6, <1>7 DEF ReaderStep

\* ... the source has somebody to run for, and the chain of pictures holds.
LEMMA ReaderKeepsChain ==
  ASSUME StreamIInv, NEW t \in Readers, ReaderStep(t)
  PROVE  /\ SourceLeased' /\ Chain'
         /\ frames' \in Seq(Packet) /\ needKey' \in BOOLEAN /\ tail' \in Places
         /\ UNCHANGED <<muxing, decoding>>
<1>0. /\ SourceLeased /\ Chain /\ EncoderServes
      /\ frames \in Seq(Packet) /\ needKey \in BOOLEAN /\ tail \in Places
  BY DEF StreamIInv, StreamPlacesOK
<1>1. SourceLeased'
  <2>1. CASE ReaderTakes(t) \/ ReaderGivesUp(t) \/ ReaderReleases(t)
    <3>1. UNCHANGED hubVars \/ Take(t, 1) \/ GiveBack(t)
      BY <2>1 DEF ReaderTakes, ReaderGivesUp, ReaderReleases
    <3>2. CASE UNCHANGED hubVars
      BY <1>0, <3>2 DEF SourceLeased
    <3> QED BY <1>0, <3>1, <3>2, SourceMoves
  <2>2. CASE ~(ReaderTakes(t) \/ ReaderGivesUp(t) \/ ReaderReleases(t))
    <3>1. UNCHANGED <<leases, joining, media>>
      BY <2>2 DEF ReaderStep, Connects, Requests, AddQueue, Streams, Writes, Breaks, ReaderReady,
         ReaderGivenUp, CancelsAcquisition, RemoveQueue, EncoderJoined, ReaderReleased
    <3> QED BY <1>0, <3>1 DEF SourceLeased
  <2> QED BY <2>1, <2>2
<1>2. UNCHANGED <<muxing, decoding, manager, shut>>
  BY DEF ReaderStep, Connects, Requests, AddQueue, Streams, Writes, Breaks, ReaderReady,
         ReaderGivenUp, CancelsAcquisition, RemoveQueue, EncoderJoined, ReaderReleased,
         ReaderTakes, ReaderGivesUp, ReaderReleases, hubKept, sourceVars, decoderVars
<1>3. CASE AddQueue(t)
  <2>1. /\ UNCHANGED <<frames, tail>>
        /\ \/ UNCHANGED <<queues, needKey>>
           \/ enc = "none" /\ needKey' = TRUE
           \/ ~PipelineLocked /\ shut = "open" /\ ~Stopped /\ enc # "none" /\ needKey' = needKey
    BY <1>3 DEF AddQueue, sourceVars
  <2>2. needKey' \in BOOLEAN
    BY <1>0, <2>1, Zenon
  <2>3. (\A i \in DOMAIN frames' : Follows(frames[i])') /\ Follows(muxing)'
    BY <1>0, <1>2, <2>1 DEF Chain, Follows
  <2>4. needKey' \/ Deaf' \/ (tail' # "dropped" /\ (decoding' => tail' # "missed"))
    <3>1. CASE UNCHANGED <<queues, needKey>>
      BY <1>0, <1>2, <2>1, <3>1 DEF Chain, Deaf, Stopped
    <3>2. CASE needKey' = TRUE
      BY <3>2
    <3>3. CASE ~PipelineLocked /\ shut = "open" /\ ~Stopped /\ enc # "none" /\ needKey' = needKey
      <4>1. ~Deaf
        BY <1>0, <3>3 DEF Deaf, EncoderServes
      <4> QED BY <1>0, <1>2, <2>1, <3>3, <4>1 DEF Chain
    <3> QED BY <2>1, <3>1, <3>2, <3>3
  <2>5. Chain'
    BY <2>3, <2>4 DEF Chain
  <2> QED BY <1>0, <1>1, <1>2, <2>1, <2>2, <2>5
<1>4. CASE EncoderJoined(t)
  <2>1. /\ reader[t] = "encoder" /\ frames' = <<>> /\ tail' = "dropped" /\ UNCHANGED <<needKey, queues>>
    BY <1>4 DEF EncoderJoined
  <2>2. Deaf'
    BY <1>0, <2>1 DEF EncoderServes, Deaf
  <2>3. Chain'
    BY <1>0, <1>2, <2>1, <2>2 DEF Chain, Follows
  <2>4. frames' \in Seq(Packet) /\ tail' \in Places
    BY <2>1 DEF Places
  <2> QED BY <1>0, <1>1, <1>2, <2>1, <2>3, <2>4
<1>5. CASE ~(AddQueue(t) \/ EncoderJoined(t))
  <2>1. /\ UNCHANGED <<frames, tail, needKey>>
        /\ queues' = queues \/ queues' = queues \ {t}
    BY <1>5 DEF ReaderStep, Connects, Requests, Streams, Writes, Breaks, ReaderReady,
         ReaderGivenUp, CancelsAcquisition, RemoveQueue, ReaderReleased,
         ReaderTakes, ReaderGivesUp, ReaderReleases, sourceVars
  <2>2. Deaf => Deaf'
    BY <1>2, <2>1 DEF Deaf, Stopped
  <2>3. Chain'
    BY <1>0, <1>2, <2>1, <2>2 DEF Chain, Follows
  <2> QED BY <1>0, <1>1, <1>2, <2>1, <2>3
<1> QED BY <1>3, <1>4, <1>5

LEMMA ReaderStream ==
  ASSUME StreamIInv, NEW t \in Readers, ReaderStep(t)
  PROVE  StreamIInv'
<1>0. StreamPlacesOK
  BY DEF StreamIInv
<1>1. StreamPlacesOK'
  BY <1>0, ReaderKeepsLeases, ReaderKeepsEncoder, ReaderKeepsChain
  DEF StreamPlacesOK, ReaderPcs, AcqPcs
<1> QED BY <1>1, ReaderKeepsLeases, ReaderKeepsEncoder, ReaderKeepsChain DEF StreamIInv

\* close_clients and close send every reader to its cleanup.
LEMMA ShutStream ==
  ASSUME StreamIInv, StreamShuts \/ StreamShut
  PROVE  StreamIInv'
<1>0. /\ reader \in [Readers -> ReaderPcs]
      /\ StreamPlacesOK /\ ReaderLeases /\ EncoderServes /\ SourceLeased /\ Chain
  BY DEF StreamIInv, StreamPlacesOK, ReaderPcs
<1>1. /\ UNCHANGED <<leases, joining, media, manager, acq, queues, frames, needKey, enc, muxing,
                     tail, decoding>>
      /\ shut \in {"closing", "closed"} => shut' \in {"closing", "closed"}
  BY DEF StreamShuts, StreamShut, hubKept, sourceVars
<1>2. \A r \in Readers :
        /\ reader'[r] = CASE reader[r] \in {"adding", "waiting", "body"} -> "cleanup"
                          [] reader[r] = "header" -> "gone"
                          [] OTHER -> reader[r]
        \/ reader'[r] = reader[r]
  BY DEF StreamShuts, StreamShut
<1>3. reader' \in [Readers -> ReaderPcs]
  BY <1>0 DEF StreamShuts, StreamShut, ReaderPcs
<1>4. StreamPlacesOK'
  BY <1>0, <1>1, <1>3 DEF StreamPlacesOK, ReaderPcs
<1>5. ReaderLeases'
  BY <1>0, <1>1, <1>2 DEF ReaderLeases
<1>6. EncoderServes'
  <2>1. \A r \in Readers : reader'[r] = "encoder" <=> reader[r] = "encoder"
    BY <1>2
  <2> QED BY <1>0, <1>1, <2>1 DEF EncoderServes, PipelineLocked
<1>7. SourceLeased' /\ Chain'
  BY <1>0, <1>1 DEF SourceLeased, Chain, Follows, Deaf, Stopped
<1> QED BY <1>4, <1>5, <1>6, <1>7 DEF StreamIInv

\* A packet is queued only behind the one it depends on.
LEMMA PacketStream ==
  ASSUME StreamIInv, NEW key \in BOOLEAN, NEW large \in BOOLEAN, PacketArrives(key, large)
  PROVE  StreamIInv'
<1>0. StreamPlacesOK /\ ReaderLeases /\ EncoderServes /\ SourceLeased /\ Chain
  BY DEF StreamIInv
<1>1. /\ UNCHANGED <<leases, joining, media, manager, reader, acq, queues, shut, enc, muxing>>
      /\ media = "live" /\ joining = None
      /\ decoding' = (decoding \/ key)
  BY DEF PacketArrives, Delivers, hubKept
<1>2. decoding' \in BOOLEAN
  <2>1. decoding \in BOOLEAN
    BY <1>0 DEF StreamPlacesOK
  <2> QED BY <1>1, <2>1, Zenon
<1>3. Follows(muxing)'
  BY <1>0, <1>1 DEF Chain, Follows
<1>4. /\ frames' \in Seq(Packet) /\ needKey' \in BOOLEAN /\ tail' \in Places
      /\ \A i \in DOMAIN frames' : Follows(frames'[i])
      /\ needKey' \/ Deaf' \/ (tail' # "dropped" /\ (decoding' => tail' # "missed"))
  <2>0. /\ frames \in Seq(Packet) /\ needKey \in BOOLEAN /\ tail \in Places
        /\ \A i \in DOMAIN frames : Follows(frames[i])
        /\ needKey \/ Deaf \/ (tail # "dropped" /\ (decoding => tail # "missed"))
    BY <1>0 DEF StreamPlacesOK, Chain
  <2>1. CASE ~(Listened /\ ~large)
    <3>1. /\ UNCHANGED <<frames, needKey>>
          /\ tail' = IF Listened THEN "large" ELSE "missed"
      BY <2>1 DEF PacketArrives
    <3>2. Listened \/ Deaf'
      BY <1>0, <1>1 DEF Listened, Deaf, Stopped, SourceLeased
    <3> QED BY <2>0, <3>1, <3>2 DEF Places
  <2>2. CASE Listened /\ ~large
    <3> DEFINE full == Len(frames) >= MaxFrames
               new == [key |-> key, taken |-> decoding', after |-> IF full THEN "dropped" ELSE tail]
    <3>0. Handed(key, decoding')
      BY <2>2 DEF PacketArrives
    <3>1. Kept \in Seq(Packet) /\ \A i \in DOMAIN Kept : Follows(Kept[i])
      BY <2>0 DEF Kept
    <3>2. CASE (needKey \/ full) /\ ~key
      <4>1. frames' = Kept /\ needKey' = TRUE /\ tail' = "dropped"
        BY <3>0, <3>2 DEF Handed
      <4> QED BY <3>1, <4>1 DEF Places
    <3>3. CASE ~((needKey \/ full) /\ ~key)
      <4>1. frames' = Append(Kept, new) /\ needKey' = FALSE /\ tail' = "here"
        BY <3>0, <3>3 DEF Handed
      <4>2. new \in Packet
        BY <1>2, <2>0 DEF Packet, Places
      <4>3. Follows(new)
        <5>1. CASE key
          BY <5>1 DEF Follows
        <5>2. CASE ~key
          <6>1. ~needKey /\ ~full /\ ~Deaf /\ decoding' = decoding
            <7>1. ~needKey /\ ~full /\ ~Deaf
              BY <2>2, <3>3, <5>2 DEF Listened, Deaf
            <7>2. decoding \in BOOLEAN
              BY <1>0 DEF StreamPlacesOK
            <7>3. decoding' = decoding
              BY <1>1, <5>2, <7>2, Zenon
            <7> QED BY <7>1, <7>3
          <6>2. tail # "dropped" /\ (decoding' => tail # "missed")
            BY <2>0, <6>1
          <6> QED BY <6>1, <6>2 DEF Follows
        <5> QED BY <5>1, <5>2
      <4> HIDE DEF new
      <4>4. frames' \in Seq(Packet) /\ \A i \in DOMAIN frames' : Follows(frames'[i])
        BY <3>1, <4>1, <4>2, <4>3
      <4> QED BY <4>1, <4>4 DEF Places
    <3> QED BY <3>2, <3>3
  <2> QED BY <2>1, <2>2
<1>5. Chain'
  BY <1>3, <1>4 DEF Chain, Follows
<1>6. StreamPlacesOK'
  BY <1>0, <1>1, <1>2, <1>4 DEF StreamPlacesOK
<1>7. ReaderLeases' /\ EncoderServes' /\ SourceLeased'
  BY <1>0, <1>1 DEF ReaderLeases, EncoderServes, PipelineLocked, SourceLeased
<1> QED BY <1>5, <1>6, <1>7 DEF StreamIInv

LEMMA RejectedStream ==
  ASSUME StreamIInv, PacketRejected
  PROVE  StreamIInv'
<1>0. StreamPlacesOK /\ ReaderLeases /\ EncoderServes /\ SourceLeased /\ Chain
  BY DEF StreamIInv
<1>1. /\ UNCHANGED <<leases, joining, manager, reader, acq, queues, shut, frames, needKey, enc, muxing>>
      /\ decoding' = FALSE /\ tail' = "missed" /\ media' \in {media, "none"}
  BY DEF PacketRejected
<1>2. decoding' \in BOOLEAN
  BY <1>1, Zenon
<1>3. StreamPlacesOK'
  BY <1>0, <1>1, <1>2 DEF StreamPlacesOK, Places
<1>4. ReaderLeases' /\ EncoderServes' /\ SourceLeased'
  BY <1>0, <1>1 DEF ReaderLeases, EncoderServes, PipelineLocked, SourceLeased
<1>5. Chain'
  BY <1>0, <1>1 DEF Chain, Follows
<1> QED BY <1>3, <1>4, <1>5 DEF StreamIInv

\* The encoder takes the packets in their order, or starts again at a keyframe.
LEMMA EncoderStream ==
  ASSUME StreamIInv, EncoderOpens \/ Muxes \/ DropsLate \/ Publishes \/ EncoderFails \/ EncoderEnds
  PROVE  StreamIInv'
<1>0. StreamPlacesOK /\ ReaderLeases /\ EncoderServes /\ SourceLeased /\ Chain
  BY DEF StreamIInv
<1>1. /\ UNCHANGED <<leases, joining, media, manager, reader, acq, queues, shut, decoding>>
      /\ \/ enc' = enc
         \/ enc \in {"opening", "idle", "work"} /\ enc' \in {"idle", "work", "ending"}
         \/ enc = "ending" /\ enc' = "done"
  BY DEF EncoderOpens, Muxes, DropsLate, Publishes, EncoderFails, EncoderEnds, hubKept, sourceVars,
         decoderVars
<1>2. EncoderServes'
  BY <1>0, <1>1 DEF EncoderServes, PipelineLocked
<1>3. ReaderLeases' /\ SourceLeased'
  BY <1>0, <1>1 DEF ReaderLeases, SourceLeased
<1>4. /\ frames \in Seq(Packet) /\ muxing \in Packet /\ needKey \in BOOLEAN /\ tail \in Places
      /\ \A i \in DOMAIN frames : Follows(frames[i])
      /\ Follows(muxing)
      /\ needKey \/ Deaf \/ (tail # "dropped" /\ (decoding => tail # "missed"))
  BY <1>0 DEF StreamPlacesOK, Chain
<1>5. /\ frames' \in Seq(Packet) /\ muxing' \in Packet /\ needKey' \in BOOLEAN /\ tail' \in Places
      /\ \A i \in DOMAIN frames' : Follows(frames'[i])
      /\ Follows(muxing')
      /\ needKey' \/ Deaf \/ (tail' # "dropped" /\ (decoding => tail' # "missed"))
  <2>0. NoPacket \in Packet /\ Follows(NoPacket)
    BY DEF NoPacket, Packet, Places, Follows
  <2>1. CASE EncoderOpens \/ Publishes \/ EncoderFails \/ EncoderEnds
    <3>1. muxing' \in {muxing, NoPacket} /\ UNCHANGED <<frames, needKey, tail>>
      BY <2>1 DEF EncoderOpens, Publishes, EncoderFails, EncoderEnds, sourceVars
    <3> QED BY <1>4, <2>0, <3>1
  <2>2. CASE Muxes
    <3>1. frames # <<>> /\ muxing' = Head(frames) /\ frames' = Tail(frames) /\ UNCHANGED <<needKey, tail>>
      BY <2>2 DEF Muxes, sourceVars
    <3>2. Head(frames) \in Packet /\ Follows(Head(frames)) /\ Tail(frames) \in Seq(Packet)
      BY <1>4, <3>1
    <3>3. \A i \in DOMAIN Tail(frames) : Follows(Tail(frames)[i])
      BY <1>4, <3>1
    <3> QED BY <1>4, <3>1, <3>2, <3>3
  <2>3. CASE DropsLate
    <3>1. /\ frames' = <<>> /\ needKey' = TRUE /\ tail' = "dropped" /\ muxing' = muxing
      BY <2>3 DEF DropsLate
    <3> QED BY <1>4, <3>1 DEF Places
  <2> QED BY <2>1, <2>2, <2>3
<1>6. Chain'
  BY <1>1, <1>5 DEF Chain, Follows, Deaf, Stopped
<1>7. StreamPlacesOK'
  BY <1>0, <1>1, <1>5 DEF StreamPlacesOK, Serving
<1> QED BY <1>2, <1>3, <1>6, <1>7 DEF StreamIInv

LEMMA StreamStep ==
  ASSUME StreamIInv, StreamNext
  PROVE  StreamIInv'
  BY ReaderStream, ShutStream, PacketStream, RejectedStream, EncoderStream DEF StreamNext

-----------------------------------------------------------------------------
(* Pictures of a V1 or Connect 2 *)

Receivers == [on: BOOLEAN, meta: Metadata, last: {NoNumber} \cup 0..MaxPictures, awaiting: BOOLEAN]
Pipelines == [on: BOOLEAN, started: BOOLEAN, waiting: BOOLEAN, sets: BOOLEAN, primed: BOOLEAN]
Shown == [type: {"none", "idr", "intra", "p"}, told: BOOLEAN,
          after: {"missed", "skipped", "rejected", "muxed"}]
Forms == {"none", "short", "full", "bad"}

LEMMA PicturesTypes ==
  PicturesTypeOK <=>
    /\ login \in BOOLEAN /\ counted \in BOOLEAN
    /\ receiver \in Receivers /\ pipeline \in Pipelines
    /\ number \in 0..MaxPictures + 1
    /\ newest \in {"missed", "skipped", "rejected", "muxed"} /\ shown \in Shown
  BY DEF PicturesTypeOK, Receivers, Pipelines, Shown

LEMMA BeginningTypes ==
  /\ NoReceiver \in Receivers /\ NewReceiver \in Receivers
  /\ NoReceiver.last = NoNumber /\ NewReceiver.last = NoNumber
  /\ NoPipeline \in Pipelines /\ NewPipeline \in Pipelines /\ NoPicture \in Shown
  /\ ~NoPipeline.started /\ ~NewPipeline.started
  /\ ~NoPipeline.primed /\ ~NewPipeline.primed
  /\ NoPicture.type = "none"
  BY DEF NoReceiver, NewReceiver, NoPipeline, NewPipeline, NoPicture, Receivers, Pipelines, Shown,
     NoNumber, Metadata

\* What metadata and a refused picture do to the receiver.
LEMMA NotedKeeps ==
  ASSUME NEW r \in Receivers, NEW form \in Forms
  PROVE  /\ Noted(r, form) \in Receivers /\ Rejected(r) \in Receivers
         /\ Noted(r, form).last = r.last /\ Rejected(r).last = r.last
         /\ Noted(r, form).on = r.on /\ Rejected(r).on = r.on
         /\ Rejected(r).awaiting /\ (r.awaiting => Noted(r, form).awaiting)
  BY DEF Noted, Rejected, Receivers, Forms, Metadata

LEMMA AcceptedKeeps ==
  ASSUME NEW r \in Receivers, Sequence \in 0..MaxPictures
  PROVE  /\ Accepted(r) \in Receivers
         /\ Accepted(r).on = r.on
         /\ Accepted(r).last = r.last \/ Accepted(r).last = Sequence
  BY DEF Accepted, Receivers, Metadata

\* What the decoder does with a picture.
LEMMA FedMoves ==
  ASSUME pipeline \in Pipelines, newest \in {"missed", "skipped", "rejected", "muxed"},
         shown \in Shown, receiver \in Receivers,
         pipeline.primed => pipeline.sets, IdrSuffices,
         NEW r, NEW pic \in Picture, Fed(r, pic)
  PROVE  /\ pipeline' \in Pipelines /\ newest' \in {"rejected", "muxed"} /\ shown' \in Shown
         /\ pipeline'.on = pipeline.on
         /\ pipeline'.primed => pipeline'.sets
         /\ pipeline'.started => pipeline'.sets
         /\ newest' = "rejected" => pipeline'.waiting \/ ~pipeline'.started
         /\ \/ shown' = shown
            \/ /\ pic.type = "p" => pipeline.started /\ ~pipeline.waiting
               /\ shown'.type = pic.type /\ shown'.after = newest
               /\ shown'.told => receiver.on /\ Numbered(r)
<1>1. CASE /\ Usable(pipeline, pic) /\ Prepared(pipeline, pic)
           /\ pipeline' = Decoded(pipeline, pic)
           /\ shown' = [type |-> pic.type, after |-> newest, told |-> receiver.on /\ Numbered(r)]
           /\ newest' = "muxed"
  <2>0. (receiver.on /\ Numbered(r)) \in BOOLEAN
    BY ZenonT(20) DEF Numbered
  <2>1. /\ pipeline' \in Pipelines /\ pipeline'.on = pipeline.on
        /\ pipeline'.sets = (pipeline.sets \/ pic.sets)
    BY <1>1 DEF Decoded, Pipelines, Picture
  <2>2. pipeline.sets \/ pic.sets
    BY <1>1 DEF Prepared, Pipelines, Picture
  <2>3. pic.type = "p" => pipeline.started /\ ~pipeline.waiting
    BY <1>1 DEF Usable
  <2> DEFINE tells == receiver.on /\ Numbered(r)
  <2>4. tells \in BOOLEAN /\ shown' = [type |-> pic.type, after |-> newest, told |-> tells]
    BY <1>1, <2>0
  <2>5. tells => receiver.on /\ Numbered(r)
    OBVIOUS
  <2> HIDE DEF tells
  <2>6. shown' \in Shown /\ shown'.type = pic.type /\ shown'.after = newest /\ shown'.told = tells
    BY <2>4 DEF Shown, Picture
  <2> QED BY <1>1, <2>1, <2>2, <2>3, <2>5, <2>6
<1>2. CASE pipeline' = ResetDecoder(pipeline) /\ newest' = "rejected" /\ UNCHANGED shown
  BY <1>2 DEF ResetDecoder, Pipelines, IdrSuffices
<1>3. CASE ~Usable(pipeline, pic) /\ newest' = "rejected" /\ UNCHANGED <<pipeline, shown>>
  BY <1>3 DEF Usable, IdrSuffices, Pipelines
<1> QED BY <1>1, <1>2, <1>3 DEF Fed

PicturesKnown ==
  /\ login \in BOOLEAN /\ counted \in BOOLEAN
  /\ receiver \in Receivers /\ pipeline \in Pipelines
  /\ number \in 0..MaxPictures + 1
  /\ newest \in {"missed", "skipped", "rejected", "muxed"} /\ shown \in Shown
  /\ Missing /\ DependsOnShown /\ IdrSuffices

\* A picture in a packet is accepted and decoded, or blocks those after it.
LEMMA PictureStep ==
  ASSUME PicturesIInv, NEW form \in Forms, NEW exact \in BOOLEAN, NEW pic \in Picture,
         PictureArrives(form, exact, pic)
  PROVE  PicturesIInv'
<1>0. PicturesKnown
  BY PicturesTypes DEF PicturesIInv, PicturesKnown
<1> DEFINE r == Noted(receiver, form)
<1>1. /\ login /\ number \in 0..MaxPictures /\ number' = number + 1
      /\ UNCHANGED <<login, counted>>
  BY <1>0, PicturesAssumption DEF PictureArrives, Counts, PicturesKnown
<1>2. /\ r \in Receivers /\ Rejected(r) \in Receivers
      /\ r.last = receiver.last /\ Rejected(r).last = receiver.last
      /\ r.on = receiver.on /\ Rejected(r).on = receiver.on
      /\ Rejected(r).awaiting /\ (receiver.awaiting => r.awaiting)
  <2>1. /\ r \in Receivers /\ r.last = receiver.last /\ r.on = receiver.on
        /\ receiver.awaiting => r.awaiting
    BY <1>0, NotedKeeps DEF PicturesKnown
  <2> QED BY <2>1, NotedKeeps
<1>3. Sequence \in 0..MaxPictures /\ (Sequence # 0 => counted /\ Sequence = number)
  BY <1>1, PicturesAssumption DEF Sequence
<1>4. number' \in 0..MaxPictures + 1
  BY <1>1, PicturesAssumption
<1>m. /\ newest \in {"missed", "rejected"} => Blocked
      /\ receiver.last \notin {NoNumber, 0} =>
           /\ counted /\ receiver.last < number
           /\ newest = "skipped" => receiver.last + 1 < number
      /\ ~login \/ ~pipeline.on => ~pipeline.started
      /\ pipeline.primed => pipeline.sets
      /\ receiver.last \in {NoNumber} \cup 0..MaxPictures
  BY <1>0 DEF PicturesKnown, Missing, Receivers
<1>5. CASE ~pipeline.on /\ newest' = "missed" /\ UNCHANGED <<receiver, pipeline, shown>>
  <2>1. Blocked'
    BY <1>m, <1>5 DEF Blocked
  <2>2. receiver'.last \notin {NoNumber, 0} => counted' /\ receiver'.last < number'
    BY <1>1, <1>m, <1>5 DEF NoNumber
  <2>3. Missing' /\ DependsOnShown' /\ IdrSuffices'
    BY <1>0, <1>1, <1>m, <1>5, <2>1, <2>2 DEF Missing, PicturesKnown, DependsOnShown, IdrSuffices
  <2>4. PicturesTypeOK'
    BY <1>0, <1>1, <1>4, <1>5, PicturesTypes DEF PicturesTypeOK, PicturesKnown
  <2> QED BY <2>3, <2>4 DEF PicturesIInv
<1>6. CASE /\ pipeline.on /\ receiver.on /\ ~Accepts(r, pic)
           /\ receiver' = Rejected(r) /\ newest' = "rejected" /\ UNCHANGED <<pipeline, shown>>
  <2>1. Blocked'
    BY <1>2, <1>6 DEF Blocked
  <2>2. receiver'.last \notin {NoNumber, 0} => counted' /\ receiver'.last < number'
    BY <1>1, <1>2, <1>m, <1>6 DEF NoNumber
  <2>3. Missing' /\ DependsOnShown' /\ IdrSuffices'
    BY <1>0, <1>1, <1>m, <1>6, <2>1, <2>2 DEF Missing, PicturesKnown, DependsOnShown, IdrSuffices
  <2>4. receiver' \in Receivers
    BY <1>2, <1>6
  <2>5. PicturesTypeOK'
    BY <1>0, <1>1, <1>4, <1>6, <2>4 DEF PicturesTypeOK, PicturesKnown, Receivers, Pipelines, Shown
  <2> QED BY <2>3, <2>5 DEF PicturesIInv
<1>7. CASE /\ pipeline.on /\ Fed(r, pic)
           /\ \/ receiver.on /\ Accepts(r, pic) /\ receiver' = Accepted(r)
              \/ ~receiver.on /\ receiver' = receiver
  <2>1. /\ pipeline' \in Pipelines /\ newest' \in {"rejected", "muxed"} /\ shown' \in Shown
        /\ pipeline'.on = pipeline.on
        /\ pipeline'.primed => pipeline'.sets
        /\ pipeline'.started => pipeline'.sets
        /\ newest' = "rejected" => pipeline'.waiting \/ ~pipeline'.started
        /\ \/ shown' = shown
           \/ /\ pic.type = "p" => pipeline.started /\ ~pipeline.waiting
              /\ shown'.type = pic.type /\ shown'.after = newest
              /\ shown'.told => receiver.on /\ Numbered(r)
    <3> HIDE DEF r
    <3> QED BY <1>0, <1>m, <1>7, FedMoves DEF PicturesKnown
  <2>2. /\ receiver' \in Receivers /\ receiver'.last \in {receiver.last, Sequence}
    <3>1. Accepted(r) \in Receivers /\ (Accepted(r).last = r.last \/ Accepted(r).last = Sequence)
      <4> HIDE DEF r
      <4> QED BY <1>2, <1>3, AcceptedKeeps
    <3> HIDE DEF r
    <3> QED BY <1>0, <1>2, <1>7, <3>1 DEF PicturesKnown
  <2>3. receiver'.last \notin {NoNumber, 0} => counted' /\ receiver'.last < number'
    BY <1>1, <1>3, <1>m, <2>2 DEF NoNumber
  <2>4. Missing'
    BY <1>1, <1>7, <2>1, <2>3 DEF Missing, Blocked
  <2>5. IdrSuffices'
    BY <2>1 DEF IdrSuffices
  <2>6. DependsOnShown'
    <3>1. CASE shown' = shown
      BY <1>0, <3>1 DEF PicturesKnown, DependsOnShown
    <3>2. CASE /\ pic.type = "p" => pipeline.started /\ ~pipeline.waiting
               /\ shown'.type = pic.type /\ shown'.after = newest
               /\ shown'.told => receiver.on /\ Numbered(r)
      <4> SUFFICES ASSUME pic.type = "p"
                   PROVE  newest = "muxed" \/ (newest = "skipped" /\ ~shown'.told)
        BY <3>2 DEF DependsOnShown
      <4>1. pipeline.started /\ ~pipeline.waiting
        BY <3>2
      <4>2. receiver.on => ~r.awaiting /\ (Numbered(r) => Sequence = r.last + 1)
        BY <1>7 DEF Accepts
      <4>3. ~Blocked
        BY <1>2, <4>1, <4>2 DEF Blocked
      <4>4. newest \in {"muxed", "skipped"}
        BY <1>0, <1>m, <4>3 DEF PicturesKnown
      <4>5. ASSUME newest = "skipped", shown'.told PROVE FALSE
        <5>1. receiver.on /\ Numbered(r) /\ Sequence = receiver.last + 1
          BY <1>2, <3>2, <4>2, <4>5
        <5>2. receiver.last \notin {NoNumber, 0}
          BY <1>2, <5>1 DEF Numbered
        <5>3. counted /\ receiver.last + 1 < number /\ receiver.last \in 0..MaxPictures
          BY <1>m, <4>5, <5>2
        <5>4. Sequence = number
          BY <5>3 DEF Sequence
        <5> QED BY <1>1, <5>1, <5>3, <5>4
      <4> QED BY <4>4, <4>5
    <3> QED BY <2>1, <3>1, <3>2
  <2>7. PicturesTypeOK'
    BY <1>0, <1>1, <1>4, <2>1, <2>2 DEF PicturesTypeOK, PicturesKnown, Receivers, Pipelines, Shown
  <2> QED BY <2>4, <2>5, <2>6, <2>7 DEF PicturesIInv
<1> QED BY <1>5, <1>6, <1>7 DEF PictureArrives, Received

LEMMA PicturesStep ==
  ASSUME PicturesIInv, PicturesNext
  PROVE  PicturesIInv'
<1>0. PicturesKnown
  BY PicturesTypes DEF PicturesIInv, PicturesKnown
<1>m. /\ newest \in {"missed", "rejected"} => Blocked
      /\ receiver.last \notin {NoNumber, 0} =>
           /\ counted /\ receiver.last < number
           /\ newest = "skipped" => receiver.last + 1 < number
      /\ ~login \/ ~pipeline.on => ~pipeline.started
      /\ pipeline.primed => pipeline.sets
      /\ receiver.last \in {NoNumber} \cup 0..MaxPictures
  BY <1>0 DEF PicturesKnown, Missing, Receivers
<1>1. CASE LogsIn
  <2>1. /\ ~login /\ login' = TRUE /\ receiver' \in Receivers /\ receiver'.last = NoNumber
        /\ number' \in {0, 1} /\ counted' \in BOOLEAN /\ UNCHANGED <<pipeline, newest, shown>>
    BY <1>1, BeginningTypes DEF LogsIn
  <2>2. login' \in BOOLEAN
    BY <2>1, Zenon
  <2>3. number' \in 0..MaxPictures + 1
    BY <2>1, PicturesAssumption
  <2>4. PicturesTypeOK'
    BY <1>0, <2>1, <2>2, <2>3 DEF PicturesTypeOK, PicturesKnown, Receivers, Pipelines, Shown
  <2>5. Missing' /\ DependsOnShown' /\ IdrSuffices'
    BY <1>0, <1>m, <2>1 DEF Missing, Blocked, PicturesKnown, DependsOnShown, IdrSuffices
  <2> QED BY <2>4, <2>5 DEF PicturesIInv
<1>2. CASE FormatArrives
  <2>1. /\ receiver' \in {receiver, NewReceiver} /\ pipeline' = NewPipeline /\ newest' = "missed"
        /\ shown' = NoPicture /\ UNCHANGED <<login, number, counted>>
    BY <1>2 DEF FormatArrives
  <2>2. /\ receiver' \in Receivers /\ receiver'.last \in {NoNumber, receiver.last}
        /\ pipeline' \in Pipelines /\ ~pipeline'.started /\ ~pipeline'.primed
        /\ shown' \in Shown /\ shown'.type = "none"
    BY <1>0, <2>1, BeginningTypes DEF PicturesKnown
  <2>3. PicturesTypeOK'
    BY <1>0, <2>1, <2>2 DEF PicturesTypeOK, PicturesKnown, Receivers, Pipelines, Shown
  <2>4. Missing' /\ DependsOnShown' /\ IdrSuffices'
    BY <1>m, <2>1, <2>2 DEF Missing, Blocked, DependsOnShown, IdrSuffices
  <2> QED BY <2>3, <2>4 DEF PicturesIInv
<1>3. CASE SessionOver
  <2>1. /\ receiver' = NoReceiver /\ pipeline' = NoPipeline /\ newest' = "missed"
        /\ shown' = NoPicture /\ login' = FALSE /\ number' = 0 /\ counted' = FALSE
    BY <1>3 DEF SessionOver
  <2>2. /\ receiver' \in Receivers /\ receiver'.last = NoNumber
        /\ pipeline' \in Pipelines /\ ~pipeline'.started /\ ~pipeline'.primed
        /\ shown' \in Shown /\ shown'.type = "none"
    BY <2>1, BeginningTypes
  <2>3. login' \in BOOLEAN /\ counted' \in BOOLEAN
    BY <2>1, Zenon
  <2>4. number' \in 0..MaxPictures + 1
    BY <2>1, PicturesAssumption
  <2>5. PicturesTypeOK'
    BY <2>1, <2>2, <2>3, <2>4 DEF PicturesTypeOK, Receivers, Pipelines, Shown
  <2>6. Missing' /\ DependsOnShown' /\ IdrSuffices'
    BY <2>1, <2>2 DEF Missing, Blocked, DependsOnShown, IdrSuffices
  <2> QED BY <2>5, <2>6 DEF PicturesIInv
<1>4. ASSUME NEW form \in {"short", "full", "bad"}, MetadataArrives(form) PROVE PicturesIInv'
  <2>1. receiver' = Noted(receiver, form) /\ UNCHANGED <<login, pipeline, number, counted, newest, shown>>
    BY <1>4 DEF MetadataArrives
  <2>2. /\ receiver' \in Receivers /\ receiver'.last = receiver.last /\ receiver'.on = receiver.on
        /\ receiver.awaiting => receiver'.awaiting
    BY <1>0, <2>1, NotedKeeps DEF PicturesKnown, Forms
  <2>3. PicturesTypeOK'
    BY <1>0, <2>1, <2>2 DEF PicturesTypeOK, PicturesKnown, Receivers, Pipelines, Shown
  <2>4. Missing' /\ DependsOnShown' /\ IdrSuffices'
    BY <1>0, <1>m, <2>1, <2>2 DEF PicturesKnown, Missing, Blocked, DependsOnShown, IdrSuffices
  <2> QED BY <2>3, <2>4 DEF PicturesIInv
<1>5. CASE MetadataExpires
  <2>1. /\ receiver' = [receiver EXCEPT !.meta = "none"]
        /\ UNCHANGED <<login, pipeline, number, counted, newest, shown>>
    BY <1>5 DEF MetadataExpires
  <2>2. /\ receiver' \in Receivers /\ receiver'.last = receiver.last /\ receiver'.on = receiver.on
        /\ receiver'.awaiting = receiver.awaiting
    BY <1>0, <2>1 DEF PicturesKnown, Receivers, Metadata
  <2>3. PicturesTypeOK'
    BY <1>0, <2>1, <2>2 DEF PicturesTypeOK, PicturesKnown, Receivers, Pipelines, Shown
  <2>4. Missing' /\ DependsOnShown' /\ IdrSuffices'
    BY <1>0, <1>m, <2>1, <2>2 DEF PicturesKnown, Missing, Blocked, DependsOnShown, IdrSuffices
  <2> QED BY <2>3, <2>4 DEF PicturesIInv
<1>6. CASE Skips \/ FragmentArrives
  <2>1. /\ number \in 0..MaxPictures /\ number' = number + 1
        /\ UNCHANGED <<login, counted, pipeline, shown>>
        /\ \/ receiver' = receiver /\ newest' = "skipped"
           \/ receiver.on /\ receiver' = Rejected(receiver) /\ newest' = "rejected"
    BY <1>0, <1>6, PicturesAssumption DEF Skips, FragmentArrives, Counts, PicturesKnown
  <2>2. /\ Rejected(receiver) \in Receivers /\ Rejected(receiver).last = receiver.last
        /\ Rejected(receiver).on = receiver.on /\ Rejected(receiver).awaiting
    BY <1>0, NotedKeeps DEF PicturesKnown, Forms
  <2>3. receiver' \in Receivers /\ receiver'.last = receiver.last
    BY <1>0, <2>1, <2>2 DEF PicturesKnown
  <2>4. number' \in 0..MaxPictures + 1
    BY <2>1, PicturesAssumption
  <2>5. PicturesTypeOK'
    BY <1>0, <2>1, <2>3, <2>4 DEF PicturesTypeOK, PicturesKnown, Receivers, Pipelines, Shown
  <2>6. newest' \in {"missed", "rejected"} => Blocked'
    BY <2>1, <2>2 DEF Blocked
  <2>7. receiver'.last \notin {NoNumber, 0} => counted' /\ receiver'.last + 1 < number'
    BY <1>m, <2>1, <2>3 DEF NoNumber
  <2>8. Missing' /\ DependsOnShown' /\ IdrSuffices'
    <3>1. receiver'.last \notin {NoNumber, 0} => receiver'.last < number'
      BY <1>m, <2>1, <2>3 DEF NoNumber
    <3> QED BY <1>0, <1>m, <2>1, <2>6, <2>7, <3>1
            DEF PicturesKnown, Missing, DependsOnShown, IdrSuffices
  <2> QED BY <2>5, <2>8 DEF PicturesIInv
<1>7. ASSUME NEW form \in Forms, NEW exact \in BOOLEAN, NEW pic \in Picture,
             PictureArrives(form, exact, pic)
      PROVE  PicturesIInv'
  BY <1>7, PictureStep
<1> QED BY <1>1, <1>2, <1>3, <1>4, <1>5, <1>6, <1>7 DEF PicturesNext, Forms

-----------------------------------------------------------------------------
(* The leases in every step *)

LEMMA LeaseRtc ==
  ASSUME LeaseIInv, RtcNext, UNCHANGED cardVars, cast' = cast
  PROVE  LeaseIInv'
<1>0. /\ PlacesOK /\ SessionLeases /\ SubsOnce /\ PagesOnce /\ OneSession /\ PressReady
      /\ RtcPlacesOK
  BY DEF LeaseIInv, PlacesOK
<1>1. /\ UNCHANGED <<page, released, cur, sel, known, visible>>
      /\ UNCHANGED <<opening, out, outTo, outOk, switch, switchOk, reopen, fall, hls>>
  BY DEF cardVars, pageVars, seenVars, taskVars
<1>2. CardPlacesOK'
  BY <1>0, <1>1 DEF PlacesOK, CardPlacesOK
<1>3. PlacesOK'
  BY <1>0, <1>2, RtcPlaces DEF PlacesOK
<1>4. PagesOnce'
  BY <1>0, <1>1, RtcSubs DEF PagesOnce
<1>5. OneSession' /\ PressReady'
  BY <1>0, <1>1 DEF OneSession, PressReady, Settled, AllReleased
<1> QED BY <1>0, <1>3, <1>4, <1>5, RtcLeases DEF LeaseIInv

LEMMA LeaseWeb ==
  ASSUME LeaseIInv, cast' = cast, (cast = "card" /\ CardNext) \/ (cast = "pages" /\ PageNext)
  PROVE  LeaseIInv'
<1>1. Web /\ PlacesOK /\ SessionLeases /\ SubsOnce
  BY DEF LeaseIInv, Web
<1>2. WebStep
  BY <1>1, CardStep, PageStep
<1>3. UNCHANGED Served
  BY CardServed
<1>4. PlacesOK'
  BY <1>1, <1>2, <1>3, PlacesTypes DEF WebStep
<1>5. SessionLeases' /\ SubsOnce'
  BY <1>1, <1>2, <1>3, ServedLeases DEF WebStep
<1> QED BY <1>2, <1>4, <1>5 DEF WebStep, LeaseIInv

\* Readers touch no session.
LEMMA StreamMoves ==
  ASSUME RtcPlacesOK, StreamNext
  PROVE  /\ UNCHANGED <<manager, sub, chan, offer, fate, told, viewers, closing, link>>
         /\ leases' \subseteq Sessions \cup Readers
         /\ active' \in Channels /\ media' \in {"none", "starting", "live", "zombie"}
         /\ joining' \in Sessions \cup Readers \cup {None}
         /\ \A s \in Sessions : s \in leases' <=> s \in leases
<1>0. /\ leases \subseteq Sessions \cup Readers /\ active \in Channels
      /\ media \in {"none", "starting", "live", "zombie"}
      /\ joining \in Sessions \cup Readers \cup {None}
  BY DEF RtcPlacesOK
<1>1. ASSUME NEW t \in Readers, ReaderStep(t)
      PROVE  /\ UNCHANGED <<manager, sub, chan, offer, fate, told, viewers, closing, link>>
             /\ UNCHANGED hubVars \/ Take(t, 1) \/ GiveBack(t)
  BY <1>1 DEF ReaderStep, Connects, Requests, AddQueue, Streams, Writes, Breaks, ReaderReady,
         ReaderGivenUp, CancelsAcquisition, RemoveQueue, EncoderJoined, ReaderReleased,
         ReaderTakes, ReaderGivesUp, ReaderReleases, hubKept
<1>2. ASSUME NEW t \in Readers, Take(t, 1) \/ GiveBack(t)
      PROVE  /\ leases' \subseteq Sessions \cup Readers
             /\ active' \in Channels /\ media' \in {"none", "starting", "live", "zombie"}
             /\ joining' \in Sessions \cup Readers \cup {None}
             /\ \A s \in Sessions : s \in leases' <=> s \in leases
  <2>1. \A s \in Sessions : s # t
    BY RtcAssumption
  <2>2. 1 \in Channels
    BY DEF Channels
  <2> QED BY <1>0, <1>2, <2>1, <2>2 DEF Take, GiveBack
<1>3. CASE \E t \in Readers : ReaderStep(t)
  BY <1>0, <1>1, <1>2, <1>3
<1>4. CASE \/ \E key, large \in BOOLEAN : PacketArrives(key, large)
           \/ EncoderOpens \/ Muxes \/ DropsLate \/ Publishes \/ EncoderFails \/ EncoderEnds
           \/ StreamShuts \/ StreamShut
  <2>1. UNCHANGED hubKept /\ UNCHANGED hubVars
    BY <1>4 DEF PacketArrives, EncoderOpens, Muxes, DropsLate, Publishes, EncoderFails, EncoderEnds,
       StreamShuts, StreamShut
  <2> QED BY <1>0, <2>1 DEF hubKept
<1>5. CASE PacketRejected
  BY <1>0, <1>5 DEF PacketRejected
<1> QED BY <1>3, <1>4, <1>5 DEF StreamNext

LEMMA LeaseStream ==
  ASSUME LeaseIInv, StreamNext, UNCHANGED cardVars, cast' = cast
  PROVE  LeaseIInv'
<1>0. /\ PlacesOK /\ SessionLeases /\ SubsOnce /\ PagesOnce /\ OneSession /\ PressReady
      /\ RtcPlacesOK
  BY DEF LeaseIInv, PlacesOK
<1>1. /\ UNCHANGED <<page, released, cur, sel, known, visible>>
      /\ UNCHANGED <<opening, out, outTo, outOk, switch, switchOk, reopen, fall, hls>>
  BY DEF cardVars, pageVars, seenVars, taskVars
<1>2. /\ UNCHANGED <<manager, sub, chan, offer, fate, told, viewers, closing, link>>
      /\ leases' \subseteq Sessions \cup Readers
      /\ active' \in Channels /\ media' \in {"none", "starting", "live", "zombie"}
      /\ joining' \in Sessions \cup Readers \cup {None}
      /\ \A s \in Sessions : s \in leases' <=> s \in leases
  BY <1>0, StreamMoves
<1>3. CardPlacesOK'
  BY <1>0, <1>1 DEF PlacesOK, CardPlacesOK
<1>4. RtcPlacesOK'
  BY <1>0, <1>2 DEF RtcPlacesOK
<1>5. SessionLeases' /\ SubsOnce' /\ PagesOnce'
  BY <1>0, <1>1, <1>2 DEF SessionLeases, SubsOnce, PagesOnce
<1>6. OneSession' /\ PressReady'
  BY <1>0, <1>1 DEF OneSession, PressReady, Settled, AllReleased
<1> QED BY <1>3, <1>4, <1>5, <1>6 DEF LeaseIInv, PlacesOK

LEMMA LeaseStutter ==
  ASSUME LeaseIInv, UNCHANGED <<rtcVars, cardVars, cast>>
  PROVE  LeaseIInv'
<1>0. /\ PlacesOK /\ SessionLeases /\ SubsOnce /\ PagesOnce /\ OneSession /\ PressReady
  BY DEF LeaseIInv
<1>1. /\ UNCHANGED <<leases, active, media, joining, manager, sub, chan, offer, fate, told>>
      /\ UNCHANGED <<viewers, closing, link, page, released, cur, sel, known, visible>>
      /\ UNCHANGED <<opening, out, outTo, outOk, switch, switchOk, reopen, fall, hls, cast>>
  BY DEF rtcVars, cardVars, pageVars, seenVars, taskVars
<1>2. PlacesOK'
  BY <1>0, <1>1 DEF PlacesOK, RtcPlacesOK, CardPlacesOK
<1>3. SessionLeases' /\ SubsOnce' /\ PagesOnce'
  BY <1>0, <1>1 DEF SessionLeases, SubsOnce, PagesOnce
<1>4. OneSession' /\ PressReady'
  BY <1>0, <1>1 DEF OneSession, PressReady, Settled, AllReleased
<1> QED BY <1>2, <1>3, <1>4 DEF LeaseIInv

-----------------------------------------------------------------------------
(* Beginning and every step *)

LEMMA LeaseBegins ==
  ASSUME NEW S \in {{}, Sessions}, NEW ch \in Channels, RtcInit(S, ch), CardInit(S),
         cast = "card" => S = {}
  PROVE  LeaseIInv /\ SourceLeased /\ \A r \in Readers : r \notin leases
<1>1. RtcPlacesOK
  BY DEF RtcInit, RtcPlacesOK, OfferPcs, ClosePcs
<1>2. CardPlacesOK
  BY DEF CardInit, CardPlacesOK, Channels
<1>3. SessionLeases /\ SubsOnce
  BY DEF RtcInit, SessionLeases, SubsOnce
<1>4. PagesOnce /\ OneSession /\ PressReady
  BY DEF RtcInit, CardInit, PagesOnce, OneSession, PressReady
<1>5. SourceLeased /\ \A r \in Readers : r \notin leases
  BY RtcAssumption DEF RtcInit, SourceLeased
<1> QED BY <1>1, <1>2, <1>3, <1>4, <1>5 DEF LeaseIInv, PlacesOK

LEMMA IInvInit == Init => IInv
<1> SUFFICES ASSUME Init PROVE IInv
  OBVIOUS
<1>1. LeaseIInv /\ SourceLeased /\ \A r \in Readers : r \notin leases
  <2>1. CASE cast = "pages"
    BY <2>1, LeaseBegins DEF Init
  <2>2. CASE cast # "pages"
    <3>1. RtcInit({}, 1) /\ CardInit({}) /\ 1 \in Channels
      BY <2>2 DEF Init, Channels
    <3> QED BY <3>1, LeaseBegins
  <2> QED BY <2>1, <2>2
<1>2. StreamIInv
  <2>1. StreamPlacesOK
    <3>0. StreamInit
      BY DEF Init
    <3>1. decoding \in BOOLEAN /\ needKey \in BOOLEAN
      BY <3>0, Zenon DEF StreamInit
    <3>2. muxing \in Packet
      BY <3>0 DEF StreamInit, NoPacket, Packet, Places
    <3>3. frames \in Seq(Packet)
      BY <3>0 DEF StreamInit
    <3>4. queues \subseteq Readers /\ enc \in Serving \cup {"none", "ending", "done"} /\ tail \in Places
      BY <3>0 DEF StreamInit, Places
    <3>5. /\ reader \in [Readers -> ReaderPcs] /\ acq \in [Readers -> AcqPcs]
      BY <3>0 DEF StreamInit, ReaderPcs, AcqPcs
    <3> QED BY <3>1, <3>2, <3>3, <3>4, <3>5 DEF StreamPlacesOK, ReaderPcs, AcqPcs
  <2>2. ReaderLeases /\ EncoderServes /\ Chain
    BY <1>1 DEF Init, StreamInit, ReaderLeases, EncoderServes, Chain, Follows, NoPacket
  <2> QED BY <1>1, <2>1, <2>2 DEF StreamIInv
<1>3. PicturesIInv
  <2>1. /\ login = FALSE /\ receiver = NoReceiver /\ pipeline = NoPipeline
        /\ number = 0 /\ counted = FALSE /\ newest = "missed" /\ shown = NoPicture
    BY DEF Init, NoSession
  <2>2. /\ receiver \in Receivers /\ receiver.last = NoNumber
        /\ pipeline \in Pipelines /\ ~pipeline.started /\ ~pipeline.primed
        /\ shown \in Shown /\ shown.type = "none"
    BY <2>1, BeginningTypes
  <2>3. login \in BOOLEAN /\ counted \in BOOLEAN
    BY <2>1, Zenon
  <2>4. number \in 0..MaxPictures + 1
    BY <2>1, PicturesAssumption
  <2>5. PicturesTypeOK
    BY <2>1, <2>2, <2>3, <2>4 DEF PicturesTypeOK, Receivers, Pipelines, Shown
  <2>6. Missing /\ DependsOnShown /\ IdrSuffices
    BY <2>1, <2>2 DEF Missing, Blocked, DependsOnShown, IdrSuffices
  <2> QED BY <2>5, <2>6 DEF PicturesIInv
<1> QED BY <1>1, <1>2, <1>3 DEF IInv

LEMMA PicturesStutter == PicturesIInv /\ UNCHANGED pictureVars => PicturesIInv'
  BY DEF pictureVars, PicturesIInv, PicturesTypeOK, Missing, Blocked, DependsOnShown, IdrSuffices

LEMMA StreamStutter ==
  ASSUME StreamIInv, UNCHANGED streamVars, UNCHANGED <<leases, joining, media, manager>>
  PROVE  StreamIInv'
  BY StreamKeeps DEF streamVars

LEMMA IInvStep == IInv /\ [Next]_vars => IInv'
<1> SUFFICES ASSUME IInv, [Next]_vars PROVE IInv'
  OBVIOUS
<1>0. LeaseIInv /\ StreamIInv /\ PicturesIInv /\ RtcPlacesOK
  BY DEF IInv, LeaseIInv, PlacesOK
<1>1. CASE RtcNext /\ SourceFollows /\ UNCHANGED cardVars /\ UNCHANGED pictureVars /\ cast' = cast
  BY <1>0, <1>1, LeaseRtc, RtcStream, PicturesStutter DEF IInv
<1>2. CASE /\ (cast = "card" /\ CardNext) \/ (cast = "pages" /\ PageNext)
           /\ UNCHANGED streamVars /\ UNCHANGED pictureVars /\ cast' = cast
  <2>1. UNCHANGED <<leases, joining, media, manager>>
    BY <1>2, CardServed DEF Served
  <2> QED BY <1>0, <1>2, <2>1, LeaseWeb, StreamStutter, PicturesStutter DEF IInv
<1>3. CASE StreamNext /\ UNCHANGED cardVars /\ UNCHANGED pictureVars /\ cast' = cast
  BY <1>0, <1>3, LeaseStream, StreamStep, PicturesStutter DEF IInv
<1>4. CASE PicturesNext /\ UNCHANGED <<rtcVars, cardVars, streamVars>> /\ cast' = cast
  <2>1. UNCHANGED streamVars /\ UNCHANGED <<leases, joining, media, manager>>
    BY <1>4 DEF rtcVars
  <2>2. UNCHANGED <<rtcVars, cardVars, cast>>
    BY <1>4
  <2> QED BY <1>0, <1>4, <2>1, <2>2, LeaseStutter, StreamStutter, PicturesStep DEF IInv
<1>5. CASE UNCHANGED vars
  <2>1. /\ UNCHANGED <<rtcVars, cardVars, cast>> /\ UNCHANGED streamVars /\ UNCHANGED pictureVars
        /\ UNCHANGED <<leases, joining, media, manager>>
    BY <1>5 DEF vars, rtcVars
  <2> QED BY <1>0, <2>1, LeaseStutter, StreamStutter, PicturesStutter DEF IInv
<1> QED BY <1>1, <1>2, <1>3, <1>4, <1>5 DEF Next

-----------------------------------------------------------------------------
(* The microphone *)

\* What MicIInv says of the microphone, beyond where everything is.
MicTypes ==
  /\ owner \in Sessions \cup {None}
  /\ gate \in BOOLEAN /\ cool \in BOOLEAN
  /\ reply \in {"none", "pending", "ok", "error"}
  /\ origin \in {"none", "current", "ended"}
  /\ job \in [Sessions -> [Ids -> JobPcs]]
  /\ queue \subseteq Jobs \X Jobs
  /\ enabled \in [Sessions -> BOOLEAN]
  /\ micId \in [Sessions -> Ids]
  /\ wire \in [Sessions -> Seq(Command)]
  /\ mail \in [Sessions -> Seq(Command)]
  /\ mic \in [Sessions -> Mics]

Counted == posted \in 0..2 /\ faults \in 0..MaxFaults /\ clicks \in 0..MaxClicks

Heeded ==
  /\ \A s \in Sessions : Numbers(s) /\ Commands(s)
  /\ \A s \in Sessions : Live(s) => Agreed(s)
  /\ Holder /\ Silenced /\ Turns

LEMMA MicParts == MicIInv <=> PlacesOK /\ MicTypes /\ Counted /\ Heeded
  BY DEF MicIInv, RtcTypeOK, CardTypeOK, PlacesOK, MicTypes, Counted, Heeded

\* A job moves.
LEMMA AtMoves ==
  ASSUME job \in [Sessions -> [Ids -> JobPcs]], NEW s \in Sessions, NEW k \in Ids,
         NEW l \in JobPcs, At(s, k, l)
  PROVE  /\ job' \in [Sessions -> [Ids -> JobPcs]]
         /\ \A t \in Sessions, j \in Ids :
              job'[t][j] = IF t = s /\ j = k THEN l ELSE job[t][j]
  BY DEF At

\* Who waits for talkback.lock when a job comes, or has it.
LEMMA WithMoves ==
  ASSUME queue \subseteq Jobs \X Jobs, NEW w \in Jobs, queue' = With(w)
  PROVE  /\ queue' \subseteq Jobs \X Jobs
         /\ \A v \in Jobs : v \in Waiting' <=> v \in Waiting \/ v = w
<1>1. Waiting \subseteq Jobs
  BY DEF Waiting
<1>2. queue' \subseteq Jobs \X Jobs
  BY <1>1 DEF With
<1>3. ASSUME NEW v \in Jobs
      PROVE  <<v, v>> \in queue' <=> <<v, v>> \in queue \/ v = w
  BY DEF With
<1> QED BY <1>2, <1>3 DEF Waiting

LEMMA WithoutMoves ==
  ASSUME queue \subseteq Jobs \X Jobs, NEW W, queue' = Without(W)
  PROVE  /\ queue' \subseteq Jobs \X Jobs
         /\ \A v \in Jobs : v \in Waiting' <=> v \in Waiting /\ v \notin W
  BY DEF Without, Waiting

LEMMA TurnMoves ==
  ASSUME queue \subseteq Jobs \X Jobs, NEW s \in Sessions, NEW k \in Ids, Turn(s, k)
  PROVE  /\ queue' \subseteq Jobs \X Jobs
         /\ ~TalkLocked /\ <<s, k>> \in Waiting
         /\ \A v \in Jobs : v \in Waiting' <=> v \in Waiting /\ v # <<s, k>>
<1>1. <<s, k>> \in Jobs
  BY DEF Jobs
<1> QED BY <1>1, WithoutMoves DEF Turn

\* What the page is told, if it is told anything.
LEMMA MailMoves ==
  ASSUME MicTypes, NEW s \in Sessions, NEW c \in Command,
         mail' = mail \/ mail' = [mail EXCEPT ![s] = Append(@, c)]
  PROVE  /\ mail' \in [Sessions -> Seq(Command)]
         /\ \A t \in Sessions : \A i \in DOMAIN mail'[t] :
              \/ \E j \in DOMAIN mail[t] : mail'[t][i] = mail[t][j]
              \/ t = s /\ mail'[t][i] = c
<1>0. mail \in [Sessions -> Seq(Command)]
  BY DEF MicTypes
<1>1. CASE mail' = [mail EXCEPT ![s] = Append(@, c)]
  <2>1. Append(mail[s], c) \in Seq(Command)
    BY <1>0
  <2>2. mail' \in [Sessions -> Seq(Command)]
    BY <1>0, <1>1, <2>1
  <2>3. \A i \in DOMAIN Append(mail[s], c) :
          Append(mail[s], c)[i] = c \/ \E j \in DOMAIN mail[s] : Append(mail[s], c)[i] = mail[s][j]
    BY <1>0
  <2>4. \A t \in Sessions : mail'[t] = IF t = s THEN Append(mail[s], c) ELSE mail[t]
    BY <1>0, <1>1
  <2>5. ASSUME NEW t \in Sessions, NEW i \in DOMAIN mail'[t]
        PROVE  \/ \E j \in DOMAIN mail[t] : mail'[t][i] = mail[t][j]
               \/ t = s /\ mail'[t][i] = c
    <3>1. CASE t = s
      BY <2>3, <2>4, <2>5, <3>1
    <3>2. CASE t # s
      BY <2>4, <2>5, <3>2
    <3> QED BY <3>1, <3>2
  <2> QED BY <2>2, <2>5
<1>2. CASE mail' = mail
  BY <1>0, <1>2
<1> QED BY <1>1, <1>2

\* ... that the microphone is off, under the number k;
LEMMA OffMoves ==
  ASSUME MicTypes, NEW s \in Sessions, NEW k \in Ids,
         Answered(s, k, FALSE, TRUE) \/ Answered(s, k, FALSE, FALSE)
  PROVE  /\ mail' \in [Sessions -> Seq(Command)] /\ enabled' \in [Sessions -> BOOLEAN]
         /\ \A t \in Sessions : \A i \in DOMAIN mail'[t] :
              (\E j \in DOMAIN mail[t] : mail'[t][i] = mail[t][j]) \/ (t = s /\ mail'[t][i].id = k)
<1> DEFINE c == [id |-> k, on |-> FALSE]
<1>1. c \in Command /\ c.id = k
  BY DEF Command
<1>2. mail' = mail \/ mail' = [mail EXCEPT ![s] = Append(@, c)]
  BY DEF Answered
<1>3. enabled' \in [Sessions -> BOOLEAN]
  <2>1. enabled \in [Sessions -> BOOLEAN]
    BY DEF MicTypes
  <2> QED BY <2>1 DEF Answered
<1> HIDE DEF c
<1> QED BY <1>1, <1>2, <1>3, MailMoves

\* The viewer s is told that its microphone is on, unless it cannot be told.
SaysOn(s, k) ==
  /\ mail' = mail \/ mail' = [mail EXCEPT ![s] = Append(@, [id |-> k, on |-> TRUE])]
  /\ enabled' = [enabled EXCEPT ![s] = TRUE]

\* Nobody else is told anything then, and nothing else is said.
LEMMA OnMoves ==
  ASSUME MicTypes, NEW s \in Sessions, NEW k \in Ids,
         SaysOn(s, k)
  PROVE  /\ mail' \in [Sessions -> Seq(Command)] /\ enabled' \in [Sessions -> BOOLEAN]
         /\ \A t \in Sessions : \A i \in DOMAIN mail'[t] :
              \/ \E j \in DOMAIN mail[t] : mail'[t][i] = mail[t][j]
              \/ mail'[t][i].on /\ t = s /\ mail'[t][i].id = k
<1> DEFINE c == [id |-> k, on |-> TRUE]
<1>1. c \in Command /\ c.id = k /\ c.on
  BY DEF Command
<1>2. mail' = mail \/ mail' = [mail EXCEPT ![s] = Append(@, c)]
  BY DEF SaysOn
<1>3. enabled' \in [Sessions -> BOOLEAN]
  BY DEF MicTypes, SaysOn
<1> HIDE DEF c
<1>4. /\ mail' \in [Sessions -> Seq(Command)]
      /\ \A t \in Sessions : \A i \in DOMAIN mail'[t] :
           \/ \E j \in DOMAIN mail[t] : mail'[t][i] = mail[t][j]
           \/ t = s /\ mail'[t][i] = c
  BY <1>1, <1>2, MailMoves
<1>5. ASSUME NEW t \in Sessions, NEW i \in DOMAIN mail'[t]
      PROVE  \/ \E j \in DOMAIN mail[t] : mail'[t][i] = mail[t][j]
             \/ mail'[t][i].on /\ t = s /\ mail'[t][i].id = k
  <2>1. CASE \E j \in DOMAIN mail[t] : mail'[t][i] = mail[t][j]
    BY <2>1
  <2>2. CASE t = s /\ mail'[t][i] = c
    BY <1>1, <2>2
  <2> QED BY <1>4, <2>1, <2>2
<1> QED BY <1>3, <1>4, <1>5

\* A step that the microphone does not notice, but for the session and the
\* connection it may lose, and for the cleanup of a viewer, which begins.
Quiet ==
  /\ UNCHANGED <<owner, gate, cool, job, queue, enabled, micId, wire, mail, mic>>
  /\ origin' = "current" => origin = "current"
  /\ posted' > 0 /\ media' = "live" => posted > 0 /\ media = "live"
  /\ media' = "live" /\ joining' = None => (media = "live" /\ joining = None) \/ HandedOver
  /\ \A s \in Sessions :
       /\ link'[s] = "new" => link[s] = "new"
       /\ link[s] = "broken" => link'[s] = "broken"
       /\ s \in viewers' => closing'[s] = "none"
       /\ closing'[s] = "none" => closing[s] = "none"
       /\ closing'[s] \notin {"none", "mic"} => closing[s] \notin {"none", "mic"}
       /\ closing[s] = "talk" => closing'[s] = "talk"

LEMMA QuietHeeds ==
  ASSUME Heeded, Quiet
  PROVE  Heeded'
<1>0. /\ \A s \in Sessions : Numbers(s) /\ Commands(s) /\ (Live(s) => Agreed(s))
      /\ Holder /\ Silenced /\ Turns
      /\ UNCHANGED <<owner, gate, cool, job, queue, enabled, micId, wire, mail, mic>>
  BY DEF Heeded, Quiet
<1>1. \A s \in Sessions :
        /\ link'[s] = "new" => link[s] = "new"
        /\ link[s] = "broken" => link'[s] = "broken"
        /\ s \in viewers' => closing'[s] = "none"
        /\ closing'[s] = "none" => closing[s] = "none"
        /\ closing'[s] \notin {"none", "mic"} => closing[s] \notin {"none", "mic"}
        /\ closing[s] = "talk" => closing'[s] = "talk"
  BY DEF Quiet
<1>2. ASSUME NEW s \in Sessions PROVE Numbers(s)'
  BY <1>0, <1>1 DEF Numbers
<1>3. ASSUME NEW s \in Sessions PROVE Commands(s)'
  BY <1>0, <1>1 DEF Commands, Wants
<1>4. ASSUME NEW s \in Sessions, Agreed(s) PROVE Agreed(s)'
  BY <1>0, <1>1, <1>4 DEF Agreed, Wants
<1>5. ASSUME NEW s \in Sessions, Live(s)' PROVE Agreed(s)'
  BY <1>0, <1>1, <1>4, <1>5 DEF Live
<1>6. Holder'
  BY <1>0 DEF Holder, Quiet
<1>7. Silenced'
  BY <1>0, <1>1 DEF Silenced
<1>8. Turns'
  <2> SUFFICES ASSUME ~TalkLocked', Startable'
               PROVE  /\ \A v, w \in Waiting' : v = w
                      /\ \A s \in Sessions, k \in Ids : <<s, k>> \in Waiting' =>
                           k = micId'[s] /\ (job'[s][k] = "lock" => Agreed(s)')
    BY DEF Turns
  <2>1. ~TalkLocked
    BY <1>0, <1>1 DEF TalkLocked
  <2>2. Waiting' = Waiting
    BY <1>0 DEF Waiting
  <2>3. Startable \/ Waiting = {}
    BY <1>0, <2>1 DEF Startable, Quiet, HandedOver
  <2> QED BY <1>0, <1>4, <2>1, <2>2, <2>3 DEF Turns
<1> QED BY <1>2, <1>3, <1>5, <1>6, <1>7, <1>8 DEF Heeded

LEMMA QuietTypes ==
  ASSUME MicTypes, Quiet, reply' \in {"none", "pending", "ok", "error"},
         origin' \in {"none", "current", "ended"}
  PROVE  MicTypes'
  BY DEF MicTypes, Quiet

\* A step that leaves talkback.py and the pages alone.
Untalked == UNCHANGED <<owner, gate, cool, reply, origin, posted, job, queue, enabled, micId, wire,
                        mail, mic>>

\* What it has to know of the hub and of the viewers to be quiet.
HubQuiet ==
  /\ media' = "live" => media = "live"
  /\ media' = "live" /\ joining' = None => joining = None

ClosesQuiet ==
  \A s \in Sessions :
    /\ s \in viewers' => closing'[s] = "none"
    /\ closing'[s] = "none" => closing[s] = "none"
    /\ closing'[s] \notin {"none", "mic"} => closing[s] \notin {"none", "mic"}
    /\ closing[s] = "talk" => closing'[s] = "talk"

LEMMA UntalkedQuiet ==
  ASSUME Untalked, HubQuiet, ClosesQuiet, UNCHANGED link
  PROVE  Quiet
  BY DEF Untalked, HubQuiet, ClosesQuiet, Quiet

LEMMA HubQuietSteps ==
  ASSUME UNCHANGED hubVars \/ \E c \in Sessions \cup Readers, ch \in Channels : Take(c, ch) \/ GiveBack(c)
  PROVE  HubQuiet
  BY DEF Take, GiveBack, HubQuiet

LEMMA PopQuiet ==
  ASSUME PlacesOK, Silenced, NEW S \in SUBSET viewers, Pop(S)
  PROVE  ClosesQuiet
<1>1. closing \in [Sessions -> ClosePcs] /\ viewers \subseteq Sessions
      /\ \A s \in viewers : closing[s] = "none"
  BY DEF PlacesOK, RtcPlacesOK, Silenced
<1> QED BY <1>1 DEF Pop, ClosesQuiet

LEMMA StillQuiet == Silenced /\ UNCHANGED <<viewers, closing>> => ClosesQuiet
  BY DEF Silenced, ClosesQuiet

LEMMA OfferQuiet ==
  ASSUME PlacesOK, SubsOnce, Silenced, mic' = mic, NEW s \in Sessions, OfferNext(s)
  PROVE  Untalked /\ HubQuiet /\ ClosesQuiet /\ UNCHANGED link
<1>1. Untalked /\ UNCHANGED link
  BY DEF Untalked, OfferNext, Offered, Register, Describe, Acquire, Acquired, Answer, OfferFails,
       OfferGivesBack, Unwound, OfferEnds
<1>2. HubQuiet
  <2>1. UNCHANGED hubVars \/ Take(s, chan[s]) \/ GiveBack(s)
    BY DEF OfferNext, Offered, Register, Describe, Acquire, Acquired, Answer, OfferFails,
         OfferGivesBack, Unwound, OfferEnds
  <2>2. chan[s] \in Channels
    BY DEF PlacesOK, RtcPlacesOK
  <2> QED BY <2>1, <2>2, HubQuietSteps
<1>3. ClosesQuiet
  <2>1. CASE Offered(s) \/ Describe(s) \/ Acquire(s) \/ Acquired(s) \/ Answer(s) \/ OfferFails(s)
             \/ OfferGivesBack(s) \/ OfferEnds(s)
    <3>1. UNCHANGED <<viewers, closing>>
      BY <2>1 DEF Offered, Describe, Acquire, Acquired, Answer, OfferFails, OfferGivesBack, OfferEnds
    <3> QED BY <3>1, StillQuiet
  <2>2. CASE Register(s)
    BY <2>2 DEF Register, SubsOnce, Silenced, ClosesQuiet
  <2>3. CASE Unwound(s)
    <3>1. Pop(viewers \cap {s})
      BY <2>3 DEF Unwound
    <3> QED BY <3>1, PopQuiet
  <2> QED BY <2>1, <2>2, <2>3 DEF OfferNext
<1> QED BY <1>1, <1>2, <1>3

LEMMA CleanupQuiet ==
  ASSUME PlacesOK, Silenced, mic' = mic, NEW s \in Sessions,
         \/ CleanupCancels(s) \/ CleanupCloses(s) \/ CleanupEnds(s) \/ OfferAbandoned(s)
         \/ PeerGone(s) \/ CloseJobs(s) \/ CloseLease(s)
  PROVE  Untalked /\ HubQuiet /\ ClosesQuiet /\ UNCHANGED link
<1>1. Untalked /\ UNCHANGED link
  BY DEF Untalked, CleanupCancels, CleanupCloses, CleanupEnds, OfferAbandoned, PeerGone, CloseJobs,
       CloseLease
<1>2. HubQuiet
  <2>1. UNCHANGED hubVars \/ GiveBack(s)
    BY DEF CleanupCancels, CleanupCloses, CleanupEnds, OfferAbandoned, PeerGone, CloseJobs, CloseLease
  <2> QED BY <2>1 DEF GiveBack, HubQuiet
<1>3. ClosesQuiet
  <2>1. CASE CleanupCancels(s) \/ CleanupEnds(s) \/ OfferAbandoned(s)
    <3>1. UNCHANGED <<viewers, closing>>
      BY <2>1 DEF CleanupCancels, CleanupEnds, OfferAbandoned
    <3> QED BY <3>1, StillQuiet
  <2>2. CASE CleanupCloses(s) \/ PeerGone(s)
    <3>1. \E S \in SUBSET viewers : Pop(S)
      BY <2>2 DEF CleanupCloses, PeerGone
    <3> QED BY <3>1, PopQuiet
  <2>3. CASE CloseJobs(s) \/ CloseLease(s)
    <3>1. closing \in [Sessions -> ClosePcs]
      BY DEF PlacesOK, RtcPlacesOK
    <3>2. closing[s] \in {"jobs", "lease"} /\ viewers' = viewers
          /\ \E l \in {"talk", "lease", "join", "done"} : closing' = [closing EXCEPT ![s] = l]
      BY <2>3 DEF CloseJobs, CloseLease
    <3> QED BY <3>1, <3>2 DEF Silenced, ClosesQuiet
  <2> QED BY <2>1, <2>2, <2>3
<1> QED BY <1>1, <1>2, <1>3

LEMMA UnloadQuiet ==
  ASSUME PlacesOK, Silenced, mic' = mic, UnloadNext
  PROVE  Untalked /\ HubQuiet /\ ClosesQuiet /\ UNCHANGED link
<1>1. Untalked /\ UNCHANGED link /\ UNCHANGED hubVars
  BY DEF Untalked, UnloadNext, Unload, UnloadCloses, UnloadEnds
<1>2. UNCHANGED <<viewers, closing>> \/ Pop(viewers)
  BY DEF UnloadNext, Unload, UnloadCloses, UnloadEnds
<1> QED BY <1>1, <1>2, HubQuietSteps, PopQuiet, StillQuiet

\* The steps of the source and of the connections.
LEMMA SourceQuiet ==
  ASSUME PlacesOK, MicTypes, Silenced, mic' = mic,
         \/ Hub \/ TalkReply \/ \E s \in Sessions : LinkUp(s) \/ LinkLost(s)
  PROVE  /\ Quiet
         /\ reply' \in {"none", "pending", "ok", "error"} /\ origin' \in {"none", "current", "ended"}
<1>0. /\ link \in [Sessions -> {"new", "up", "broken"}] /\ closing \in [Sessions -> ClosePcs]
      /\ reply \in {"none", "pending", "ok", "error"} /\ origin \in {"none", "current", "ended"}
  BY DEF PlacesOK, RtcPlacesOK, MicTypes
<1>1. CASE MediaUp
  <2>1. UNCHANGED <<viewers, closing>>
    BY <1>1 DEF MediaUp
  <2> QED BY <1>0, <1>1, <2>1, StillQuiet DEF MediaUp, Quiet, ClosesQuiet
<1>2. CASE MediaLost \/ ZombieEnds
  <2>1. UNCHANGED <<viewers, closing>>
    BY <1>2 DEF MediaLost, ZombieEnds
  <2> QED BY <1>0, <1>2, <2>1, StillQuiet DEF MediaLost, ZombieEnds, SessionEnds, Quiet, ClosesQuiet
<1>3. CASE Join
  <2>1. media' \in {"none", "zombie"}
    BY <1>3 DEF Join
  <2>2. /\ UNCHANGED <<viewers, link>>
        /\ \A s \in Sessions :
             closing'[s] = closing[s] \/ (closing[s] = "join" /\ closing'[s] \in {"done", "failed"})
    BY <1>3 DEF Join
  <2>3. /\ UNCHANGED <<owner, gate, cool, reply, job, queue, enabled, micId, wire, mail>>
        /\ origin' \in {origin, "ended"}
    BY <1>3 DEF Join, SessionEnds
  <2>4. ClosesQuiet
    BY <2>2 DEF Silenced, ClosesQuiet
  <2> QED BY <1>0, <2>1, <2>2, <2>3, <2>4 DEF Quiet, ClosesQuiet
<1>4. CASE TalkReply
  <2>1. UNCHANGED <<viewers, closing>>
    BY <1>4 DEF TalkReply
  <2> QED BY <1>0, <1>4, <2>1, StillQuiet DEF TalkReply, Quiet, ClosesQuiet
<1>5. ASSUME NEW s \in Sessions, LinkUp(s) \/ LinkLost(s)
      PROVE  Quiet /\ UNCHANGED <<reply, origin>>
  <2>1. UNCHANGED <<viewers, closing>> /\ UNCHANGED hubVars
        /\ UNCHANGED talkVars /\ UNCHANGED jobVars /\ UNCHANGED pipeVars
    BY <1>5 DEF LinkUp, LinkLost
  <2>2. \A t \in Sessions :
          /\ link'[t] = "new" => link[t] = "new"
          /\ link[t] = "broken" => link'[t] = "broken"
    BY <1>0, <1>5 DEF LinkUp, LinkLost
  <2>3. ClosesQuiet
    BY <2>1, StillQuiet
  <2> QED BY <2>1, <2>2, <2>3 DEF Quiet, ClosesQuiet
<1> QED BY <1>0, <1>1, <1>2, <1>3, <1>4, <1>5 DEF Hub

LEMMA StreamQuiet ==
  ASSUME PlacesOK, MicTypes, Silenced, mic' = mic, StreamNext
  PROVE  /\ Quiet
         /\ reply' \in {"none", "pending", "ok", "error"} /\ origin' \in {"none", "current", "ended"}
<1>0. /\ reply \in {"none", "pending", "ok", "error"} /\ origin \in {"none", "current", "ended"}
  BY DEF MicTypes
<1>1. UNCHANGED <<viewers, closing, link>>
  BY StreamMoves DEF PlacesOK
<1>2. ClosesQuiet
  BY <1>1, StillQuiet
<1>3. ASSUME NEW r \in Readers, ReaderStep(r)
      PROVE  Untalked /\ HubQuiet
  <2>1. /\ Untalked
        /\ UNCHANGED hubVars \/ Take(r, 1) \/ GiveBack(r)
    BY <1>3 DEF Untalked, ReaderStep, Connects, Requests, AddQueue, Streams, Writes, Breaks, ReaderReady,
         ReaderGivenUp, CancelsAcquisition, RemoveQueue, EncoderJoined, ReaderReleased,
         ReaderTakes, ReaderGivesUp, ReaderReleases, hubKept
  <2>2. 1 \in Channels
    BY DEF Channels
  <2> QED BY <2>1, <2>2, HubQuietSteps
<1>4. CASE \/ \E key, large \in BOOLEAN : PacketArrives(key, large)
           \/ EncoderOpens \/ Muxes \/ DropsLate \/ Publishes \/ EncoderFails \/ EncoderEnds
           \/ StreamShuts \/ StreamShut
  <2>1. Untalked /\ UNCHANGED hubVars
    BY <1>4 DEF Untalked, PacketArrives, EncoderOpens, Muxes, DropsLate, Publishes, EncoderFails,
       EncoderEnds, StreamShuts, StreamShut, hubKept
  <2> QED BY <1>0, <1>1, <1>2, <2>1, HubQuietSteps, UntalkedQuiet DEF Untalked
<1>5. CASE PacketRejected
  <2>1. /\ UNCHANGED <<owner, gate, cool, reply, job, queue, enabled, micId, wire, mail, joining>>
        /\ origin' \in {origin, "ended"}
        /\ media' = "none" \/ UNCHANGED <<media, origin, posted>>
    BY <1>5 DEF PacketRejected, SessionEnds
  <2> QED BY <1>0, <1>1, <1>2, <2>1 DEF Quiet, ClosesQuiet
<1> QED BY <1>0, <1>1, <1>2, <1>3, <1>4, <1>5, UntalkedQuiet DEF StreamNext, Untalked

-----------------------------------------------------------------------------
(* What a page does with its microphone *)

LEMMA AppendMoves ==
  ASSUME NEW q \in Seq(Command), NEW c \in Command
  PROVE  /\ Append(q, c) \in Seq(Command) /\ Len(q) \in Nat
         /\ DOMAIN q = 1..Len(q) /\ DOMAIN Append(q, c) = 1..(Len(q) + 1)
         /\ Len(Append(q, c)) = Len(q) + 1
         /\ \A i \in 1..Len(q) : Append(q, c)[i] = q[i]
         /\ Append(q, c)[Len(q) + 1] = c
  OBVIOUS

LEMMA EmptyFacts ==
  ASSUME NEW q \in Seq(Command)
  PROVE  /\ DOMAIN q = 1..Len(q) /\ Len(q) \in Nat
         /\ q = <<>> <=> Len(q) = 0
         /\ \A i \in DOMAIN q : q[i].id \in Ids /\ q[i].on \in BOOLEAN
<1>1. DOMAIN q = 1..Len(q) /\ Len(q) \in Nat
  OBVIOUS
<1>2. q = <<>> <=> Len(q) = 0
  OBVIOUS
<1>3. ASSUME NEW i \in DOMAIN q PROVE q[i].id \in Ids /\ q[i].on \in BOOLEAN
  <2>1. q[i] \in Command
    OBVIOUS
  <2> QED BY <2>1 DEF Command
<1> QED BY <1>1, <1>2, <1>3

\* A page that does nothing, unless it is cut off.
LEMMA PageRests ==
  ASSUME NEW t \in Sessions, Numbers(t), Commands(t), UNCHANGED <<micId, job>>,
         wire'[t] = wire[t], mail'[t] = mail[t], mic'[t] = mic[t], link'[t] \in {link[t], "broken"}
  PROVE  Numbers(t)' /\ Commands(t)' /\ (Agreed(t) => Agreed(t)')
<1>1. Numbers(t)'
  BY DEF Numbers
<1>2. Commands(t)'
  BY DEF Commands, Wants
<1>3. Agreed(t) => Agreed(t)'
  BY DEF Agreed, Wants
<1> QED BY <1>1, <1>2, <1>3

\* It stops the microphone, and says so while it is connected.
LEMMA PageStops ==
  ASSUME MicTypes, link \in [Sessions -> {"new", "up", "broken"}],
         NEW t \in Sessions, Numbers(t), Commands(t), UNCHANGED <<micId, job>>,
         wire'[t] = Told(t), mail'[t] = <<>>,
         mic'[t] = IF mic[t].st # "off" THEN MicOff(t) ELSE mic[t],
         link'[t] \in {link[t], "broken"}
  PROVE  Numbers(t)' /\ Commands(t)' /\ (Agreed(t) => Agreed(t)')
         /\ wire'[t] \in Seq(Command) /\ mic'[t] \in Mics
<1>0. /\ wire[t] \in Seq(Command) /\ mic[t] \in Mics /\ micId[t] \in Ids
      /\ link[t] \in {"new", "up", "broken"} /\ job[t] \in [Ids -> JobPcs] /\ MaxMic \in Nat
  BY RtcAssumption DEF MicTypes
<1>1. /\ mic[t].st \in {"off", "asking", "pending", "on"} /\ mic[t].id \in Ids /\ micId[t] <= mic[t].id
      /\ mic[t].st # "off" => mic[t].id < MaxMic
  BY <1>0 DEF Mics, Numbers
<1>2. CASE mic[t].st = "off"
  <2>1. wire'[t] = wire[t] /\ mic'[t] = mic[t]
    BY <1>2 DEF Told
  <2>2. Numbers(t)' /\ Commands(t)'
    BY <1>0, <2>1 DEF Numbers, Commands, Wants
  <2>3. Agreed(t) => Agreed(t)'
    BY <1>0, <1>2, <2>1 DEF Agreed, Wants
  <2> QED BY <1>0, <2>1, <2>2, <2>3
<1>3. CASE mic[t].st # "off"
  <2>0. mic'[t] = [st |-> "off", id |-> mic[t].id + 1]
    BY <1>3 DEF MicOff
  <2>1. mic'[t].st = "off" /\ mic'[t].id = mic[t].id + 1 /\ mic'[t] \in Mics
    BY <1>0, <1>1, <1>3, <2>0 DEF Mics, Ids
  <2> DEFINE c == [id |-> mic[t].id + 1, on |-> FALSE]
  <2>2. c \in Command /\ c.id = mic[t].id + 1 /\ ~c.on
    BY <1>0, <1>1, <1>3 DEF Command, Ids
  <2>3. wire'[t] = IF link[t] = "up" THEN Append(wire[t], c) ELSE wire[t]
    BY <1>3 DEF Told
  <2> HIDE DEF c
  <2>4. link[t] # "new"
    BY <1>3 DEF Numbers
  <2>5. CASE link[t] = "up"
    <3>1. wire'[t] = Append(wire[t], c)
      BY <2>3, <2>5
    <3>2. /\ wire'[t] \in Seq(Command) /\ Len(wire[t]) \in Nat
          /\ DOMAIN wire[t] = 1..Len(wire[t]) /\ DOMAIN wire'[t] = 1..(Len(wire[t]) + 1)
          /\ Len(wire'[t]) = Len(wire[t]) + 1
          /\ \A i \in 1..Len(wire[t]) : wire'[t][i] = wire[t][i]
          /\ wire'[t][Len(wire[t]) + 1] = c
      BY <1>0, <2>2, <3>1, AppendMoves
    <3>3. \A i \in DOMAIN wire[t] : wire[t][i].id \in Ids
      BY <1>0, EmptyFacts
    <3>4. Numbers(t)'
      <4>1. mic'[t].st # "asking" /\ link'[t] # "new" /\ micId'[t] <= mic'[t].id
        BY <1>0, <1>1, <2>1, <2>4 DEF Ids
      <4>2. ASSUME NEW i \in DOMAIN wire'[t]
            PROVE  micId[t] < wire'[t][i].id /\ wire'[t][i].id <= mic'[t].id
        <5>1. CASE i \in 1..Len(wire[t])
          BY <1>0, <1>1, <2>1, <3>2, <3>3, <5>1 DEF Numbers, Ids
        <5>2. CASE i = Len(wire[t]) + 1
          BY <1>0, <1>1, <2>1, <2>2, <3>2, <5>2 DEF Ids
        <5> QED BY <3>2, <5>1, <5>2
      <4>3. ASSUME NEW i \in DOMAIN wire'[t], NEW j \in DOMAIN wire'[t], i < j
            PROVE  wire'[t][i].id < wire'[t][j].id
        <5>1. i \in 1..Len(wire[t])
          BY <3>2, <4>3
        <5>2. wire'[t][i].id = wire[t][i].id /\ wire[t][i].id \in Ids /\ wire[t][i].id <= mic[t].id
          BY <3>2, <3>3, <5>1 DEF Numbers
        <5>3. CASE j \in 1..Len(wire[t])
          BY <3>2, <4>3, <5>1, <5>3 DEF Numbers
        <5>4. CASE j = Len(wire[t]) + 1
          BY <1>1, <2>2, <3>2, <5>2, <5>4 DEF Ids
        <5> QED BY <3>2, <5>3, <5>4
      <4> QED BY <1>0, <2>1, <4>1, <4>2, <4>3 DEF Numbers
    <3>5. Commands(t)'
      BY <1>0, <2>2, <3>2 DEF Commands
    <3>6. Agreed(t) => Agreed(t)'
      <4>1. wire'[t] # <<>>
        BY <3>2
      <4>2. CASE wire[t] = <<>>
        BY <2>2, <3>2, <4>1, <4>2 DEF Agreed
      <4>3. CASE wire[t] # <<>>
        <5>1. 1 \in 1..Len(wire[t])
          BY <1>0, <4>3, EmptyFacts
        <5> QED BY <3>2, <4>1, <4>3, <5>1 DEF Agreed
      <4> QED BY <4>2, <4>3
    <3> QED BY <2>1, <3>2, <3>4, <3>5, <3>6
  <2>6. CASE link[t] = "broken"
    <3>1. wire'[t] = wire[t] /\ link'[t] = "broken"
      BY <2>3, <2>6
    <3>2. \A i \in DOMAIN wire[t] : wire[t][i].id \in Ids
      BY <1>0, EmptyFacts
    <3>3. Numbers(t)'
      BY <1>0, <1>1, <2>1, <3>1, <3>2 DEF Numbers, Ids
    <3>4. Commands(t)'
      BY <3>1 DEF Commands
    <3>5. Agreed(t) => Agreed(t)'
      BY <3>1 DEF Agreed
    <3> QED BY <1>0, <2>1, <3>1, <3>3, <3>4, <3>5
  <2> QED BY <1>0, <2>4, <2>5, <2>6
<1> QED BY <1>2, <1>3

LEMMA TailMoves ==
  ASSUME NEW q \in Seq(Command), q # <<>>
  PROVE  /\ Tail(q) \in Seq(Command)
         /\ 1 \in DOMAIN q /\ Head(q) = q[1]
         /\ \A i \in DOMAIN Tail(q) : i + 1 \in DOMAIN q /\ Tail(q)[i] = q[i + 1]
  OBVIOUS

\* It asks the browser for the microphone.
LEMMA PageAsks ==
  ASSUME MicTypes, NEW t \in Sessions, Numbers(t), Commands(t), UNCHANGED <<micId, job>>,
         wire'[t] = wire[t], mail'[t] = <<>>, link'[t] = link[t], link[t] = "up",
         mic[t].st = "off", mic[t].id + 2 <= MaxMic,
         mic'[t] = [st |-> "asking", id |-> mic[t].id + 1]
  PROVE  Numbers(t)' /\ Commands(t)' /\ (Agreed(t) => Agreed(t)') /\ mic'[t] \in Mics
<1>0. /\ wire[t] \in Seq(Command) /\ mic[t] \in Mics /\ micId[t] \in Ids
      /\ job[t] \in [Ids -> JobPcs] /\ MaxMic \in Nat
  BY RtcAssumption DEF MicTypes
<1>1. mic[t].id \in Ids /\ micId[t] <= mic[t].id
  BY <1>0 DEF Mics, Numbers
<1>2. mic'[t].st = "asking" /\ mic'[t].id = mic[t].id + 1 /\ mic'[t] \in Mics
  BY <1>0, <1>1 DEF Mics, Ids
<1>3. \A i \in DOMAIN wire[t] : wire[t][i].id \in Ids
  BY <1>0, EmptyFacts
<1>4. Numbers(t)'
  <2>1. /\ mic'[t].id < MaxMic /\ mic[t].id < mic'[t].id
        /\ micId[t] < mic'[t].id /\ micId[t] <= mic'[t].id
    BY <1>0, <1>1, <1>2 DEF Ids
  <2>2. ASSUME NEW i \in DOMAIN wire[t]
        PROVE  /\ micId[t] < wire[t][i].id /\ wire[t][i].id <= mic[t].id
               /\ \A j \in DOMAIN wire[t] : i < j => wire[t][i].id < wire[t][j].id
    BY DEF Numbers
  <2>3. ASSUME NEW i \in DOMAIN wire[t]
        PROVE  wire[t][i].id <= mic'[t].id /\ wire[t][i].id < mic'[t].id
    <3>1. wire[t][i].id \in Nat /\ mic[t].id \in Nat
      BY <1>0, <1>1, <1>3 DEF Ids
    <3> QED BY <1>2, <2>1, <2>2, <3>1
  <2> QED BY <1>1, <1>2, <2>1, <2>2, <2>3 DEF Numbers
<1>5. Commands(t)'
  BY DEF Commands, Wants
<1>6. Agreed(t) => Agreed(t)'
  BY DEF Agreed, Wants
<1> QED BY <1>2, <1>4, <1>5, <1>6

\* The browser grants it: the command is sent.
LEMMA PageSends ==
  ASSUME MicTypes, NEW t \in Sessions, Numbers(t), Commands(t), UNCHANGED <<micId, job>>,
         wire'[t] = Append(wire[t], [id |-> mic[t].id, on |-> TRUE]), mail'[t] = mail[t],
         link'[t] = link[t], link[t] = "up", mic[t].st = "asking",
         mic'[t] = [mic[t] EXCEPT !.st = "pending"]
  PROVE  Numbers(t)' /\ Commands(t)' /\ (Agreed(t) => Agreed(t)')
         /\ wire'[t] \in Seq(Command) /\ mic'[t] \in Mics
<1>0. /\ wire[t] \in Seq(Command) /\ mic[t] \in Mics /\ micId[t] \in Ids
      /\ job[t] \in [Ids -> JobPcs] /\ MaxMic \in Nat
  BY RtcAssumption DEF MicTypes
<1>1. mic[t].id \in Ids /\ micId[t] < mic[t].id
  BY <1>0 DEF Mics, Numbers
<1>2. mic'[t].st = "pending" /\ mic'[t].id = mic[t].id /\ mic'[t] \in Mics
  BY <1>0 DEF Mics
<1> DEFINE c == [id |-> mic[t].id, on |-> TRUE]
<1>3. c \in Command /\ c.id = mic[t].id /\ c.on
  BY <1>1 DEF Command
<1>4. wire'[t] = Append(wire[t], c)
  OBVIOUS
<1> HIDE DEF c
<1>5. /\ wire'[t] \in Seq(Command) /\ Len(wire[t]) \in Nat
      /\ DOMAIN wire[t] = 1..Len(wire[t]) /\ DOMAIN wire'[t] = 1..(Len(wire[t]) + 1)
      /\ Len(wire'[t]) = Len(wire[t]) + 1
      /\ \A i \in 1..Len(wire[t]) : wire'[t][i] = wire[t][i]
      /\ wire'[t][Len(wire[t]) + 1] = c
  <2> DEFINE q == Append(wire[t], c)
  <2>1. /\ q \in Seq(Command) /\ Len(wire[t]) \in Nat
        /\ DOMAIN wire[t] = 1..Len(wire[t]) /\ DOMAIN q = 1..(Len(wire[t]) + 1)
        /\ Len(q) = Len(wire[t]) + 1
        /\ \A i \in 1..Len(wire[t]) : q[i] = wire[t][i]
        /\ q[Len(wire[t]) + 1] = c
    BY <1>0, <1>3, AppendMoves
  <2>2. wire'[t] = q
    BY <1>4
  <2> HIDE DEF q
  <2> QED BY <2>1, <2>2
<1>6. /\ \A i \in DOMAIN wire[t] : wire[t][i].id \in Ids
      /\ wire[t] = <<>> <=> Len(wire[t]) = 0
  BY <1>0, EmptyFacts
<1>7. Numbers(t)'
  <2>1. /\ mic'[t].st # "off" => mic'[t].id < MaxMic
        /\ mic'[t].st # "asking" /\ link'[t] # "new" /\ micId'[t] <= mic'[t].id
    BY <1>0, <1>1, <1>2 DEF Numbers, Ids
  <2>2. ASSUME NEW i \in DOMAIN wire'[t]
        PROVE  micId[t] < wire'[t][i].id /\ wire'[t][i].id <= mic'[t].id
    <3>1. CASE i \in 1..Len(wire[t])
      BY <1>0, <1>1, <1>2, <1>5, <1>6, <3>1 DEF Numbers, Ids
    <3>2. CASE i = Len(wire[t]) + 1
      BY <1>0, <1>1, <1>2, <1>3, <1>5, <3>2 DEF Ids
    <3> QED BY <1>5, <3>1, <3>2
  <2>3. ASSUME NEW i \in DOMAIN wire'[t], NEW j \in DOMAIN wire'[t], i < j
        PROVE  wire'[t][i].id < wire'[t][j].id
    <3>1. i \in 1..Len(wire[t])
      BY <1>5, <2>3
    <3>2. wire'[t][i].id = wire[t][i].id /\ wire[t][i].id \in Ids /\ wire[t][i].id < mic[t].id
      BY <1>5, <1>6, <3>1 DEF Numbers
    <3>3. CASE j \in 1..Len(wire[t])
      BY <1>5, <2>3, <3>1, <3>3 DEF Numbers
    <3>4. CASE j = Len(wire[t]) + 1
      BY <1>3, <1>5, <3>2, <3>4
    <3> QED BY <1>5, <3>3, <3>4
  <2> QED BY <1>0, <2>1, <2>2, <2>3 DEF Numbers
<1>8. wire[t] # <<>> => ~wire[t][Len(wire[t])].on
  BY DEF Commands, Wants
<1>9. Commands(t)'
  <2>1. ASSUME NEW i \in DOMAIN wire'[t], i < Len(wire'[t]), wire'[t][i].on
        PROVE  ~wire'[t][i + 1].on
    <3>1. i \in 1..Len(wire[t]) /\ wire[t][i].on /\ wire[t] # <<>>
      BY <1>5, <1>6, <2>1
    <3>2. i # Len(wire[t])
      BY <1>8, <3>1
    <3>3. i < Len(wire[t]) /\ i + 1 \in 1..Len(wire[t])
      BY <1>5, <3>1, <3>2
    <3> QED BY <1>5, <3>1, <3>3 DEF Commands
  <2>2. Wants(t)' /\ mic'[t].id = wire'[t][Len(wire'[t])].id
    BY <1>2, <1>3, <1>5 DEF Wants
  <2> QED BY <2>1, <2>2 DEF Commands
<1>10. Agreed(t) => Agreed(t)'
  <2> SUFFICES ASSUME Agreed(t) PROVE Agreed(t)'
    OBVIOUS
  <2>1. wire[t] # <<>>
    BY DEF Agreed, Wants
  <2>2. 1 \in 1..Len(wire[t]) /\ wire'[t] # <<>>
    BY <1>5, <1>6, <2>1
  <2> QED BY <1>5, <2>1, <2>2 DEF Agreed
<1> QED BY <1>2, <1>5, <1>7, <1>9, <1>10

\* It is told something.
LEMMA PageHears ==
  ASSUME MicTypes, NEW t \in Sessions, Numbers(t), Commands(t), UNCHANGED <<micId, job>>,
         mail[t] # <<>>, mail'[t] = Tail(mail[t]), wire'[t] = wire[t], link'[t] = link[t],
         mic'[t] = IF mic[t].st = "off" \/ Head(mail[t]).id # mic[t].id THEN mic[t]
                   ELSE IF Head(mail[t]).on THEN [mic[t] EXCEPT !.st = "on"] ELSE MicOff(t)
  PROVE  Numbers(t)' /\ Commands(t)' /\ (Agreed(t) => Agreed(t)')
         /\ mail'[t] \in Seq(Command) /\ mic'[t] \in Mics
<1>0. /\ wire[t] \in Seq(Command) /\ mic[t] \in Mics /\ micId[t] \in Ids
      /\ job[t] \in [Ids -> JobPcs] /\ MaxMic \in Nat /\ mail[t] \in Seq(Command)
  BY RtcAssumption DEF MicTypes
<1>1. /\ mic[t].st \in {"off", "asking", "pending", "on"} /\ mic[t].id \in Ids
      /\ micId[t] <= mic[t].id /\ mic[t].st # "off" => mic[t].id < MaxMic
  BY <1>0 DEF Mics, Numbers
<1>2. /\ mail'[t] \in Seq(Command) /\ 1 \in DOMAIN mail[t] /\ Head(mail[t]) = mail[t][1]
      /\ \A i \in DOMAIN mail'[t] : i + 1 \in DOMAIN mail[t] /\ mail'[t][i] = mail[t][i + 1]
  BY <1>0, TailMoves
<1>3. mail[t][1].id <= micId[t]
  BY <1>2 DEF Numbers
<1>4. \A i \in DOMAIN mail'[t] : mail'[t][i].id <= micId[t]
  BY <1>2 DEF Numbers
<1>5. \A i \in DOMAIN wire[t] : wire[t][i].id \in Ids /\ micId[t] < wire[t][i].id
  BY <1>0, EmptyFacts DEF Numbers
<1>6. (\A i \in DOMAIN mail[t] : mail[t][i].id = micId[t] => mail[t][i].on) =>
         \A i \in DOMAIN mail'[t] : mail'[t][i].id = micId[t] => mail'[t][i].on
  BY <1>2
<1>7. CASE mic'[t] = mic[t]
  <2>1. Numbers(t)'
    BY <1>4, <1>7 DEF Numbers
  <2>2. Commands(t)'
    BY <1>7 DEF Commands, Wants
  <2>3. Agreed(t) => Agreed(t)'
    BY <1>6, <1>7 DEF Agreed, Wants
  <2> QED BY <1>0, <1>2, <1>7, <2>1, <2>2, <2>3
<1>8. CASE mic'[t] # mic[t]
  <2>1. mic[t].st # "off" /\ mail[t][1].id = mic[t].id /\ mic[t].id = micId[t]
    BY <1>0, <1>1, <1>2, <1>3, <1>8 DEF Numbers, Ids
  <2>2. mic[t].st # "asking"
    BY <1>0, <1>1, <2>1 DEF Numbers, Ids
  <2>3. /\ mic'[t].st \in {"on", "off"} /\ mic'[t] \in Mics
        /\ mic'[t].st = "on" => mic'[t].id = mic[t].id
        /\ mic'[t].st = "off" => mic'[t].id = mic[t].id + 1 /\ ~mail[t][1].on
    BY <1>0, <1>1, <1>2, <2>1 DEF MicOff, Mics, Ids
  <2>4. link[t] # "new"
    BY <2>1 DEF Numbers
  <2>5. mic[t].id <= mic'[t].id /\ mic'[t].id \in Ids
    BY <1>1, <2>3 DEF Mics, Ids
  <2>6. wire[t] = <<>>
    <3> SUFFICES ASSUME wire[t] # <<>> PROVE FALSE
      OBVIOUS
    <3>1. 1 \in DOMAIN wire[t]
      BY <1>0, EmptyFacts
    <3> QED BY <1>0, <1>1, <1>5, <2>1, <3>1 DEF Numbers, Ids
  <2>7. Numbers(t)'
    BY <1>0, <1>1, <1>4, <2>1, <2>3, <2>4, <2>5, <2>6 DEF Numbers, Ids
  <2>8. Commands(t)'
    BY <2>6 DEF Commands
  <2>9. Agreed(t) => Agreed(t)'
    <3>1. CASE mic'[t].st = "on"
      BY <1>6, <2>1, <2>3, <2>6, <3>1 DEF Agreed, Wants
    <3>2. CASE mic'[t].st = "off"
      BY <1>2, <2>1, <2>3, <2>6, <3>2 DEF Agreed
    <3> QED BY <2>3, <3>1, <3>2
  <2> QED BY <1>2, <2>3, <2>7, <2>8, <2>9
<1> QED BY <1>7, <1>8

\* It sees that it is cut off.
LEMMA PageCut ==
  ASSUME MicTypes, NEW t \in Sessions, Numbers(t), Commands(t), UNCHANGED <<micId, job>>,
         wire'[t] = wire[t], mail'[t] = mail[t], link'[t] = link[t], link[t] = "broken",
         mic[t].st # "off", mic'[t] = MicOff(t)
  PROVE  Numbers(t)' /\ Commands(t)' /\ (Agreed(t) => Agreed(t)') /\ mic'[t] \in Mics
<1>0. /\ wire[t] \in Seq(Command) /\ mic[t] \in Mics /\ micId[t] \in Ids
      /\ job[t] \in [Ids -> JobPcs] /\ MaxMic \in Nat
  BY RtcAssumption DEF MicTypes
<1>1. mic[t].id \in Ids /\ micId[t] <= mic[t].id /\ mic[t].id < MaxMic
  BY <1>0 DEF Mics, Numbers
<1>2. mic'[t].st = "off" /\ mic'[t].id = mic[t].id + 1 /\ mic'[t] \in Mics
  BY <1>0, <1>1 DEF MicOff, Mics, Ids
<1>3. \A i \in DOMAIN wire[t] : wire[t][i].id \in Ids
  BY <1>0, EmptyFacts
<1>4. Numbers(t)'
  BY <1>0, <1>1, <1>2, <1>3 DEF Numbers, Ids
<1>5. Commands(t)' /\ (Agreed(t) => Agreed(t)')
  BY DEF Commands, Agreed
<1> QED BY <1>2, <1>4, <1>5

\* What the integration does not notice of a step of the pages.
Unserved == UNCHANGED <<owner, gate, cool, reply, origin, posted, job, queue, enabled, micId, viewers,
                        closing, media, joining>>

LEMMA PageHeeds ==
  ASSUME Heeded, Unserved,
         \A t \in Sessions : Numbers(t)' /\ Commands(t)' /\ (Agreed(t) => Agreed(t)')
  PROVE  Heeded'
<1>0. /\ \A s \in Sessions : Numbers(s) /\ Commands(s) /\ (Live(s) => Agreed(s))
      /\ Holder /\ Silenced /\ Turns
  BY DEF Heeded
<1>1. ASSUME NEW s \in Sessions, Live(s)' PROVE Agreed(s)'
  BY <1>0, <1>1 DEF Live, Unserved
<1>2. Holder' /\ Silenced'
  BY <1>0 DEF Holder, Silenced, Unserved
<1>3. Turns'
  <2> SUFFICES ASSUME ~TalkLocked', Startable'
               PROVE  /\ \A v, w \in Waiting' : v = w
                      /\ \A s \in Sessions, k \in Ids : <<s, k>> \in Waiting' =>
                           k = micId'[s] /\ (job'[s][k] = "lock" => Agreed(s)')
    BY DEF Turns
  <2>1. ~TalkLocked /\ Startable /\ Waiting' = Waiting
    BY DEF TalkLocked, Startable, Waiting, Unserved
  <2> QED BY <1>0, <2>1 DEF Turns, Unserved
<1> QED BY <1>1, <1>2, <1>3 DEF Heeded

LEMMA LeaveHeeds ==
  ASSUME PlacesOK, MicTypes, Heeded, Unserved, NEW S \in SUBSET Sessions, Leave(S)
  PROVE  MicTypes' /\ Heeded'
<1>0. /\ link \in [Sessions -> {"new", "up", "broken"}]
      /\ wire \in [Sessions -> Seq(Command)] /\ mail \in [Sessions -> Seq(Command)]
      /\ mic \in [Sessions -> Mics]
      /\ \A t \in Sessions : Numbers(t) /\ Commands(t)
      /\ UNCHANGED <<micId, job>>
  BY DEF PlacesOK, RtcPlacesOK, MicTypes, Heeded, Unserved
<1>1. ASSUME NEW t \in Sessions
      PROVE  /\ Numbers(t)' /\ Commands(t)' /\ (Agreed(t) => Agreed(t)')
             /\ wire'[t] \in Seq(Command) /\ mail'[t] \in Seq(Command) /\ mic'[t] \in Mics
  <2>1. CASE t \in S
    <3>1. /\ wire'[t] = Told(t) /\ mail'[t] = <<>> /\ link'[t] \in {link[t], "broken"}
          /\ mic'[t] = IF mic[t].st # "off" THEN MicOff(t) ELSE mic[t]
      BY <2>1 DEF Leave
    <3> QED BY <1>0, <3>1, PageStops
  <2>2. CASE t \notin S
    <3>1. wire'[t] = wire[t] /\ mail'[t] = mail[t] /\ link'[t] = link[t] /\ mic'[t] = mic[t]
      BY <2>2 DEF Leave
    <3> QED BY <1>0, <3>1, PageRests
  <2> QED BY <2>1, <2>2
<1>2. /\ wire' \in [Sessions -> Seq(Command)] /\ mail' \in [Sessions -> Seq(Command)]
      /\ mic' \in [Sessions -> Mics]
  <2>1. /\ wire' = [t \in Sessions |-> wire'[t]] /\ mail' = [t \in Sessions |-> mail'[t]]
        /\ mic' = [t \in Sessions |-> mic'[t]]
    BY DEF Leave
  <2> QED BY <1>1, <2>1
<1> QED BY <1>1, <1>2, PageHeeds DEF MicTypes, Unserved

LEMMA MicHeeds ==
  ASSUME PlacesOK, MicTypes, Heeded, Unserved, NEW t \in Sessions,
         MicToggle(t) \/ MicGranted(t) \/ MicTimeout(t) \/ MailArrives(t) \/ MicCut(t)
  PROVE  MicTypes' /\ Heeded'
<1>0. /\ link \in [Sessions -> {"new", "up", "broken"}]
      /\ wire \in [Sessions -> Seq(Command)] /\ mail \in [Sessions -> Seq(Command)]
      /\ mic \in [Sessions -> Mics]
      /\ \A s \in Sessions : Numbers(s) /\ Commands(s)
      /\ UNCHANGED <<micId, job>>
  BY DEF PlacesOK, RtcPlacesOK, MicTypes, Heeded, Unserved
<1>1. link' = link
  BY DEF MicToggle, MicGranted, MicTimeout, MicStops, MailArrives, MicCut
<1>2. /\ \A s \in Sessions : s # t => wire'[s] = wire[s] /\ mail'[s] = mail[s] /\ mic'[s] = mic[s]
      /\ wire' = [s \in Sessions |-> wire'[s]] /\ mail' = [s \in Sessions |-> mail'[s]]
      /\ mic' = [s \in Sessions |-> mic'[s]]
  <2>1. CASE MicToggle(t) \/ MicTimeout(t)
    BY <1>0, <2>1 DEF MicToggle, MicTimeout, MicStops
  <2>2. CASE MicGranted(t)
    BY <1>0, <2>2 DEF MicGranted
  <2>3. CASE MailArrives(t)
    BY <1>0, <2>3 DEF MailArrives
  <2>4. CASE MicCut(t)
    BY <1>0, <2>4 DEF MicCut
  <2> QED BY <2>1, <2>2, <2>3, <2>4
<1>3. /\ Numbers(t)' /\ Commands(t)' /\ (Agreed(t) => Agreed(t)')
      /\ wire'[t] \in Seq(Command) /\ mail'[t] \in Seq(Command) /\ mic'[t] \in Mics
  <2>1. CASE MicToggle(t) \/ MicTimeout(t)
    <3>1. CASE MicStops(t) /\ mic[t].st # "off"
      <4>1. /\ wire'[t] = Told(t) /\ mail'[t] = <<>> /\ link'[t] \in {link[t], "broken"}
            /\ mic'[t] = IF mic[t].st # "off" THEN MicOff(t) ELSE mic[t]
        BY <1>0, <3>1 DEF MicStops
      <4> QED BY <1>0, <4>1, PageStops
    <3>2. CASE ~(MicStops(t) /\ mic[t].st # "off")
      <4>1. MicToggle(t)
        BY <2>1, <3>2 DEF MicTimeout
      <4>2. /\ wire'[t] = wire[t] /\ mail'[t] = <<>> /\ link'[t] = link[t] /\ link[t] = "up"
            /\ mic[t].st = "off" /\ mic[t].id + 2 <= MaxMic
            /\ mic'[t] = [st |-> "asking", id |-> mic[t].id + 1]
        BY <1>0, <1>1, <3>2, <4>1 DEF MicToggle
      <4>3. Numbers(t) /\ Commands(t) /\ UNCHANGED <<micId, job>> /\ mail'[t] \in Seq(Command)
            /\ wire'[t] \in Seq(Command)
        BY <1>0, <4>2
      <4> QED BY <4>2, <4>3, PageAsks
    <3> QED BY <3>1, <3>2
  <2>2. CASE MicGranted(t)
    <3>1. /\ wire'[t] = Append(wire[t], [id |-> mic[t].id, on |-> TRUE]) /\ mail'[t] = mail[t]
          /\ link'[t] = link[t] /\ link[t] = "up" /\ mic[t].st = "asking"
          /\ mic'[t] = [mic[t] EXCEPT !.st = "pending"]
      BY <1>0, <2>2 DEF MicGranted
    <3> QED BY <1>0, <3>1, PageSends
  <2>3. CASE MailArrives(t)
    <3>1. /\ mail[t] # <<>> /\ mail'[t] = Tail(mail[t]) /\ wire'[t] = wire[t] /\ link'[t] = link[t]
          /\ mic'[t] = IF mic[t].st = "off" \/ Head(mail[t]).id # mic[t].id THEN mic[t]
                       ELSE IF Head(mail[t]).on THEN [mic[t] EXCEPT !.st = "on"] ELSE MicOff(t)
      BY <1>0, <2>3 DEF MailArrives
    <3> QED BY <1>0, <3>1, PageHears
  <2>4. CASE MicCut(t)
    <3>1. /\ wire'[t] = wire[t] /\ mail'[t] = mail[t] /\ link'[t] = link[t] /\ link[t] = "broken"
          /\ mic[t].st # "off" /\ mic'[t] = MicOff(t)
      BY <1>0, <2>4 DEF MicCut
    <3> QED BY <1>0, <3>1, PageCut
  <2> QED BY <2>1, <2>2, <2>3, <2>4
<1>4. ASSUME NEW s \in Sessions
      PROVE  /\ Numbers(s)' /\ Commands(s)' /\ (Agreed(s) => Agreed(s)')
             /\ wire'[s] \in Seq(Command) /\ mail'[s] \in Seq(Command) /\ mic'[s] \in Mics
  <2>1. CASE s # t
    <3>1. /\ wire'[s] = wire[s] /\ mail'[s] = mail[s] /\ link'[s] \in {link[s], "broken"}
          /\ mic'[s] = mic[s]
      BY <1>1, <1>2, <2>1
    <3> QED BY <1>0, <3>1, PageRests
  <2> QED BY <1>3, <2>1
<1>5. /\ wire' \in [Sessions -> Seq(Command)] /\ mail' \in [Sessions -> Seq(Command)]
      /\ mic' \in [Sessions -> Mics]
  BY <1>2, <1>4
<1> QED BY <1>4, <1>5, PageHeeds DEF MicTypes, Unserved

LEMMA CardLeaves ==
  ASSUME CardNext
  PROVE  Unserved /\ (UNCHANGED <<wire, mail, mic, link>> \/ Leave(Mine))
<1> USE DEF Unserved, serverVars, pageVars
<1>1. CASE CardOpens \/ OpenClosed \/ OpenOffers \/ OpenEnds \/ OpenFails
  BY <1>1 DEF CardOpens, OpenClosed, OpenOffers, OpenEnds, OpenFails, Closed, Shut
<1>2. CASE \E s \in Sessions : OpenPeer(s) \/ ReleaseAsks(s) \/ ReleaseAnswered(s) \/ ReleaseFails(s)
  BY <1>2 DEF OpenPeer, ReleaseAsks, ReleaseAnswered, ReleaseFails
<1>3. CASE CardCloses \/ CardHides \/ CardShows \/ CardRefreshes
  BY <1>3 DEF CardCloses, CardHides, CardShows, CardRefreshes, Closed, Shut
<1>4. CASE FallsBack \/ FallbackClosed \/ FallbackLoads
  BY <1>4 DEF FallsBack, FallbackClosed, FallbackLoads, Shut
<1>5. CASE CardSelects \/ SelectClosed \/ SelectEnds
  BY <1>5 DEF CardSelects, SelectClosed, SelectEnds, Shut
<1>6. CASE \E ch \in Channels : OutputClicked(ch)
  BY <1>6 DEF OutputClicked, Shut
<1>7. CASE OutputContinues \/ OutputPresses \/ OutputEnds
  BY <1>7 DEF OutputContinues, OutputPresses, OutputEnds
<1>8. CASE SocketLost(Sessions)
  BY <1>8 DEF SocketLost
<1> QED BY <1>1, <1>2, <1>3, <1>4, <1>5, <1>6, <1>7, <1>8 DEF CardNext

LEMMA RestHeeds ==
  ASSUME MicTypes, Heeded, Unserved, UNCHANGED <<wire, mail, mic, link>>
  PROVE  MicTypes' /\ Heeded'
<1>1. \A t \in Sessions : Numbers(t)' /\ Commands(t)' /\ (Agreed(t) => Agreed(t)')
  BY PageRests DEF Heeded, Unserved
<1> QED BY <1>1, PageHeeds DEF MicTypes, Unserved

LEMMA WebHeeds ==
  ASSUME PlacesOK, MicTypes, Heeded, CardNext \/ PageNext
  PROVE  MicTypes' /\ Heeded'
<1>1. CASE CardNext
  BY <1>1, CardLeaves, MineType, RestHeeds, LeaveHeeds
<1>2. CASE PageNext
  <2>1. ASSUME NEW t \in Sessions, PageLeaves(t) PROVE MicTypes' /\ Heeded'
    <3>1. Unserved /\ Leave({t}) /\ {t} \in SUBSET Sessions
      BY <2>1 DEF PageLeaves, Unserved, serverVars
    <3> QED BY <3>1, LeaveHeeds
  <2>2. ASSUME NEW t \in Sessions, ReleaseAsks(t) \/ SocketLost({t}) PROVE MicTypes' /\ Heeded'
    <3>1. Unserved /\ UNCHANGED <<wire, mail, mic, link>>
      BY <2>2 DEF ReleaseAsks, SocketLost, Unserved, serverVars
    <3> QED BY <3>1, RestHeeds
  <2>3. ASSUME NEW t \in Sessions,
               MicToggle(t) \/ MicGranted(t) \/ MicTimeout(t) \/ MailArrives(t) \/ MicCut(t)
        PROVE  MicTypes' /\ Heeded'
    <3>1. Unserved
      BY <2>3 DEF MicToggle, MicGranted, MicTimeout, MicStops, MailArrives, MicCut, Unserved, serverVars
    <3> QED BY <2>3, <3>1, MicHeeds
  <2> QED BY <1>2, <2>1, <2>2, <2>3 DEF PageNext
<1> QED BY <1>1, <1>2

-----------------------------------------------------------------------------
(* What talkback.py does with the microphone *)

\* An answer or a job under a number that is not new.
LEMMA TalkNumbers ==
  ASSUME Heeded, UNCHANGED <<micId, wire, link, mic>>,
         \A t \in Sessions : \A i \in DOMAIN mail'[t] :
           (\E j \in DOMAIN mail[t] : mail'[t][i] = mail[t][j]) \/ mail'[t][i].id <= micId[t],
         \A t \in Sessions, j \in Ids : job'[t][j] # "none" => j <= micId[t]
  PROVE  \A t \in Sessions : Numbers(t)' /\ Commands(t)'
<1> SUFFICES ASSUME NEW t \in Sessions PROVE Numbers(t)' /\ Commands(t)'
  OBVIOUS
<1>0. Numbers(t) /\ Commands(t)
  BY DEF Heeded
<1>1. \A i \in DOMAIN mail'[t] : mail'[t][i].id <= micId[t]
  BY <1>0 DEF Numbers
<1>2. Numbers(t)'
  BY <1>0, <1>1 DEF Numbers
<1> QED BY <1>0, <1>2 DEF Commands, Wants

\* A page that is not refused its last command.
LEMMA TalkAgrees ==
  ASSUME NEW t \in Sessions, Agreed(t), UNCHANGED <<micId, wire, link, mic>>,
         \A i \in DOMAIN mail'[t] :
           \/ \E j \in DOMAIN mail[t] : mail'[t][i] = mail[t][j]
           \/ mail'[t][i].id # micId[t] \/ mail'[t][i].on
  PROVE  Agreed(t)'
  BY DEF Agreed, Wants

LEMMA RefusedHeeds ==
  ASSUME MicTypes, Heeded, mic' = mic, NEW s \in Sessions, NEW k \in Ids, TalkRefused(s, k)
  PROVE  MicTypes' /\ Heeded'
<1>0. /\ \A t \in Sessions : Numbers(t) /\ Commands(t) /\ (Live(t) => Agreed(t))
      /\ Holder /\ Silenced /\ Turns
      /\ job \in [Sessions -> [Ids -> JobPcs]] /\ queue \subseteq Jobs \X Jobs
      /\ micId \in [Sessions -> Ids]
  BY DEF Heeded, MicTypes
<1>1. /\ UNCHANGED <<owner, gate, cool, reply, origin, posted, micId, wire, mic, link, viewers>>
      /\ UNCHANGED <<closing, media, joining>>
      /\ job[s][k] = "lock" /\ Turn(s, k) /\ At(s, k, "none") /\ Answered(s, k, FALSE, TRUE)
  BY DEF TalkRefused
<1>2. /\ job' \in [Sessions -> [Ids -> JobPcs]]
      /\ \A t \in Sessions, j \in Ids : job'[t][j] = IF t = s /\ j = k THEN "none" ELSE job[t][j]
  BY <1>0, <1>1, AtMoves DEF JobPcs
<1>3. /\ queue' \subseteq Jobs \X Jobs /\ ~TalkLocked /\ <<s, k>> \in Waiting
      /\ \A v \in Jobs : v \in Waiting' <=> v \in Waiting /\ v # <<s, k>>
  BY <1>0, <1>1, TurnMoves
<1>4. /\ mail' \in [Sessions -> Seq(Command)] /\ enabled' \in [Sessions -> BOOLEAN]
      /\ \A t \in Sessions : \A i \in DOMAIN mail'[t] :
              \/ \E j \in DOMAIN mail[t] : mail'[t][i] = mail[t][j]
              \/ t = s /\ mail'[t][i].id = k
  BY <1>1, OffMoves
<1>5. MicTypes'
  BY <1>1, <1>2, <1>3, <1>4 DEF MicTypes
<1>6. k <= micId[s]
  BY <1>0, <1>1 DEF Numbers
<1>7. \A t \in Sessions : Numbers(t)' /\ Commands(t)'
  <2>1. \A t \in Sessions, j \in Ids : job'[t][j] # "none" => j <= micId[t]
    BY <1>0, <1>2 DEF Numbers
  <2>2. \A t \in Sessions : \A i \in DOMAIN mail'[t] :
          (\E j \in DOMAIN mail[t] : mail'[t][i] = mail[t][j]) \/ mail'[t][i].id <= micId[t]
    BY <1>4, <1>6
  <2> QED BY <1>1, <2>1, <2>2, TalkNumbers
<1>8. ASSUME NEW t \in Sessions, Live(t)' PROVE Agreed(t)'
  <2>1. Live(t) /\ Agreed(t)
    BY <1>0, <1>1, <1>2, <1>8 DEF Live
  <2>2. ~(t = s /\ k = micId[t])
    BY <1>0, <1>1, <1>2, <1>8 DEF Live, Holder
  <2> QED BY <1>1, <1>4, <2>1, <2>2, TalkAgrees
<1>9. Holder'
  <2>1. \A t \in Sessions, j \in Ids : job'[t][j] \in Locked => job[t][j] \in Locked
    BY <1>2 DEF Locked
  <2>2. \A t \in Sessions : gate /\ owner = t => job'[t][micId[t]] = "none"
    BY <1>0, <1>2 DEF Holder
  <2> QED BY <1>0, <1>1, <2>1, <2>2 DEF Holder
<1>9b. Silenced'
  BY <1>0, <1>1, <1>2 DEF Silenced
<1>10. Turns'
  <2> SUFFICES ASSUME ~TalkLocked', Startable' PROVE \A v \in Waiting' : FALSE
    BY DEF Turns, Jobs, Waiting
  <2>1. Startable
    BY <1>1 DEF Startable
  <2>2. \A v, w \in Waiting : v = w
    BY <1>0, <1>3, <2>1 DEF Turns
  <2>3. Waiting' \subseteq Jobs
    BY DEF Waiting
  <2> QED BY <1>3, <2>2, <2>3
<1> QED BY <1>5, <1>7, <1>8, <1>9, <1>9b, <1>10 DEF Heeded

LEMMA StartsHeeds ==
  ASSUME MicTypes, Heeded, mic' = mic, NEW s \in Sessions, NEW k \in Ids, TalkStarts(s, k)
  PROVE  MicTypes' /\ Heeded'
<1>0. /\ \A t \in Sessions : Numbers(t) /\ Commands(t) /\ (Live(t) => Agreed(t))
      /\ Holder /\ Silenced /\ Turns
      /\ job \in [Sessions -> [Ids -> JobPcs]] /\ queue \subseteq Jobs \X Jobs
      /\ micId \in [Sessions -> Ids] /\ owner \in Sessions \cup {None}
  BY DEF Heeded, MicTypes
<1>1. /\ UNCHANGED <<gate, cool, posted, enabled, micId, wire, mail, mic, link, viewers, closing>>
      /\ owner = None /\ media = "live" /\ joining = None /\ ~cool /\ UNCHANGED <<media, joining>>
      /\ job[s][k] = "lock" /\ Turn(s, k) /\ At(s, k, "send")
      /\ owner' = s /\ origin' = "current" /\ reply' = "pending"
  BY DEF TalkStarts, StartRefused, ContextValid
<1>2. /\ job' \in [Sessions -> [Ids -> JobPcs]]
      /\ \A t \in Sessions, j \in Ids : job'[t][j] = IF t = s /\ j = k THEN "send" ELSE job[t][j]
  BY <1>0, <1>1, AtMoves DEF JobPcs, Locked
<1>3. /\ queue' \subseteq Jobs \X Jobs /\ ~TalkLocked /\ <<s, k>> \in Waiting
  BY <1>0, <1>1, TurnMoves
<1>4. MicTypes'
  BY <1>1, <1>2, <1>3 DEF MicTypes
<1>5. \A t \in Sessions : Numbers(t)' /\ Commands(t)'
  <2>1. \A t \in Sessions, j \in Ids : job'[t][j] # "none" => j <= micId[t]
    BY <1>0, <1>1, <1>2 DEF Numbers
  <2> QED BY <1>1, <2>1, TalkNumbers
<1>6. Agreed(s) /\ k = micId[s]
  BY <1>0, <1>1, <1>3 DEF Turns, Startable
<1>7. ~gate /\ owner # s
  BY <1>0, <1>1, RtcAssumption DEF Holder
<1>8. \A t \in Sessions, j \in Ids : job[t][j] \notin Locked
  BY <1>3 DEF TalkLocked
<1>9. ASSUME NEW t \in Sessions, Live(t)' PROVE Agreed(t)'
  <2>1. Agreed(t)
    BY <1>0, <1>1, <1>2, <1>6, <1>7, <1>9 DEF Live
  <2> QED BY <1>1, <2>1, TalkAgrees
<1>10. Holder'
  <2>1. \A t \in Sessions, j \in Ids : job'[t][j] \in Locked => t = s /\ j = k
    BY <1>2, <1>8
  <2> QED BY <1>0, <1>1, <1>7, <2>1, RtcAssumption DEF Holder
<1>11. Silenced'
  BY <1>0, <1>1, <1>2, <1>7 DEF Silenced
<1>12. Turns'
  <2>1. job'[s][k] \in Locked
    BY <1>2 DEF Locked
  <2> QED BY <2>1 DEF Turns, TalkLocked
<1> QED BY <1>4, <1>5, <1>9, <1>10, <1>11, <1>12 DEF Heeded

\* A step of the job that has the lock and keeps it.
LEMMA KeptTurns ==
  ASSUME NEW s \in Sessions, NEW k \in Ids, job'[s][k] \in Locked
  PROVE  Turns'
  BY DEF Turns, TalkLocked

LEMMA SentHeeds ==
  ASSUME MicTypes, Heeded, mic' = mic, NEW s \in Sessions, NEW k \in Ids,
         TalkSent(s, k) \/ TalkFails(s, k)
  PROVE  MicTypes' /\ Heeded'
<1>0. /\ \A t \in Sessions : Numbers(t) /\ Commands(t) /\ (Live(t) => Agreed(t))
      /\ Holder /\ Silenced /\ Turns
      /\ job \in [Sessions -> [Ids -> JobPcs]] /\ queue \subseteq Jobs \X Jobs
      /\ micId \in [Sessions -> Ids] /\ owner \in Sessions \cup {None}
  BY DEF Heeded, MicTypes
<1>1. /\ UNCHANGED <<owner, cool, reply, origin, posted, queue, enabled, micId, wire, mail, mic>>
      /\ UNCHANGED <<link, viewers, closing, media, joining>>
      /\ gate' = gate \/ gate' = FALSE
      /\ job[s][k] \in {"send", "cut", "wait"}
  BY DEF TalkSent, TalkFails
<1>2. PICK l \in {"wait", "undo"} : At(s, k, l) /\ (l = "wait" => job[s][k] = "send")
  BY DEF TalkSent, TalkFails
<1>3. /\ job' \in [Sessions -> [Ids -> JobPcs]]
      /\ \A t \in Sessions, j \in Ids : job'[t][j] = IF t = s /\ j = k THEN l ELSE job[t][j]
  BY <1>0, <1>2, AtMoves DEF JobPcs, Locked
<1>4. gate' \in BOOLEAN /\ (gate' => gate)
  <2>1. gate \in BOOLEAN
    BY DEF MicTypes
  <2>2. CASE gate' = gate
    BY <2>1, <2>2
  <2>3. CASE gate' = FALSE
    BY <2>3, Zenon
  <2> QED BY <1>1, <2>2, <2>3
<1>5. MicTypes'
  BY <1>1, <1>3, <1>4 DEF MicTypes
<1>6. \A t \in Sessions : Numbers(t)' /\ Commands(t)'
  <2>1. \A t \in Sessions, j \in Ids : job'[t][j] # "none" => j <= micId[t]
    BY <1>0, <1>1, <1>3 DEF Numbers
  <2> QED BY <1>1, <2>1, TalkNumbers
<1>7. ASSUME NEW t \in Sessions, Live(t)' PROVE Agreed(t)'
  <2>1. Agreed(t)
    BY <1>0, <1>1, <1>2, <1>3, <1>4, <1>7 DEF Live
  <2> QED BY <1>1, <2>1, TalkAgrees
<1>8. Holder'
  <2>1. \A t \in Sessions, j \in Ids : job'[t][j] \in Locked => job[t][j] \in Locked
    BY <1>1, <1>3 DEF Locked
  <2>2. \A t \in Sessions : gate /\ owner = t => job'[t][micId[t]] = "none"
    BY <1>0, <1>1, <1>3 DEF Holder
  <2> QED BY <1>0, <1>1, <1>4, <2>1, <2>2 DEF Holder
<1>9. Silenced'
  BY <1>0, <1>1, <1>2, <1>3, <1>4 DEF Silenced
<1>10. Turns'
  <2>1. job'[s][k] \in Locked
    BY <1>3 DEF Locked
  <2> QED BY <2>1, KeptTurns
<1> QED BY <1>5, <1>6, <1>7, <1>8, <1>9, <1>10 DEF Heeded

LEMMA OnHeeds ==
  ASSUME MicTypes, Heeded, mic' = mic, NEW s \in Sessions, NEW k \in Ids, TalkOn(s, k)
  PROVE  MicTypes' /\ Heeded'
<1>0. /\ \A t \in Sessions : Numbers(t) /\ Commands(t) /\ (Live(t) => Agreed(t))
      /\ Holder /\ Silenced /\ Turns
      /\ job \in [Sessions -> [Ids -> JobPcs]] /\ queue \subseteq Jobs \X Jobs
      /\ micId \in [Sessions -> Ids] /\ owner \in Sessions \cup {None}
  BY DEF Heeded, MicTypes
<1>1. /\ UNCHANGED <<owner, cool, reply, origin, posted, micId, wire, mic, link, viewers, closing>>
      /\ UNCHANGED <<media, joining>>
      /\ job[s][k] = "wait" /\ origin = "current" /\ TurnedOn(s, k)
      /\ queue' = IF k = micId[s] \/ Waiting = {} THEN queue ELSE With(<<s, k>>)
  BY DEF TalkOn, ContextValid
<1>2. owner = s /\ ~(owner' = None)
  BY <1>0, <1>1, RtcAssumption DEF Holder, Locked
<1>3. queue' \subseteq Jobs \X Jobs
  <2>1. <<s, k>> \in Jobs
    BY DEF Jobs
  <2> QED BY <1>0, <1>1, <2>1, WithMoves
<1>4. \A t \in Sessions, j \in Ids : job[t][j] \in Locked => t = s /\ j = k
  BY <1>0, <1>1 DEF Holder, Locked
<1>5. Turns'
  BY <1>2 DEF Turns, Startable
<1>6. CASE k = micId[s]
  <2>1. gate' = TRUE /\ At(s, k, "none") /\ Answered(s, k, TRUE, FALSE)
    BY <1>1, <1>6 DEF TurnedOn
  <2>2. /\ job' \in [Sessions -> [Ids -> JobPcs]]
        /\ \A t \in Sessions, j \in Ids : job'[t][j] = IF t = s /\ j = k THEN "none" ELSE job[t][j]
    BY <1>0, <2>1, AtMoves DEF JobPcs
  <2>3. /\ mail' \in [Sessions -> Seq(Command)] /\ enabled' \in [Sessions -> BOOLEAN]
        /\ \A t \in Sessions : \A i \in DOMAIN mail'[t] :
              \/ \E j \in DOMAIN mail[t] : mail'[t][i] = mail[t][j]
              \/ mail'[t][i].on /\ t = s /\ mail'[t][i].id = k
    <3>1. SaysOn(s, k)
      BY <2>1 DEF Answered, SaysOn
    <3> QED BY <3>1, OnMoves
  <2>4. gate' \in BOOLEAN
    BY <2>1, Zenon
  <2>5. MicTypes'
    BY <1>1, <1>3, <2>2, <2>3, <2>4 DEF MicTypes
  <2>6. \A t \in Sessions : Numbers(t)' /\ Commands(t)'
    <3>1. \A t \in Sessions, j \in Ids : job'[t][j] # "none" => j <= micId[t]
      BY <1>0, <2>2 DEF Numbers
    <3>2. k <= micId[s]
      BY <1>0, <1>1 DEF Numbers
    <3>3. \A t \in Sessions : \A i \in DOMAIN mail'[t] :
            (\E j \in DOMAIN mail[t] : mail'[t][i] = mail[t][j]) \/ mail'[t][i].id <= micId[t]
      BY <2>3, <3>2
    <3> QED BY <1>1, <3>1, <3>3, TalkNumbers
  <2>7. ASSUME NEW t \in Sessions, Live(t)' PROVE Agreed(t)'
    <3>1. Live(t)
      BY <1>0, <1>1, <1>2, <1>6, <2>2, <2>7 DEF Live
    <3> QED BY <1>0, <1>1, <2>3, <3>1, TalkAgrees
  <2>8. Holder'
    <3>1. \A t \in Sessions, j \in Ids : job'[t][j] \notin Locked
      BY <1>4, <2>2 DEF Locked
    <3>2. \A t \in Sessions : owner = t => job'[t][micId[t]] = "none"
      BY <1>2, <1>6, <2>2
    <3> QED BY <1>0, <1>1, <1>2, <3>1, <3>2 DEF Holder
  <2>9. Silenced'
    <3>1. closing[s] \in {"none", "mic"}
      BY <1>0, <1>1 DEF Silenced
    <3> QED BY <1>0, <1>1, <1>2, <2>2, <3>1 DEF Silenced
  <2> QED BY <1>5, <2>5, <2>6, <2>7, <2>8, <2>9 DEF Heeded
<1>7. CASE k # micId[s]
  <2>1. gate' = FALSE /\ UNCHANGED <<mail, enabled>>
        /\ \E l \in {"stopping", "stop"} : At(s, k, l)
    BY <1>1, <1>7 DEF TurnedOn
  <2>2. PICK l \in {"stopping", "stop"} : At(s, k, l)
    BY <2>1
  <2>3. /\ job' \in [Sessions -> [Ids -> JobPcs]]
        /\ \A t \in Sessions, j \in Ids : job'[t][j] = IF t = s /\ j = k THEN l ELSE job[t][j]
    BY <1>0, <2>2, AtMoves DEF JobPcs, Locked
  <2>4. gate' \in BOOLEAN /\ ~gate'
    BY <2>1, Zenon
  <2>5. MicTypes'
    BY <1>1, <1>3, <2>1, <2>3, <2>4 DEF MicTypes
  <2>6. \A t \in Sessions : Numbers(t)' /\ Commands(t)'
    <3>1. \A t \in Sessions, j \in Ids : job'[t][j] # "none" => j <= micId[t]
      BY <1>0, <1>1, <2>3 DEF Numbers
    <3> QED BY <1>1, <2>1, <3>1, TalkNumbers
  <2>7. ASSUME NEW t \in Sessions, Live(t)' PROVE Agreed(t)'
    <3>1. Live(t)
      BY <1>0, <1>1, <2>3, <2>4, <2>7 DEF Live
    <3> QED BY <1>0, <1>1, <2>1, <3>1, TalkAgrees
  <2>8. Holder'
    <3>1. \A t \in Sessions, j \in Ids : job'[t][j] \in Locked => job[t][j] \in Locked
      BY <1>1, <2>3 DEF Locked
    <3> QED BY <1>0, <1>1, <2>4, <3>1 DEF Holder
  <2>9. Silenced'
    <3>1. closing[s] \in {"none", "mic"}
      BY <1>0, <1>1 DEF Silenced
    <3> QED BY <1>0, <1>1, <2>3, <2>4, <3>1 DEF Silenced
  <2> QED BY <1>5, <2>5, <2>6, <2>7, <2>8, <2>9 DEF Heeded
<1> QED BY <1>6, <1>7

LEMMA BeginsHeeds ==
  ASSUME MicTypes, Heeded, mic' = mic, NEW s \in Sessions, NEW k \in Ids, StopBegins(s, k)
  PROVE  MicTypes' /\ Heeded'
<1>0. /\ \A t \in Sessions : Numbers(t) /\ Commands(t) /\ (Live(t) => Agreed(t))
      /\ Holder /\ Silenced /\ Turns
      /\ job \in [Sessions -> [Ids -> JobPcs]] /\ queue \subseteq Jobs \X Jobs
      /\ micId \in [Sessions -> Ids] /\ owner \in Sessions \cup {None}
  BY DEF Heeded, MicTypes
<1>1. /\ UNCHANGED <<owner, cool, reply, origin, posted, micId, wire, mic, link, viewers, closing>>
      /\ UNCHANGED <<media, joining>>
      /\ job[s][k] = "stop" /\ Turn(s, k)
  BY DEF StopBegins
<1>2. /\ queue' \subseteq Jobs \X Jobs /\ ~TalkLocked /\ <<s, k>> \in Waiting
      /\ \A v \in Jobs : v \in Waiting' <=> v \in Waiting /\ v # <<s, k>>
  BY <1>0, <1>1, TurnMoves
<1>3. \A t \in Sessions, j \in Ids : job[t][j] \notin Locked
  BY <1>2 DEF TalkLocked
<1>4. k <= micId[s] /\ micId[s] \in Ids
  BY <1>0, <1>1 DEF Numbers
<1>5. CASE owner = s
  <2>1. At(s, k, "stopping") /\ gate' = FALSE /\ UNCHANGED <<mail, enabled>>
    BY <1>5 DEF StopBegins
  <2>2. /\ job' \in [Sessions -> [Ids -> JobPcs]]
        /\ \A t \in Sessions, j \in Ids :
             job'[t][j] = IF t = s /\ j = k THEN "stopping" ELSE job[t][j]
    BY <1>0, <2>1, AtMoves DEF JobPcs, Locked
  <2>3. gate' \in BOOLEAN /\ ~gate'
    BY <2>1, Zenon
  <2>4. MicTypes'
    BY <1>1, <1>2, <2>1, <2>2, <2>3 DEF MicTypes
  <2>5. \A t \in Sessions : Numbers(t)' /\ Commands(t)'
    <3>1. \A t \in Sessions, j \in Ids : job'[t][j] # "none" => j <= micId[t]
      BY <1>0, <1>1, <2>2 DEF Numbers
    <3> QED BY <1>1, <2>1, <3>1, TalkNumbers
  <2>6. ASSUME NEW t \in Sessions, Live(t)' PROVE Agreed(t)'
    <3>1. Live(t)
      BY <1>0, <1>1, <2>2, <2>3, <2>6 DEF Live
    <3> QED BY <1>0, <1>1, <2>1, <3>1, TalkAgrees
  <2>7. Holder'
    <3>1. \A t \in Sessions, j \in Ids : job'[t][j] \in Locked => t = s /\ j = k
      BY <1>3, <2>2
    <3> QED BY <1>0, <1>1, <1>5, <2>3, <3>1 DEF Holder
  <2>8. Silenced'
    BY <1>0, <1>1, <2>2, <2>3 DEF Silenced
  <2>9. job'[s][k] \in Locked
    BY <2>2 DEF Locked
  <2> QED BY <2>4, <2>5, <2>6, <2>7, <2>8, <2>9, KeptTurns DEF Heeded
<1>6. CASE owner # s
  <2>1. At(s, k, "none") /\ Answered(s, IF k = 0 THEN micId[s] ELSE k, FALSE, FALSE) /\ gate' = gate
    BY <1>6 DEF StopBegins
  <2>2. /\ job' \in [Sessions -> [Ids -> JobPcs]]
        /\ \A t \in Sessions, j \in Ids : job'[t][j] = IF t = s /\ j = k THEN "none" ELSE job[t][j]
    BY <1>0, <2>1, AtMoves DEF JobPcs
  <2>3. PICK id \in Ids : id <= micId[s] /\ Answered(s, id, FALSE, FALSE)
    <3> DEFINE id == IF k = 0 THEN micId[s] ELSE k
    <3>1. id \in Ids /\ id <= micId[s]
      BY <1>4 DEF Ids
    <3>2. Answered(s, id, FALSE, FALSE)
      BY <2>1
    <3> QED BY <3>1, <3>2
  <2>4. /\ mail' \in [Sessions -> Seq(Command)] /\ enabled' \in [Sessions -> BOOLEAN]
        /\ \A t \in Sessions : \A i \in DOMAIN mail'[t] :
              (\E j \in DOMAIN mail[t] : mail'[t][i] = mail[t][j]) \/ (t = s /\ mail'[t][i].id = id)
    BY <2>3, OffMoves
  <2>5. MicTypes'
    BY <1>1, <1>2, <2>1, <2>2, <2>4 DEF MicTypes
  <2>6. \A t \in Sessions : Numbers(t)' /\ Commands(t)'
    <3>1. \A t \in Sessions, j \in Ids : job'[t][j] # "none" => j <= micId[t]
      BY <1>0, <2>2 DEF Numbers
    <3>2. \A t \in Sessions : \A i \in DOMAIN mail'[t] :
            (\E j \in DOMAIN mail[t] : mail'[t][i] = mail[t][j]) \/ mail'[t][i].id <= micId[t]
      BY <2>3, <2>4
    <3> QED BY <1>1, <3>1, <3>2, TalkNumbers
  <2>7. ASSUME NEW t \in Sessions, Live(t)' PROVE Agreed(t)'
    <3>1. Live(t) /\ t # s
      BY <1>0, <1>1, <1>3, <1>6, <2>1, <2>2, <2>7 DEF Live, Locked
    <3> QED BY <1>0, <1>1, <2>4, <3>1, TalkAgrees
  <2>8. Holder'
    <3>1. \A t \in Sessions, j \in Ids : job'[t][j] \notin Locked
      BY <1>3, <2>2 DEF Locked
    <3>2. \A t \in Sessions : gate /\ owner = t => job'[t][micId[t]] = "none"
      BY <1>0, <2>2 DEF Holder
    <3> QED BY <1>0, <1>1, <2>1, <3>1, <3>2 DEF Holder
  <2>9. Silenced'
    BY <1>0, <1>1, <2>1, <2>2 DEF Silenced
  <2>10. Turns'
    <3> SUFFICES ASSUME ~TalkLocked', Startable' PROVE \A v \in Waiting' : FALSE
      BY DEF Turns, Jobs, Waiting
    <3>1. \A v, w \in Waiting : v = w
      BY <1>0, <1>1, <1>2 DEF Turns, Startable
    <3>2. Waiting' \subseteq Jobs
      BY DEF Waiting
    <3> QED BY <1>2, <3>1, <3>2
  <2> QED BY <2>5, <2>6, <2>7, <2>8, <2>9, <2>10 DEF Heeded
<1> QED BY <1>5, <1>6

LEMMA EndsHeeds ==
  ASSUME MicTypes, Heeded, mic' = mic, NEW s \in Sessions, NEW k \in Ids, StopEnds(s, k)
  PROVE  MicTypes' /\ Heeded'
<1>0. /\ \A t \in Sessions : Numbers(t) /\ Commands(t) /\ (Live(t) => Agreed(t))
      /\ Holder /\ Silenced /\ Turns
      /\ job \in [Sessions -> [Ids -> JobPcs]] /\ queue \subseteq Jobs \X Jobs
      /\ micId \in [Sessions -> Ids] /\ owner \in Sessions \cup {None}
  BY DEF Heeded, MicTypes
<1>1. /\ UNCHANGED <<queue, micId, wire, mic, link, viewers, closing, media, joining>>
      /\ job[s][k] \in {"undo", "stopping"} /\ At(s, k, "none") /\ Reset
  BY DEF StopEnds
<1>2. /\ owner' = None /\ gate' = FALSE /\ reply' = "none" /\ origin' = "none"
      /\ posted' = 0 /\ cool' = TRUE
  BY <1>1 DEF Reset
<1>3. gate' \in BOOLEAN /\ ~gate' /\ cool' \in BOOLEAN /\ cool'
  BY <1>2, Zenon
<1>4. /\ job' \in [Sessions -> [Ids -> JobPcs]]
      /\ \A t \in Sessions, j \in Ids : job'[t][j] = IF t = s /\ j = k THEN "none" ELSE job[t][j]
  BY <1>0, <1>1, AtMoves DEF JobPcs
<1>5. \A t \in Sessions, j \in Ids : job'[t][j] \notin Locked
  BY <1>0, <1>1, <1>4 DEF Holder, Locked
<1>6. k <= micId[s] /\ micId[s] \in Ids
  BY <1>0, <1>1 DEF Numbers
<1>7. PICK id \in Ids : id <= micId[s] /\ (Answered(s, id, FALSE, TRUE) \/ Answered(s, id, FALSE, FALSE))
  <2> DEFINE id == IF k = 0 THEN micId[s] ELSE k
  <2>1. id \in Ids /\ id <= micId[s]
    BY <1>6 DEF Ids
  <2>2. Answered(s, id, FALSE, job[s][k] = "undo")
    BY DEF StopEnds
  <2>3. CASE job[s][k] = "undo"
    <3>1. Answered(s, id, FALSE, TRUE)
      BY <2>2, <2>3 DEF Answered
    <3> QED BY <2>1, <3>1
  <2>4. CASE job[s][k] # "undo"
    <3>1. Answered(s, id, FALSE, FALSE)
      BY <2>2, <2>4 DEF Answered
    <3> QED BY <2>1, <3>1
  <2> QED BY <2>3, <2>4
<1>8. /\ mail' \in [Sessions -> Seq(Command)] /\ enabled' \in [Sessions -> BOOLEAN]
      /\ \A t \in Sessions : \A i \in DOMAIN mail'[t] :
            (\E j \in DOMAIN mail[t] : mail'[t][i] = mail[t][j]) \/ (t = s /\ mail'[t][i].id = id)
  BY <1>7, OffMoves
<1>9. MicTypes'
  BY <1>1, <1>2, <1>3, <1>4, <1>8 DEF MicTypes
<1>10. \A t \in Sessions : Numbers(t)' /\ Commands(t)'
  <2>1. \A t \in Sessions, j \in Ids : job'[t][j] # "none" => j <= micId[t]
    BY <1>0, <1>4 DEF Numbers
  <2>2. \A t \in Sessions : \A i \in DOMAIN mail'[t] :
          (\E j \in DOMAIN mail[t] : mail'[t][i] = mail[t][j]) \/ mail'[t][i].id <= micId[t]
    BY <1>7, <1>8
  <2> QED BY <1>1, <2>1, <2>2, TalkNumbers
<1>11. \A t \in Sessions : ~Live(t)'
  BY <1>0, <1>1, <1>3, <1>5 DEF Live, Locked
<1>12. Holder'
  BY <1>2, <1>3, <1>5 DEF Holder
<1>13. Silenced'
  BY <1>0, <1>1, <1>3, <1>4 DEF Silenced
<1>14. Turns'
  BY <1>3 DEF Turns, Startable
<1> QED BY <1>9, <1>10, <1>11, <1>12, <1>13, <1>14 DEF Heeded

LEMMA CloseTalkHeeds ==
  ASSUME MicTypes, Heeded, mic' = mic, closing \in [Sessions -> ClosePcs],
         NEW s \in Sessions, CloseTalk(s)
  PROVE  MicTypes' /\ Heeded'
<1>0. /\ \A t \in Sessions : Numbers(t) /\ Commands(t) /\ (Live(t) => Agreed(t))
      /\ Holder /\ Silenced /\ Turns
      /\ job \in [Sessions -> [Ids -> JobPcs]] /\ queue \subseteq Jobs \X Jobs
      /\ micId \in [Sessions -> Ids] /\ owner \in Sessions \cup {None}
  BY DEF Heeded, MicTypes
<1>1. /\ UNCHANGED <<job, queue, enabled, micId, wire, mail, mic, link, viewers, media, joining>>
      /\ closing[s] = "talk" /\ closing' = [closing EXCEPT ![s] = "lease"] /\ Reset
  BY DEF CloseTalk
<1>2. /\ owner' = None /\ gate' = FALSE /\ reply' = "none" /\ origin' = "none"
      /\ posted' = 0 /\ cool' = TRUE
  BY <1>1 DEF Reset
<1>3. gate' \in BOOLEAN /\ ~gate' /\ cool' \in BOOLEAN /\ cool'
  BY <1>2, Zenon
<1>4. MicTypes'
  BY <1>1, <1>2, <1>3 DEF MicTypes
<1>5. \A t \in Sessions : Numbers(t)' /\ Commands(t)'
  <2>1. \A t \in Sessions, j \in Ids : job'[t][j] # "none" => j <= micId[t]
    BY <1>0, <1>1 DEF Numbers
  <2> QED BY <1>1, <2>1, TalkNumbers
<1>6. ASSUME NEW t \in Sessions, Live(t)' PROVE Agreed(t)'
  <2>1. Live(t)
    BY <1>1, <1>3, <1>6 DEF Live
  <2> QED BY <1>0, <1>1, <2>1, TalkAgrees
<1>7. Holder'
  BY <1>0, <1>1, <1>2, <1>3 DEF Holder
<1>8. Silenced'
  BY <1>0, <1>1, <1>3 DEF Silenced
<1>9. Turns'
  BY <1>3 DEF Turns, Startable
<1> QED BY <1>4, <1>5, <1>6, <1>7, <1>8, <1>9 DEF Heeded

LEMMA CutMoves == \A l \in JobPcs :
  /\ Cut(l) \in JobPcs /\ (Cut(l) \in Locked <=> l \in Locked)
  /\ Cut(l) \notin {"lock", "send", "wait", "stop"}
  /\ l = "none" => Cut(l) = "none"
  BY DEF Cut, JobPcs, Locked

LEMMA CloseMicHeeds ==
  ASSUME MicTypes, Heeded, mic' = mic, closing \in [Sessions -> ClosePcs],
         NEW s \in Sessions, CloseMic(s)
  PROVE  MicTypes' /\ Heeded'
<1>0. /\ \A t \in Sessions : Numbers(t) /\ Commands(t) /\ (Live(t) => Agreed(t))
      /\ Holder /\ Silenced /\ Turns
      /\ job \in [Sessions -> [Ids -> JobPcs]] /\ queue \subseteq Jobs \X Jobs
      /\ micId \in [Sessions -> Ids] /\ owner \in Sessions \cup {None}
  BY DEF Heeded, MicTypes
<1>1. /\ UNCHANGED <<owner, cool, origin, posted, enabled, micId, wire, mail, mic, link, viewers>>
      /\ UNCHANGED <<media, joining>>
      /\ closing[s] = "mic" /\ closing' = [closing EXCEPT ![s] = "jobs"]
      /\ gate' = (gate /\ owner # s)
      /\ reply' = IF owner = s /\ reply = "pending" THEN "error" ELSE reply
      /\ job' = [job EXCEPT ![s] = [k \in Ids |-> Cut(@[k])]]
      /\ queue' = Without({s} \X Ids)
  BY DEF CloseMic, Disabled
<1>2. gate' \in BOOLEAN /\ (gate' => gate /\ owner # s)
  BY <1>1, Zenon
<1>3. /\ job' \in [Sessions -> [Ids -> JobPcs]]
      /\ \A t \in Sessions, j \in Ids : job'[t][j] = IF t = s THEN Cut(job[s][j]) ELSE job[t][j]
  <2>1. [k \in Ids |-> Cut(job[s][k])] \in [Ids -> JobPcs]
    BY <1>0, CutMoves
  <2> QED BY <1>0, <1>1, <2>1
<1>4. /\ queue' \subseteq Jobs \X Jobs
      /\ \A v \in Jobs : v \in Waiting' <=> v \in Waiting /\ v \notin {s} \X Ids
  BY <1>0, <1>1, WithoutMoves
<1>5. MicTypes'
  <2>1. reply' \in {"none", "pending", "ok", "error"}
    BY <1>1 DEF MicTypes
  <2> QED BY <1>1, <1>2, <1>3, <1>4, <2>1 DEF MicTypes
<1>6. \A t \in Sessions, j \in Ids :
        /\ job'[t][j] \in Locked <=> job[t][j] \in Locked
        /\ job[t][j] = "none" => job'[t][j] = "none"
        /\ t # s => job'[t][j] = job[t][j]
        /\ job'[s][j] \notin {"lock", "send", "wait", "stop"}
  BY <1>0, <1>3, CutMoves
<1>7. \A t \in Sessions : Numbers(t)' /\ Commands(t)'
  <2>1. \A t \in Sessions, j \in Ids : job'[t][j] # "none" => j <= micId[t]
    BY <1>0, <1>6 DEF Numbers
  <2> QED BY <1>1, <2>1, TalkNumbers
<1>8. ASSUME NEW t \in Sessions, Agreed(t) PROVE Agreed(t)'
  BY <1>1, <1>8, TalkAgrees
<1>9. ASSUME NEW t \in Sessions, Live(t)' PROVE Agreed(t)'
  <2>1. Live(t)
    BY <1>0, <1>1, <1>2, <1>6, <1>9 DEF Live
  <2> QED BY <1>0, <1>8, <2>1
<1>10. Holder'
  <2>1. \A t \in Sessions : gate /\ owner = t => job'[t][micId[t]] = "none"
    BY <1>0, <1>6 DEF Holder
  <2> QED BY <1>0, <1>1, <1>2, <1>6, <2>1 DEF Holder
<1>11. Silenced'
  <2>1. \A t \in Sessions : closing'[t] = IF t = s THEN "jobs" ELSE closing[t]
    BY <1>1
  <2>2. s \notin viewers
    BY <1>0, <1>1 DEF Silenced
  <2> QED BY <1>0, <1>1, <1>2, <1>6, <2>1, <2>2 DEF Silenced
<1>12. Turns'
  <2> SUFFICES ASSUME ~TalkLocked', Startable'
               PROVE  /\ \A v, w \in Waiting' : v = w
                      /\ \A t \in Sessions, k \in Ids : <<t, k>> \in Waiting' =>
                           k = micId'[t] /\ (job'[t][k] = "lock" => Agreed(t)')
    BY DEF Turns
  <2>1. ~TalkLocked /\ Startable
    BY <1>1, <1>6 DEF TalkLocked, Startable
  <2>2. Waiting' \subseteq Waiting /\ \A k \in Ids : <<s, k>> \notin Waiting'
    BY <1>4 DEF Waiting, Jobs
  <2> QED BY <1>0, <1>1, <1>6, <1>8, <2>1, <2>2 DEF Turns
<1> QED BY <1>5, <1>7, <1>9, <1>10, <1>11, <1>12 DEF Heeded

LEMMA CallbackHeeds ==
  ASSUME MicTypes, Heeded, posted \in 0..2, mic' = mic, CallbackRuns
  PROVE  MicTypes' /\ Heeded'
<1>0. /\ \A t \in Sessions : Numbers(t) /\ Commands(t) /\ (Live(t) => Agreed(t))
      /\ Holder /\ Silenced /\ Turns
      /\ gate \in BOOLEAN /\ owner \in Sessions \cup {None}
      /\ reply \in {"none", "pending", "ok", "error"} /\ origin \in {"none", "current", "ended"}
  BY DEF Heeded, MicTypes
<1>1. /\ UNCHANGED <<cool, job, queue, enabled, micId, wire, mail, mic, link, viewers, closing>>
      /\ UNCHANGED <<media, joining>>
      /\ posted > 0 /\ posted' \in 0..2
  BY DEF CallbackRuns
<1>2. media' # "live"
  BY <1>0, <1>1 DEF Holder
<1>3. /\ gate' = gate \/ gate' = FALSE
      /\ reply' \in {reply, "error"}
      /\ UNCHANGED <<owner, origin>> \/ (gate' = FALSE /\ owner' = None /\ origin' = "none")
  BY DEF CallbackRuns
<1>4. gate' \in BOOLEAN /\ (gate' => gate) /\ (gate' => UNCHANGED <<owner, origin>>)
  <2>1. CASE gate' = FALSE
    BY <2>1, Zenon
  <2>2. CASE gate' # FALSE
    BY <1>0, <1>3, <2>2
  <2> QED BY <2>1, <2>2
<1>5. MicTypes'
  <2>1. owner' \in Sessions \cup {None} /\ origin' \in {"none", "current", "ended"}
    BY <1>0, <1>3
  <2> QED BY <1>0, <1>1, <1>3, <1>4, <2>1 DEF MicTypes
<1>6. \A t \in Sessions : Numbers(t)' /\ Commands(t)'
  <2>1. \A t \in Sessions, j \in Ids : job'[t][j] # "none" => j <= micId[t]
    BY <1>0, <1>1 DEF Numbers
  <2> QED BY <1>1, <2>1, TalkNumbers
<1>7. ASSUME NEW t \in Sessions, Live(t)' PROVE Agreed(t)'
  <2>1. Live(t)
    BY <1>1, <1>4, <1>7 DEF Live
  <2> QED BY <1>0, <1>1, <2>1, TalkAgrees
<1>8. Holder'
  <2>1. owner' \in {owner, None} /\ (gate' \/ origin' = "current" => owner' # None)
    BY <1>0, <1>3, <1>4 DEF Holder
  <2> QED BY <1>0, <1>1, <1>2, <1>4, <2>1 DEF Holder
<1>9. Silenced'
  BY <1>0, <1>1, <1>4 DEF Silenced
<1>10. Turns'
  BY <1>2 DEF Turns, Startable
<1> QED BY <1>5, <1>6, <1>7, <1>8, <1>9, <1>10 DEF Heeded

LEMMA CoolHeeds ==
  ASSUME MicTypes, Heeded, mic' = mic, CoolDown
  PROVE  MicTypes' /\ Heeded'
<1>0. /\ \A t \in Sessions : Numbers(t) /\ Commands(t) /\ (Live(t) => Agreed(t))
      /\ Holder /\ Silenced
  BY DEF Heeded
<1>1. /\ UNCHANGED <<owner, gate, reply, origin, posted, job, queue, enabled, micId, wire, mail, mic>>
      /\ UNCHANGED <<link, viewers, closing, media, joining>>
      /\ cool' = FALSE /\ Waiting' = {}
  BY DEF CoolDown, Waiting
<1>2. MicTypes'
  <2>1. cool' \in BOOLEAN
    BY <1>1, Zenon
  <2> QED BY <1>1, <2>1 DEF MicTypes
<1>3. \A t \in Sessions : Numbers(t)' /\ Commands(t)'
  <2>1. \A t \in Sessions, j \in Ids : job'[t][j] # "none" => j <= micId[t]
    BY <1>0, <1>1 DEF Numbers
  <2> QED BY <1>1, <2>1, TalkNumbers
<1>4. ASSUME NEW t \in Sessions, Live(t)' PROVE Agreed(t)'
  BY <1>0, <1>1, <1>4, TalkAgrees DEF Live
<1>5. Holder' /\ Silenced'
  BY <1>0, <1>1 DEF Holder, Silenced
<1>6. Turns'
  BY <1>1 DEF Turns
<1> QED BY <1>2, <1>3, <1>4, <1>5, <1>6 DEF Heeded

\* A microphone that is stopped without its page.
LEMMA AlarmHeeds ==
  ASSUME MicTypes, Heeded, mic' = mic, closing \in [Sessions -> ClosePcs],
         NEW s \in Sessions, AutoStop(s)
  PROVE  MicTypes' /\ Heeded'
<1>0. /\ \A t \in Sessions : Numbers(t) /\ Commands(t) /\ (Live(t) => Agreed(t))
      /\ Holder /\ Silenced /\ Turns
      /\ job \in [Sessions -> [Ids -> JobPcs]] /\ queue \subseteq Jobs \X Jobs
      /\ micId \in [Sessions -> Ids] /\ owner \in Sessions \cup {None}
  BY DEF Heeded, MicTypes
<1>1. /\ UNCHANGED <<owner, cool, origin, posted, micId, wire, mic, link, viewers, closing>>
      /\ UNCHANGED <<media, joining>>
      /\ s \in viewers /\ job[s][0] = "none" /\ HandedOver
      /\ gate' = (gate /\ owner # s)
      /\ reply' = IF owner = s /\ reply = "pending" THEN "error" ELSE reply
  BY DEF AutoStop, Alarmed, Disabled
<1>2. gate' \in BOOLEAN /\ (gate' => gate /\ owner # s)
  BY <1>1, Zenon
<1>3. reply' \in {"none", "pending", "ok", "error"}
  BY <1>1 DEF MicTypes
<1>4. closing[s] = "none"
  BY <1>0, <1>1 DEF Silenced
<1>5. 0 \in Ids /\ 0 <= micId[s] /\ micId[s] \in Ids
  BY <1>0, RtcAssumption DEF Ids
<1>6. CASE TalkLocked \/ owner = s
  <2>1. /\ UNCHANGED <<mail, enabled>>
        /\ TalkLocked => queue' = With(<<s, 0>>)
        /\ ~TalkLocked => queue' = queue
        /\ \E l \in {"stop", "stopping"} :
             At(s, 0, l) /\ (TalkLocked => l = "stop") /\ (~TalkLocked => l = "stopping")
    BY <1>6 DEF AutoStop, Waits
  <2>2. PICK l \in {"stop", "stopping"} :
             At(s, 0, l) /\ (TalkLocked => l = "stop") /\ (~TalkLocked => l = "stopping")
    BY <2>1
  <2>3. /\ job' \in [Sessions -> [Ids -> JobPcs]]
        /\ \A t \in Sessions, j \in Ids : job'[t][j] = IF t = s /\ j = 0 THEN l ELSE job[t][j]
    BY <1>0, <1>5, <2>2, AtMoves DEF JobPcs, Locked
  <2>4. queue' \subseteq Jobs \X Jobs
    <3>1. <<s, 0>> \in Jobs
      BY <1>5 DEF Jobs
    <3> QED BY <1>0, <2>1, <3>1, WithMoves
  <2>5. MicTypes'
    BY <1>1, <1>2, <1>3, <2>1, <2>3, <2>4 DEF MicTypes
  <2>6. \A t \in Sessions : Numbers(t)' /\ Commands(t)'
    <3>1. \A t \in Sessions, j \in Ids : job'[t][j] # "none" => j <= micId[t]
      BY <1>0, <1>5, <2>3 DEF Numbers
    <3> QED BY <1>1, <2>1, <3>1, TalkNumbers
  <2>7. ASSUME NEW t \in Sessions, Live(t)' PROVE Agreed(t)'
    <3>1. Live(t)
      BY <1>0, <1>1, <1>2, <2>3, <2>7 DEF Live
    <3> QED BY <1>0, <1>1, <2>1, <3>1, TalkAgrees
  <2>8. Holder'
    <3>1. CASE TalkLocked
      <4>1. \A t \in Sessions, j \in Ids : job'[t][j] \in Locked => job[t][j] \in Locked
        BY <2>2, <2>3, <3>1 DEF Locked
      <4>2. \A t \in Sessions : gate' /\ owner = t => job'[t][micId[t]] = "none"
        BY <1>0, <1>2, <2>3 DEF Holder
      <4> QED BY <1>0, <1>1, <1>2, <4>1, <4>2 DEF Holder
    <3>2. CASE ~TalkLocked
      <4>1. \A t \in Sessions, j \in Ids : job[t][j] \notin Locked
        BY <3>2 DEF TalkLocked
      <4>2. \A t \in Sessions, j \in Ids : job'[t][j] \in Locked => t = s /\ j = 0
        BY <2>3, <4>1
      <4>3. owner = s
        BY <1>6, <3>2
      <4> QED BY <1>0, <1>1, <1>2, <4>2, <4>3 DEF Holder
    <3> QED BY <3>1, <3>2
  <2>9. Silenced'
    BY <1>0, <1>1, <1>2, <1>4, <2>3 DEF Silenced
  <2>10. Turns'
    <3>1. CASE TalkLocked
      <4>1. \A t \in Sessions, j \in Ids : job[t][j] \in Locked => job'[t][j] \in Locked
        BY <1>1, <2>3 DEF Locked
      <4>2. TalkLocked'
        BY <1>1, <3>1, <4>1 DEF TalkLocked
      <4> QED BY <4>2 DEF Turns
    <3>2. CASE ~TalkLocked
      <4>1. job'[s][0] \in Locked
        BY <1>5, <2>2, <2>3, <3>2 DEF Locked
      <4> QED BY <1>5, <4>1, KeptTurns
    <3> QED BY <3>1, <3>2
  <2> QED BY <2>5, <2>6, <2>7, <2>8, <2>9, <2>10 DEF Heeded
<1>7. CASE ~TalkLocked /\ owner # s
  <2>1. UNCHANGED <<job, queue>> /\ Answered(s, micId[s], FALSE, FALSE)
    BY <1>7 DEF AutoStop
  <2>2. /\ mail' \in [Sessions -> Seq(Command)] /\ enabled' \in [Sessions -> BOOLEAN]
        /\ \A t \in Sessions : \A i \in DOMAIN mail'[t] :
              \/ \E j \in DOMAIN mail[t] : mail'[t][i] = mail[t][j]
              \/ t = s /\ mail'[t][i].id = micId[s]
    BY <1>5, <2>1, OffMoves
  <2>3. MicTypes'
    BY <1>1, <1>2, <1>3, <2>1, <2>2 DEF MicTypes
  <2>4. \A t \in Sessions : Numbers(t)' /\ Commands(t)'
    <3>1. \A t \in Sessions, j \in Ids : job'[t][j] # "none" => j <= micId[t]
      BY <1>0, <2>1 DEF Numbers
    <3>2. micId[s] <= micId[s]
      BY <1>5 DEF Ids
    <3>3. \A t \in Sessions : \A i \in DOMAIN mail'[t] :
            (\E j \in DOMAIN mail[t] : mail'[t][i] = mail[t][j]) \/ mail'[t][i].id <= micId[t]
      BY <2>2, <3>2
    <3> QED BY <1>1, <3>1, <3>3, TalkNumbers
  <2>5. \A t \in Sessions, j \in Ids : job[t][j] \notin Locked
    BY <1>7 DEF TalkLocked
  <2>6. ASSUME NEW t \in Sessions, Live(t)' PROVE Agreed(t)'
    <3>1. Live(t) /\ t # s
      BY <1>0, <1>1, <1>2, <1>7, <2>1, <2>5, <2>6 DEF Live, Locked
    <3> QED BY <1>0, <1>1, <2>2, <3>1, TalkAgrees
  <2>7. Holder'
    BY <1>0, <1>1, <1>2, <2>1, <2>5 DEF Holder
  <2>8. Silenced'
    BY <1>0, <1>1, <1>2, <2>1 DEF Silenced
  <2>9. Turns'
    <3>1. Waiting' = {}
      BY <1>1, <1>7, <2>1 DEF HandedOver, Waiting
    <3> QED BY <3>1 DEF Turns
  <2> QED BY <2>3, <2>4, <2>6, <2>7, <2>8, <2>9 DEF Heeded
<1> QED BY <1>6, <1>7

\* What is left in the data channel when n commands have arrived.
LEMMA RestMoves ==
  ASSUME NEW q \in Seq(Command), NEW n \in 1..Len(q)
  PROVE  LET r == SubSeq(q, n + 1, Len(q)) IN
         /\ r \in Seq(Command) /\ Len(r) = Len(q) - n /\ DOMAIN r = 1..(Len(q) - n)
         /\ \A i \in 1..(Len(q) - n) : n + i \in DOMAIN q /\ r[i] = q[n + i]
         /\ q[n] \in Command
  OBVIOUS

LEMMA Shifted ==
  ASSUME NEW n \in Nat, NEW m \in Nat, NEW l \in Nat, m + n = l, n >= 1
  PROVE  /\ \A i \in 1..m : n < n + i /\ n + (i + 1) = (n + i) + 1
         /\ \A i, j \in 1..m : i < j => n + i < n + j
         /\ \A i \in 1..m : i < m => i + 1 \in 1..m /\ n + i < l
         /\ m # 0 => m \in 1..m /\ 1 \in 1..m /\ n + m = l /\ n < l
         /\ m = 0 => n = l
  OBVIOUS

LeftOf(q, n, r) ==
  /\ r \in Seq(Command) /\ n \in DOMAIN q /\ q # <<>>
  /\ \A i \in DOMAIN q : q[i].id \in Nat
  /\ \A i \in DOMAIN r : \E a \in DOMAIN q : n < a /\ r[i] = q[a]
  /\ \A i, j \in DOMAIN r : i < j =>
       \E a, b \in DOMAIN q : a < b /\ r[i] = q[a] /\ r[j] = q[b]
  /\ \A i \in DOMAIN r : i < Len(r) =>
       \E a \in DOMAIN q : a < Len(q) /\ r[i] = q[a] /\ r[i + 1] = q[a + 1]
  /\ r # <<>> => r[Len(r)] = q[Len(q)] /\ n < Len(q) /\ r[1] = q[n + 1]
  /\ r = <<>> => n = Len(q)

LEMMA RestFacts ==
  ASSUME NEW q \in Seq(Command), NEW n \in 1..Len(q), NEW r, r = SubSeq(q, n + 1, Len(q))
  PROVE  LeftOf(q, n, r)
<1>1. Len(q) \in Nat /\ DOMAIN q = 1..Len(q)
  OBVIOUS
<1>2. n \in Nat /\ 1 <= n /\ n <= Len(q)
  BY <1>1
<1> DEFINE m == Len(q) - n
<1>3. m \in Nat /\ m + n = Len(q)
  BY <1>1, <1>2
<1>4. /\ r \in Seq(Command) /\ Len(r) = m /\ DOMAIN r = 1..m
      /\ \A i \in 1..m : n + i \in DOMAIN q /\ r[i] = q[n + i]
  BY RestMoves
<1>5. r = <<>> <=> m = 0
  BY <1>4, EmptyFacts
<1>6. q # <<>> /\ \A i \in DOMAIN q : q[i].id \in Nat
  BY <1>1, <1>2, EmptyFacts DEF Ids
<1> HIDE DEF m
<1>s. /\ \A i \in 1..m : n < n + i /\ n + (i + 1) = (n + i) + 1
      /\ \A i, j \in 1..m : i < j => n + i < n + j
      /\ \A i \in 1..m : i < m => i + 1 \in 1..m /\ n + i < Len(q)
      /\ m # 0 => m \in 1..m /\ 1 \in 1..m /\ n + m = Len(q) /\ n < Len(q)
      /\ m = 0 => n = Len(q)
  BY <1>1, <1>2, <1>3, Shifted
<1>7. \A i \in DOMAIN r : \E a \in DOMAIN q : n < a /\ r[i] = q[a]
  BY <1>4, <1>s
<1>8. \A i, j \in DOMAIN r : i < j =>
        \E a, b \in DOMAIN q : a < b /\ r[i] = q[a] /\ r[j] = q[b]
  <2> TAKE i, j \in DOMAIN r
  <2> HAVE i < j
  <2>1. /\ n + i \in DOMAIN q /\ n + j \in DOMAIN q /\ n + i < n + j
        /\ r[i] = q[n + i] /\ r[j] = q[n + j]
    BY <1>4, <1>s
  <2> QED BY <2>1
<1>9. \A i \in DOMAIN r : i < Len(r) =>
        \E a \in DOMAIN q : a < Len(q) /\ r[i] = q[a] /\ r[i + 1] = q[a + 1]
  <2> TAKE i \in DOMAIN r
  <2> HAVE i < Len(r)
  <2>1. i \in 1..m /\ i + 1 \in 1..m /\ n + (i + 1) = (n + i) + 1 /\ n + i < Len(q)
    BY <1>4, <1>s
  <2>2. n + i \in DOMAIN q /\ r[i] = q[n + i] /\ r[i + 1] = q[(n + i) + 1]
    BY <1>4, <2>1
  <2> QED BY <2>1, <2>2
<1>10. r # <<>> => r[Len(r)] = q[Len(q)] /\ n < Len(q) /\ r[1] = q[n + 1]
  BY <1>4, <1>5, <1>s
<1>11. r = <<>> => n = Len(q)
  BY <1>5, <1>s
<1> QED BY <1>1, <1>2, <1>4, <1>6, <1>7, <1>8, <1>9, <1>10, <1>11 DEF LeftOf

LEMMA SeenMoves ==
  ASSUME NEW q \in Seq(Command), NEW n \in 1..Len(q)
  PROVE  /\ SubSeq(q, 1, n)[n] = q[n] /\ SubSeq(q, 1, n)[1] = q[1]
  OBVIOUS

LEMMA ArrivedNumbers ==
  ASSUME MicTypes, NEW s \in Sessions, Numbers(s), Commands(s), UNCHANGED <<link, mic, mail>>,
         NEW n \in 1..Len(wire[s]), wire'[s] = SubSeq(wire[s], n + 1, Len(wire[s])),
         micId'[s] = wire[s][n].id,
         \A j \in Ids : job'[s][j] # "none" => job[s][j] # "none" \/ j = wire[s][n].id
  PROVE  /\ Numbers(s)' /\ Commands(s)' /\ wire'[s] \in Seq(Command)
         /\ wire[s][n].on => Agreed(s)'
<1>0. /\ wire[s] \in Seq(Command) /\ mail[s] \in Seq(Command) /\ mic[s] \in Mics
      /\ micId[s] \in Ids
  BY DEF MicTypes
<1> DEFINE q == wire[s]
           r == wire'[s]
<1>1. /\ r \in Seq(Command) /\ n \in DOMAIN q /\ q # <<>>
      /\ \A i \in DOMAIN q : q[i].id \in Nat
      /\ \A i \in DOMAIN r : \E a \in DOMAIN q : n < a /\ r[i] = q[a]
      /\ \A i, j \in DOMAIN r : i < j =>
           \E a, b \in DOMAIN q : a < b /\ r[i] = q[a] /\ r[j] = q[b]
      /\ \A i \in DOMAIN r : i < Len(r) =>
           \E a \in DOMAIN q : a < Len(q) /\ r[i] = q[a] /\ r[i + 1] = q[a + 1]
      /\ r # <<>> => r[Len(r)] = q[Len(q)] /\ n < Len(q) /\ r[1] = q[n + 1]
      /\ r = <<>> => n = Len(q)
  <2>1. q \in Seq(Command) /\ r = SubSeq(q, n + 1, Len(q))
    BY <1>0
  <2> HIDE DEF r
  <2>2. LeftOf(q, n, r)
    BY <2>1, RestFacts
  <2> QED BY <2>2 DEF LeftOf
<1>2. /\ mic[s].id \in Nat /\ micId[s] \in Nat
      /\ \A i \in DOMAIN mail[s] : mail[s][i].id \in Nat
  <2>1. \A i \in DOMAIN mail[s] : mail[s][i].id \in Ids
    BY <1>0, EmptyFacts
  <2> QED BY <1>0, <2>1 DEF Mics, Ids
<1>3. /\ link[s] # "new"
      /\ \A i \in DOMAIN q :
           /\ micId[s] < q[i].id /\ q[i].id <= mic[s].id
           /\ mic[s].st = "asking" => q[i].id < mic[s].id
           /\ \A j \in DOMAIN q : i < j => q[i].id < q[j].id
      /\ \A i \in DOMAIN mail[s] : mail[s][i].id <= micId[s]
      /\ \A i \in DOMAIN q : i < Len(q) /\ q[i].on => ~q[i + 1].on
      /\ link[s] # "broken" /\ q[Len(q)].on => Wants(s) /\ mic[s].id = q[Len(q)].id
  BY <1>1 DEF Numbers, Commands
<1> HIDE DEF q, r
<1>4. \A i \in DOMAIN mail[s] : mail[s][i].id < q[n].id
  <2> TAKE i \in DOMAIN mail[s]
  <2>1. mail[s][i].id <= micId[s] /\ micId[s] < q[n].id /\ q[n].id \in Nat
    BY <1>1, <1>3
  <2> QED BY <1>2, <2>1
<1>5. ASSUME NEW i \in DOMAIN r
      PROVE  /\ q[n].id < r[i].id /\ r[i].id <= mic[s].id
             /\ mic[s].st = "asking" => r[i].id < mic[s].id
             /\ \A j \in DOMAIN r : i < j => r[i].id < r[j].id
  <2>1. PICK a \in DOMAIN q : n < a /\ r[i] = q[a]
    BY <1>1
  <2>2. ASSUME NEW j \in DOMAIN r, i < j PROVE r[i].id < r[j].id
    <3>1. PICK b, c \in DOMAIN q : b < c /\ r[i] = q[b] /\ r[j] = q[c]
      BY <1>1, <2>2
    <3> QED BY <1>3, <3>1
  <2> QED BY <1>1, <1>3, <2>1, <2>2
<1>6. ASSUME NEW i \in DOMAIN r, i < Len(r), r[i].on PROVE ~r[i + 1].on
  <2>1. PICK a \in DOMAIN q : a < Len(q) /\ r[i] = q[a] /\ r[i + 1] = q[a + 1]
    BY <1>1, <1>6
  <2> QED BY <1>3, <1>6, <2>1
<1>7. \A j \in Ids : job'[s][j] # "none" => j <= q[n].id
  <2> SUFFICES ASSUME NEW j \in Ids, job'[s][j] # "none" PROVE j <= q[n].id
    OBVIOUS
  <2>1. CASE job[s][j] # "none"
    <3>1. j <= micId[s] /\ micId[s] < q[n].id /\ j \in Nat /\ q[n].id \in Nat
      BY <1>1, <1>3, <2>1 DEF Numbers, Ids
    <3> QED BY <1>2, <3>1
  <2>2. CASE j = q[n].id
    BY <1>1, <2>2
  <2> QED BY <2>1, <2>2 DEF q
<1>8. Numbers(s)'
  <2>1. q[n].id <= mic[s].id /\ (mic[s].st = "asking" => q[n].id < mic[s].id)
        /\ (mic[s].st # "off" => mic[s].id < MaxMic)
    BY <1>1, <1>3 DEF Numbers
  <2>2. ASSUME NEW i \in DOMAIN mail[s] PROVE mail[s][i].id <= q[n].id
    <3>1. mail[s][i].id \in Nat /\ q[n].id \in Nat /\ mail[s][i].id < q[n].id
      BY <1>1, <1>2, <1>4
    <3> QED BY <3>1
  <2> QED BY <1>3, <1>5, <1>7, <2>1, <2>2 DEF Numbers, q, r
<1>9. Commands(s)'
  <2>1. link[s] # "broken" /\ r # <<>> /\ r[Len(r)].on => Wants(s) /\ mic[s].id = r[Len(r)].id
    BY <1>1, <1>3
  <2> QED BY <1>6, <2>1 DEF Commands, Wants, r
<1>10. ASSUME q[n].on PROVE Agreed(s)'
  <2>1. r # <<>> => ~r[1].on
    BY <1>1, <1>3, <1>10
  <2>2. r = <<>> /\ link[s] # "broken" => Wants(s) /\ mic[s].id = q[n].id
    BY <1>1, <1>3, <1>10
  <2>3. \A i \in DOMAIN mail[s] : mail[s][i].id # q[n].id
    BY <1>1, <1>2, <1>4
  <2> QED BY <2>1, <2>2, <2>3 DEF Agreed, Wants, q, r
<1> QED BY <1>1, <1>8, <1>9, <1>10 DEF q, r

LEMMA ArriveHeeds ==
  ASSUME MicTypes, Heeded, mic' = mic, NEW s \in Sessions, CommandsArrive(s)
  PROVE  MicTypes' /\ Heeded'
<1>0. /\ \A t \in Sessions : Numbers(t) /\ Commands(t) /\ (Live(t) => Agreed(t))
      /\ Holder /\ Silenced /\ Turns
      /\ job \in [Sessions -> [Ids -> JobPcs]] /\ queue \subseteq Jobs \X Jobs
      /\ micId \in [Sessions -> Ids] /\ owner \in Sessions \cup {None}
      /\ wire \in [Sessions -> Seq(Command)] /\ gate \in BOOLEAN
      /\ reply \in {"none", "pending", "ok", "error"}
  BY DEF Heeded, MicTypes
<1>1. PICK n \in 1..Len(wire[s]) :
        /\ wire' = [wire EXCEPT ![s] = SubSeq(@, n + 1, Len(@))]
        /\ micId' = [micId EXCEPT ![s] = SubSeq(wire[s], 1, n)[n].id]
        /\ Waits(s, SubSeq(wire[s], 1, n)[n].id, IF SubSeq(wire[s], 1, n)[n].on THEN "lock" ELSE "stop")
        /\ IF \A i \in 1..n : SubSeq(wire[s], 1, n)[i].on THEN UNCHANGED <<gate, reply>> ELSE Disabled(s)
  BY DEF CommandsArrive
<1>2. /\ UNCHANGED <<owner, cool, origin, posted, enabled, mail, mic, link, viewers, closing>>
      /\ UNCHANGED <<media, joining>>
      /\ s \in viewers /\ HandedOver
  BY DEF CommandsArrive
<1>3. wire[s] \in Seq(Command) /\ n \in Nat /\ Len(wire[s]) \in Nat
      /\ SubSeq(wire[s], 1, n)[n] = wire[s][n] /\ SubSeq(wire[s], 1, n)[1] = wire[s][1]
      /\ 1 \in 1..n /\ wire[s] # <<>>
  <2>1. wire[s] \in Seq(Command)
    BY <1>0
  <2>2. n \in Nat /\ Len(wire[s]) \in Nat /\ 1 \in 1..n /\ wire[s] # <<>>
    BY <2>1
  <2> QED BY <2>1, <2>2, SeenMoves
<1> DEFINE id == wire[s][n].id
           l == IF wire[s][n].on THEN "lock" ELSE "stop"
<1>4. /\ \A i \in DOMAIN wire[s] : wire[s][i].id \in Ids /\ wire[s][i].on \in BOOLEAN
      /\ n \in DOMAIN wire[s] /\ DOMAIN wire[s] = 1..Len(wire[s])
  BY <1>3, EmptyFacts
<1>5. id \in Ids /\ micId[s] \in Ids /\ Ids \subseteq Nat /\ micId[s] < id /\ job[s][id] = "none"
  <2>1. id \in Ids /\ micId[s] < id /\ micId[s] \in Ids /\ Ids \subseteq Nat
    BY <1>0, <1>4 DEF Numbers, Ids
  <2>2. job[s][id] # "none" => id <= micId[s]
    BY <1>0, <2>1 DEF Numbers
  <2> HIDE DEF id
  <2>3. id \in Nat /\ micId[s] \in Nat
    BY <2>1
  <2> QED BY <2>1, <2>2, <2>3
<1>6. /\ wire' = [wire EXCEPT ![s] = SubSeq(wire[s], n + 1, Len(wire[s]))]
      /\ micId' = [micId EXCEPT ![s] = id]
      /\ At(s, id, l) /\ queue' = With(<<s, id>>) /\ l \in JobPcs /\ l \notin Locked
      /\ l \in {"lock", "stop"} /\ (l = "lock" => wire[s][n].on)
  BY <1>1, <1>3 DEF Waits, JobPcs, Locked
<1> HIDE DEF l
<1>7. /\ job' \in [Sessions -> [Ids -> JobPcs]]
      /\ \A t \in Sessions, j \in Ids : job'[t][j] = IF t = s /\ j = id THEN l ELSE job[t][j]
  <2> HIDE DEF id
  <2> QED BY <1>0, <1>5, <1>6, AtMoves
<1>8. /\ queue' \subseteq Jobs \X Jobs
      /\ \A v \in Jobs : v \in Waiting' <=> v \in Waiting \/ v = <<s, id>>
  <2>1. <<s, id>> \in Jobs
    BY <1>5 DEF Jobs
  <2> QED BY <1>0, <1>6, <2>1, WithMoves
<1>9. /\ Numbers(s)' /\ Commands(s)' /\ wire'[s] \in Seq(Command)
      /\ wire[s][n].on => Agreed(s)'
  <2>1. /\ wire'[s] = SubSeq(wire[s], n + 1, Len(wire[s])) /\ micId'[s] = id
        /\ \A j \in Ids : job'[s][j] # "none" => job[s][j] # "none" \/ j = id
    BY <1>0, <1>6, <1>7
  <2> QED BY <1>0, <1>2, <2>1, ArrivedNumbers
<1>10. /\ reply' \in {"none", "pending", "ok", "error"}
       /\ gate' = gate \/ gate' = (gate /\ owner # s)
       /\ ~wire[s][1].on => gate' = (gate /\ owner # s)
  BY <1>0, <1>1, <1>3 DEF Disabled
<1>11. gate' \in BOOLEAN /\ (gate' => gate) /\ (gate' => owner # s)
  <2>1. CASE gate' = (gate /\ owner # s)
    BY <2>1, Zenon
  <2>2. CASE gate' = gate /\ wire[s][1].on
    <3>1. ~(gate /\ owner = s)
      <4>1. gate /\ owner = s => Live(s)
        BY <1>0, <1>2 DEF Live, Silenced
      <4> QED BY <1>0, <1>3, <2>2, <4>1 DEF Agreed
    <3> QED BY <1>0, <2>2, <3>1
  <2> QED BY <1>10, <2>1, <2>2
<1>12. MicTypes'
  <2>1. wire' \in [Sessions -> Seq(Command)]
    BY <1>0, <1>6, <1>9
  <2>2. micId' \in [Sessions -> Ids]
    BY <1>0, <1>5, <1>6
  <2> QED BY <1>2, <1>7, <1>8, <1>10, <1>11, <2>1, <2>2 DEF MicTypes
<1>13. ASSUME NEW t \in Sessions, t # s
       PROVE  /\ wire'[t] = wire[t] /\ micId'[t] = micId[t]
              /\ \A j \in Ids : job'[t][j] = job[t][j]
              /\ Numbers(t)' /\ Commands(t)' /\ (Agreed(t) => Agreed(t)')
  <2>1. /\ wire'[t] = wire[t] /\ micId'[t] = micId[t] /\ \A j \in Ids : job'[t][j] = job[t][j]
    BY <1>0, <1>6, <1>7, <1>13
  <2>2. Numbers(t)'
    BY <1>0, <1>2, <2>1 DEF Numbers
  <2>3. Commands(t)' /\ (Agreed(t) => Agreed(t)')
    BY <1>0, <1>2, <2>1 DEF Commands, Agreed, Wants
  <2> QED BY <2>1, <2>2, <2>3
<1>14. micId'[s] = id
  BY <1>0, <1>6
<1>15. ASSUME NEW t \in Sessions, Live(t)' PROVE Agreed(t)'
  <2>1. t # s
    BY <1>2, <1>5, <1>6, <1>7, <1>11, <1>14, <1>15 DEF Live
  <2>2. Live(t) /\ micId[t] \in Ids
    BY <1>0, <1>2, <1>11, <1>13, <1>15, <2>1 DEF Live
  <2> QED BY <1>0, <1>13, <2>1, <2>2
<1>16. \A t \in Sessions, j \in Ids : job'[t][j] \in Locked <=> job[t][j] \in Locked
  BY <1>5, <1>6, <1>7 DEF Locked
<1>17. Holder'
  <2>1. ASSUME NEW t \in Sessions, gate', owner = t PROVE job'[t][micId'[t]] = "none"
    <3>1. t # s /\ gate /\ micId[t] \in Ids
      BY <1>0, <1>11, <2>1
    <3> QED BY <1>0, <1>13, <2>1, <3>1 DEF Holder
  <2> QED BY <1>0, <1>2, <1>11, <1>16, <2>1 DEF Holder
<1>18. Silenced'
  <2>1. closing[s] = "none"
    BY <1>0, <1>2 DEF Silenced
  <2> QED BY <1>0, <1>2, <1>7, <1>11, <2>1 DEF Silenced
<1>19. Turns'
  <2> SUFFICES ASSUME ~TalkLocked', Startable'
               PROVE  /\ \A v, w \in Waiting' : v = w
                      /\ \A t \in Sessions, k \in Ids : <<t, k>> \in Waiting' =>
                           k = micId'[t] /\ (job'[t][k] = "lock" => Agreed(t)')
    BY DEF Turns
  <2>1. Waiting = {}
    BY <1>2, <1>16 DEF HandedOver, TalkLocked
  <2>2. \A v \in Waiting' : v = <<s, id>>
    <3>1. Waiting' \subseteq Jobs
      BY DEF Waiting
    <3> QED BY <1>8, <2>1, <3>1
  <2>3. job'[s][id] = "lock" => Agreed(s)'
    BY <1>5, <1>6, <1>7, <1>9
  <2> QED BY <1>14, <2>2, <2>3
<1> QED BY <1>9, <1>12, <1>13, <1>15, <1>17, <1>18, <1>19 DEF Heeded

-----------------------------------------------------------------------------
(* What is counted *)

LEMMA RtcCounts ==
  ASSUME Counted, RtcNext, UNCHANGED cardVars
  PROVE  Counted'
<1>0. posted \in 0..2 /\ faults \in 0..MaxFaults /\ clicks \in 0..MaxClicks /\ MaxFaults \in Nat
      /\ clicks' = clicks
  BY RtcAssumption DEF Counted, cardVars
<1> SUFFICES posted' \in 0..2 /\ (faults' = faults \/ Fault)
  BY <1>0 DEF Counted, Fault
<1>1. CASE Hub
  BY <1>0, <1>1 DEF Hub, MediaUp, MediaLost, ZombieEnds, Join, SessionEnds
<1>2. CASE TalkReply \/ CallbackRuns \/ CoolDown \/ UnloadNext
  BY <1>0, <1>2 DEF TalkReply, CallbackRuns, CoolDown, UnloadNext, Unload, UnloadCloses, UnloadEnds
<1>3. ASSUME NEW s \in Sessions, OfferNext(s)
      PROVE  UNCHANGED posted /\ (faults' = faults \/ Fault)
  BY <1>3 DEF OfferNext, Offered, Register, Describe, Acquire, Acquired, Answer, OfferFails,
     OfferGivesBack, Unwound, OfferEnds
<1>4. ASSUME NEW s \in Sessions,
             CleanupCancels(s) \/ CleanupCloses(s) \/ CleanupEnds(s) \/ OfferAbandoned(s)
             \/ PeerGone(s) \/ LinkUp(s) \/ LinkLost(s)
      PROVE  UNCHANGED posted /\ (faults' = faults \/ Fault)
  BY <1>4 DEF CleanupCancels, CleanupCloses, CleanupEnds, OfferAbandoned, PeerGone, LinkUp, LinkLost
<1>5. ASSUME NEW s \in Sessions, CommandsArrive(s) \/ AutoStop(s) \/ CloseStep(s)
      PROVE  posted' \in {posted, 0} /\ (faults' = faults \/ Fault)
  BY <1>5 DEF CommandsArrive, AutoStop, Alarmed, CloseStep, CloseMic, CloseJobs, CloseTalk, CloseLease,
     Reset
<1>6. ASSUME NEW s \in Sessions, NEW k \in Ids, TalkStep(s, k)
      PROVE  posted' \in {posted, 0} /\ (faults' = faults \/ Fault)
  BY <1>6 DEF TalkStep, TalkRefused, TalkStarts, TalkSent, TalkOn, TalkFails, StopBegins, StopEnds, Reset
<1> QED BY <1>0, <1>1, <1>2, <1>3, <1>4, <1>5, <1>6 DEF RtcNext, OfferStep, OfferNext, UnloadNext

LEMMA StreamCounts ==
  ASSUME Counted, StreamNext, UNCHANGED cardVars
  PROVE  Counted'
<1>0. posted \in 0..2 /\ faults \in 0..MaxFaults /\ clicks \in 0..MaxClicks /\ MaxFaults \in Nat
      /\ clicks' = clicks
  BY RtcAssumption DEF Counted, cardVars
<1> SUFFICES posted' \in 0..2 /\ (faults' = faults \/ Fault)
  BY <1>0 DEF Counted, Fault
<1>1. ASSUME NEW r \in Readers, ReaderStep(r)
      PROVE  UNCHANGED posted /\ (faults' = faults \/ Fault)
  BY <1>1 DEF ReaderStep, Connects, Requests, AddQueue, Streams, Writes, Breaks, ReaderReady,
       ReaderGivenUp, CancelsAcquisition, RemoveQueue, EncoderJoined, ReaderReleased,
       ReaderTakes, ReaderGivesUp, ReaderReleases, hubKept
<1>2. CASE \/ \E key, large \in BOOLEAN : PacketArrives(key, large)
           \/ EncoderOpens \/ Muxes \/ DropsLate \/ Publishes \/ EncoderFails \/ EncoderEnds
           \/ StreamShuts \/ StreamShut
  BY <1>0, <1>2 DEF PacketArrives, EncoderOpens, Muxes, DropsLate, Publishes, EncoderFails,
       EncoderEnds, StreamShuts, StreamShut, hubKept
<1>3. CASE PacketRejected
  BY <1>0, <1>3 DEF PacketRejected, SessionEnds
<1> QED BY <1>0, <1>1, <1>2, <1>3 DEF StreamNext

LEMMA WebCounts ==
  ASSUME Counted, CardNext \/ PageNext
  PROVE  Counted'
<1>0. posted \in 0..2 /\ faults \in 0..MaxFaults /\ clicks \in 0..MaxClicks
      /\ MaxFaults \in Nat /\ MaxClicks \in Nat
  BY RtcAssumption, CardAssumption DEF Counted
<1> USE DEF serverVars
<1> SUFFICES UNCHANGED posted /\ (faults' = faults \/ Fault) /\ (clicks' = clicks \/ Click)
  BY <1>0 DEF Counted, Fault, Click
<1> USE DEF Fault
<1>1. CASE CardOpens \/ OpenClosed \/ OpenOffers \/ OpenEnds \/ OpenFails
  BY <1>1 DEF CardOpens, OpenClosed, OpenOffers, OpenEnds, OpenFails, Closed, Shut
<1>2. CASE \E s \in Sessions : OpenPeer(s) \/ ReleaseAsks(s) \/ ReleaseAnswered(s) \/ ReleaseFails(s)
  BY <1>2 DEF OpenPeer, ReleaseAsks, ReleaseAnswered, ReleaseFails
<1>3. CASE CardCloses \/ CardHides \/ CardShows \/ CardRefreshes
  BY <1>3 DEF CardCloses, CardHides, CardShows, CardRefreshes, Closed, Shut
<1>4. CASE FallsBack \/ FallbackClosed \/ FallbackLoads
  BY <1>4 DEF FallsBack, FallbackClosed, FallbackLoads, Shut
<1>5. CASE CardSelects \/ SelectClosed \/ SelectEnds
  BY <1>5 DEF CardSelects, SelectClosed, SelectEnds, Shut
<1>6. CASE \E ch \in Channels : OutputClicked(ch)
  BY <1>6 DEF OutputClicked, Shut
<1>7. CASE OutputContinues \/ OutputPresses \/ OutputEnds
  BY <1>7 DEF OutputContinues, OutputPresses, OutputEnds
<1>8. CASE \E S \in SUBSET Sessions : SocketLost(S)
  BY <1>8 DEF SocketLost
<1>9. CASE \E s \in Sessions : PageLeaves(s) \/ MicToggle(s) \/ MicGranted(s) \/ MicTimeout(s)
                               \/ MailArrives(s) \/ MicCut(s)
  BY <1>9 DEF PageLeaves, MicToggle, MicStops, MicGranted, MicTimeout, MailArrives, MicCut
<1>10. CASE CardNext
  BY <1>1, <1>2, <1>3, <1>4, <1>5, <1>6, <1>7, <1>8, <1>10 DEF CardNext
<1>11. CASE PageNext
  <2>1. ASSUME NEW s \in Sessions, SocketLost({s})
        PROVE  UNCHANGED posted /\ (faults' = faults \/ Fault) /\ (clicks' = clicks \/ Click)
    BY <2>1, <1>8
  <2> QED BY <1>2, <1>9, <1>11, <2>1 DEF PageNext
<1> QED BY <1>10, <1>11

-----------------------------------------------------------------------------
(* Beginning and every step of the microphone *)

LEMMA RtcHeeds ==
  ASSUME PlacesOK, SubsOnce, MicTypes, Counted, Heeded, RtcNext, mic' = mic
  PROVE  MicTypes' /\ Heeded'
<1>0. Silenced /\ posted \in 0..2 /\ closing \in [Sessions -> ClosePcs]
      /\ reply \in {"none", "pending", "ok", "error"} /\ origin \in {"none", "current", "ended"}
  BY DEF PlacesOK, RtcPlacesOK, MicTypes, Counted, Heeded
<1>1. ASSUME Untalked /\ HubQuiet /\ ClosesQuiet /\ UNCHANGED link
      PROVE  MicTypes' /\ Heeded'
  <2>1. Quiet /\ UNCHANGED <<reply, origin>>
    BY <1>1, UntalkedQuiet DEF Untalked
  <2> QED BY <1>0, <2>1, QuietHeeds, QuietTypes
<1>2. CASE Hub \/ TalkReply \/ \E s \in Sessions : LinkUp(s) \/ LinkLost(s)
  BY <1>0, <1>2, SourceQuiet, QuietHeeds, QuietTypes
<1>3. CASE UnloadNext
  BY <1>0, <1>1, <1>3, UnloadQuiet
<1>4. ASSUME NEW s \in Sessions, OfferNext(s) PROVE MicTypes' /\ Heeded'
  BY <1>0, <1>1, <1>4, OfferQuiet
<1>5. ASSUME NEW s \in Sessions, CleanupNext(s) PROVE MicTypes' /\ Heeded'
  <2>1. CASE \/ CleanupCancels(s) \/ CleanupCloses(s) \/ CleanupEnds(s) \/ OfferAbandoned(s)
             \/ PeerGone(s) \/ CloseJobs(s) \/ CloseLease(s)
    BY <1>0, <1>1, <2>1, CleanupQuiet
  <2>2. CASE CloseMic(s) \/ CloseTalk(s)
    BY <1>0, <2>2, CloseMicHeeds, CloseTalkHeeds
  <2> QED BY <1>5, <2>1, <2>2 DEF CleanupNext, CloseStep
<1>6. ASSUME NEW s \in Sessions, CommandsArrive(s) \/ AutoStop(s) PROVE MicTypes' /\ Heeded'
  BY <1>0, <1>6, ArriveHeeds, AlarmHeeds
<1>7. ASSUME NEW s \in Sessions, NEW k \in Ids, TalkStep(s, k) PROVE MicTypes' /\ Heeded'
  <2>1. CASE TalkRefused(s, k) \/ TalkStarts(s, k)
    BY <2>1, RefusedHeeds, StartsHeeds
  <2>2. CASE TalkSent(s, k) \/ TalkFails(s, k) \/ TalkOn(s, k)
    BY <2>2, SentHeeds, OnHeeds
  <2>3. CASE StopBegins(s, k) \/ StopEnds(s, k)
    BY <2>3, BeginsHeeds, EndsHeeds
  <2> QED BY <1>7, <2>1, <2>2, <2>3 DEF TalkStep
<1>8. CASE CallbackRuns \/ CoolDown
  BY <1>0, <1>8, CallbackHeeds, CoolHeeds
<1> QED BY <1>2, <1>3, <1>4, <1>5, <1>6, <1>7, <1>8
        DEF RtcNext, OfferStep, OfferNext, CleanupNext, UnloadNext

LEMMA MicBegins ==
  ASSUME NEW S \in SUBSET Sessions, NEW ch \in Channels, RtcInit(S, ch), CardInit(S)
  PROVE  MicTypes /\ Counted /\ Heeded
<1>0. /\ owner = None /\ gate = FALSE /\ cool = FALSE /\ reply = "none" /\ origin = "none"
      /\ posted = 0 /\ faults = 0 /\ clicks = 0 /\ queue = {}
      /\ job = [s \in Sessions |-> [k \in Ids |-> "none"]]
      /\ enabled = [s \in Sessions |-> FALSE] /\ micId = [s \in Sessions |-> 0]
      /\ wire = [s \in Sessions |-> <<>>] /\ mail = [s \in Sessions |-> <<>>]
      /\ mic = [s \in Sessions |-> [st |-> "off", id |-> 0]]
      /\ closing = [s \in Sessions |-> "none"]
  BY DEF RtcInit, CardInit
<1>1. 0 \in Ids /\ MaxFaults \in Nat /\ MaxClicks \in Nat
  BY RtcAssumption, CardAssumption DEF Ids
<1>2. gate \in BOOLEAN /\ cool \in BOOLEAN /\ ~gate
  BY <1>0, Zenon
<1>3. enabled \in [Sessions -> BOOLEAN]
  BY <1>0, Zenon
<1>4. <<>> \in Seq(Command) /\ DOMAIN <<>> = {}
  OBVIOUS
<1>5. MicTypes
  <2>1. wire \in [Sessions -> Seq(Command)] /\ mail \in [Sessions -> Seq(Command)]
    BY <1>0, <1>4
  <2>2. mic \in [Sessions -> Mics]
    BY <1>0, <1>1 DEF Mics
  <2>3. job \in [Sessions -> [Ids -> JobPcs]] /\ micId \in [Sessions -> Ids]
    BY <1>0, <1>1 DEF JobPcs
  <2> QED BY <1>0, <1>2, <1>3, <2>1, <2>2, <2>3 DEF MicTypes
<1>6. Counted
  BY <1>0, <1>1 DEF Counted
<1>7. ASSUME NEW s \in Sessions PROVE Numbers(s) /\ Commands(s)
  <2>1. /\ mic[s].st = "off" /\ mic[s].id = 0 /\ micId[s] = 0 /\ wire[s] = <<>> /\ mail[s] = <<>>
        /\ \A k \in Ids : job[s][k] = "none"
    BY <1>0
  <2>2. Numbers(s)
    BY <1>4, <2>1 DEF Numbers
  <2>3. Commands(s)
    BY <1>4, <2>1 DEF Commands
  <2> QED BY <2>2, <2>3
<1>8. \A s \in Sessions, k \in Ids : job[s][k] = "none"
  BY <1>0
<1>9. \A s \in Sessions : ~Live(s)
  BY <1>0, <1>1, <1>2, <1>8 DEF Live
<1>10. Holder /\ Silenced
  <2>1. Holder
    BY <1>0, <1>2, <1>8 DEF Holder, Locked
  <2>2. Silenced
    BY <1>0 DEF Silenced
  <2> QED BY <2>1, <2>2
<1>11. Turns
  <2>1. Waiting = {}
    BY <1>0 DEF Waiting
  <2> QED BY <2>1 DEF Turns
<1> QED BY <1>5, <1>6, <1>7, <1>9, <1>10, <1>11 DEF Heeded

LEMMA MicInit == Init => MicTypes /\ Counted /\ Heeded
<1> SUFFICES ASSUME Init PROVE MicTypes /\ Counted /\ Heeded
  OBVIOUS
<1>1. CASE cast = "pages"
  BY <1>1, MicBegins DEF Init
<1>2. CASE cast # "pages"
  <2>1. RtcInit({}, 1) /\ CardInit({}) /\ 1 \in Channels /\ {} \in SUBSET Sessions
    BY <1>2 DEF Init, Channels
  <2> QED BY <2>1, MicBegins
<1> QED BY <1>1, <1>2

LEMMA MicStep ==
  ASSUME IInv, MicTypes, Counted, Heeded, [Next]_vars
  PROVE  MicTypes' /\ Counted' /\ Heeded'
<1>0. PlacesOK /\ SubsOnce /\ Silenced
  BY DEF IInv, LeaseIInv, Heeded
<1>1. CASE RtcNext /\ UNCHANGED cardVars
  <2>1. mic' = mic
    BY <1>1 DEF cardVars, pageVars
  <2> QED BY <1>0, <1>1, <2>1, RtcHeeds, RtcCounts
<1>2. CASE CardNext \/ PageNext
  BY <1>0, <1>2, WebHeeds, WebCounts
<1>3. CASE StreamNext /\ UNCHANGED cardVars
  <2>1. mic' = mic
    BY <1>3 DEF cardVars, pageVars
  <2> QED BY <1>0, <1>3, <2>1, StreamQuiet, QuietHeeds, QuietTypes, StreamCounts
<1>4. CASE UNCHANGED <<rtcVars, cardVars>>
  <2>1. Unserved /\ UNCHANGED <<wire, mail, mic, link>> /\ UNCHANGED <<faults, clicks>>
    BY <1>4 DEF rtcVars, cardVars, pageVars, Unserved
  <2>2. Counted'
    BY <2>1 DEF Counted, Unserved
  <2> QED BY <2>1, <2>2, RestHeeds
<1> QED BY <1>1, <1>2, <1>3, <1>4 DEF Next, vars

-----------------------------------------------------------------------------
(* The queues of the local stream *)

\* What StreamTypeOK says beyond StreamPlacesOK: who waits for a keyframe or
\* finds an end mark has a queue, and no queue is longer than its limit.
Limits ==
  /\ waiting \subseteq queues /\ ending \subseteq queues
  /\ chunks \in [Readers -> 0..MaxChunks]
  /\ shut \in {"open", "clients", "closing", "closed"}
  /\ Len(frames) <= MaxFrames
  /\ begun \in BOOLEAN
  /\ packets \in 0..MaxPackets
  /\ errors \in 0..MaxErrors - 1

LEMMA LimitsTypes == StreamPlacesOK /\ Limits => StreamTypeOK
  BY DEF StreamPlacesOK, Limits, StreamTypeOK

LEMMA LimitsStutter ==
  ASSUME Limits, UNCHANGED <<queues, waiting, ending, chunks, shut, frames, begun, packets>>,
         errors' \in {errors, 0}
  PROVE  Limits'
<1>1. errors' \in 0..MaxErrors - 1
  BY DEF Limits, MaxErrors
<1> QED BY <1>1 DEF Limits

LEMMA ReaderLimits ==
  ASSUME StreamPlacesOK, Limits, NEW r \in Readers, ReaderStep(r)
  PROVE  Limits'
<1>0. chunks \in [Readers -> 0..MaxChunks] /\ MaxChunks \in Nat
  BY StreamAssumption DEF Limits
<1>1. CASE Connects(r) \/ Requests(r) \/ Streams(r) \/ Breaks(r) \/ ReaderTakes(r) \/ ReaderReady(r)
           \/ ReaderGivesUp(r) \/ ReaderGivenUp(r) \/ CancelsAcquisition(r)
           \/ ReaderReleases(r) \/ ReaderReleased(r)
  BY <1>1, LimitsStutter DEF Connects, Requests, Streams, Breaks, ReaderTakes, ReaderReady, ReaderGivesUp,
     ReaderGivenUp, CancelsAcquisition, ReaderReleases, ReaderReleased, sourceVars
<1>2. CASE Writes(r)
  <2>1. /\ UNCHANGED <<queues, waiting, ending, shut, frames, begun, packets, errors>>
        /\ chunks' = chunks \/ (chunks[r] > 0 /\ chunks' = [chunks EXCEPT ![r] = @ - 1])
    BY <1>2 DEF Writes, sourceVars
  <2>2. chunks' \in [Readers -> 0..MaxChunks]
    BY <1>0, <2>1
  <2> QED BY <2>1, <2>2 DEF Limits
<1>3. CASE AddQueue(r)
  <2>1. /\ UNCHANGED <<ending, chunks, shut, frames, packets, errors>>
        /\ begun' = begun \/ begun' = FALSE
        /\ \/ UNCHANGED <<queues, waiting>>
           \/ queues' = queues \cup {r} /\ waiting' = waiting \cup {r}
    BY <1>3 DEF AddQueue, sourceVars
  <2>2. begun \in BOOLEAN
    BY DEF Limits
  <2>3. begun' \in BOOLEAN
    BY <2>1, <2>2, Zenon
  <2> QED BY <2>1, <2>3 DEF Limits
<1>4. CASE RemoveQueue(r)
  <2>1. /\ UNCHANGED <<shut, frames, begun, packets, errors>>
        /\ queues' = queues \ {r} /\ waiting' = waiting \ {r} /\ ending' = ending \ {r}
        /\ chunks' = [chunks EXCEPT ![r] = 0]
    BY <1>4 DEF RemoveQueue, sourceVars
  <2>2. chunks' \in [Readers -> 0..MaxChunks]
    BY <1>0, <2>1
  <2> QED BY <2>1, <2>2 DEF Limits
<1>5. CASE EncoderJoined(r)
  <2>1. /\ UNCHANGED <<queues, waiting, ending, chunks, shut, begun, packets, errors>>
        /\ frames' = <<>>
    BY <1>5 DEF EncoderJoined, decoderVars
  <2> QED BY <2>1, StreamAssumption DEF Limits
<1> QED BY <1>1, <1>2, <1>3, <1>4, <1>5 DEF ReaderStep

\* _video_packet empties a full queue before it adds to it.
LEMMA PacketLimits ==
  ASSUME StreamPlacesOK, Limits, NEW key \in BOOLEAN, NEW large \in BOOLEAN, PacketArrives(key, large)
  PROVE  Limits'
<1>0. frames \in Seq(Packet) /\ Len(frames) <= MaxFrames /\ MaxFrames \in Nat \ {0}
      /\ packets \in 0..MaxPackets /\ MaxPackets \in Nat
  BY StreamAssumption DEF StreamPlacesOK, Limits
<1>1. /\ UNCHANGED <<queues, waiting, ending, chunks, shut, begun, errors>>
      /\ packets < MaxPackets /\ packets' = packets + 1
      /\ frames' = frames \/ Handed(key, decoding')
  BY DEF PacketArrives, Delivers, hubKept
<1>2. Len(frames') <= MaxFrames
  <2>1. Kept \in Seq(Packet) /\ Len(Kept) < MaxFrames
    BY <1>0 DEF Kept
  <2>2. ASSUME Handed(key, decoding') PROVE \E p : frames' = Kept \/ frames' = Append(Kept, p)
    BY <2>2 DEF Handed
  <2>3. ASSUME NEW p PROVE Len(Append(Kept, p)) = Len(Kept) + 1
    BY <2>1
  <2> QED BY <1>0, <1>1, <2>1, <2>2, <2>3
<1>3. packets' \in 0..MaxPackets
  BY <1>0, <1>1
<1> QED BY <1>1, <1>2, <1>3 DEF Limits

\* _publish ends a full queue instead of adding to it.
LEMMA PublishLimits ==
  ASSUME Limits, Publishes
  PROVE  Limits'
<1>0. /\ waiting \subseteq queues /\ ending \subseteq queues
      /\ chunks \in [Readers -> 0..MaxChunks] /\ MaxChunks \in Nat
  BY StreamAssumption DEF Limits
<1>1. /\ UNCHANGED <<queues, shut, frames, packets, errors>>
      /\ begun' = (begun \/ muxing.key)
  BY DEF Publishes, Begun, sourceVars
<1>2. PICK served \in SUBSET queues :
        /\ waiting' = waiting \ served
        /\ ending' = ending \cup {q \in served : chunks[q] >= MaxChunks}
        /\ chunks' = [r \in Readers |-> IF r \in {q \in served : chunks[q] >= MaxChunks} THEN 0
                                        ELSE IF r \in served THEN chunks[r] + 1 ELSE chunks[r]]
  <2> DEFINE open == IF Begun THEN queues \ ending ELSE {}
             served == IF muxing.key THEN open ELSE open \ waiting
  <2>1. served \subseteq queues
    OBVIOUS
  <2> QED BY <2>1 DEF Publishes
<1>3. chunks' \in [Readers -> 0..MaxChunks]
  <2>1. ASSUME NEW r \in Readers
        PROVE  (IF r \in {q \in served : chunks[q] >= MaxChunks} THEN 0
                ELSE IF r \in served THEN chunks[r] + 1 ELSE chunks[r]) \in 0..MaxChunks
    BY <1>0
  <2> QED BY <1>2, <2>1
<1>4. waiting' \subseteq queues /\ ending' \subseteq queues
  BY <1>0, <1>2
<1>5. begun' \in BOOLEAN
  BY <1>1, Zenon
<1> QED BY <1>1, <1>3, <1>4, <1>5 DEF Limits

LEMMA EncoderLimits ==
  ASSUME StreamPlacesOK, Limits,
         EncoderOpens \/ Muxes \/ DropsLate \/ EncoderFails \/ EncoderEnds
  PROVE  Limits'
<1>1. CASE EncoderOpens \/ EncoderEnds
  BY <1>1, LimitsStutter DEF EncoderOpens, EncoderEnds, sourceVars
<1>2. CASE Muxes \/ DropsLate
  <2>1. /\ UNCHANGED <<queues, waiting, ending, chunks, shut, begun, packets, errors>>
        /\ frames # <<>> /\ frames' \in {Tail(frames), <<>>}
    BY <1>2 DEF Muxes, DropsLate, sourceVars, decoderVars
  <2>2. Len(frames') <= Len(frames) /\ Len(frames) \in Nat /\ Len(frames') \in Nat
    BY <2>1 DEF StreamPlacesOK
  <2>3. Len(frames') <= MaxFrames
    BY <2>2, StreamAssumption DEF Limits
  <2> QED BY <2>1, <2>3 DEF Limits
<1>3. CASE EncoderFails
  <2>1. /\ UNCHANGED <<queues, waiting, shut, frames, begun, packets, errors>>
        /\ ending' = queues /\ chunks' = [r \in Readers |-> 0]
    BY <1>3 DEF EncoderFails, sourceVars
  <2> QED BY <2>1, StreamAssumption DEF Limits
<1> QED BY <1>1, <1>2, <1>3

LEMMA StreamLimits ==
  ASSUME StreamPlacesOK, Limits, StreamNext
  PROVE  Limits'
<1>1. CASE PacketRejected
  <2>1. /\ UNCHANGED <<queues, waiting, ending, chunks, shut, frames, begun>>
        /\ packets < MaxPackets /\ packets' = packets + 1
        /\ errors' = 0 \/ (errors + 1 < MaxErrors /\ errors' = errors + 1)
    BY <1>1 DEF PacketRejected, Delivers
  <2>2. packets' \in 0..MaxPackets /\ errors' \in 0..MaxErrors - 1
    BY <2>1, StreamAssumption DEF Limits, MaxErrors
  <2> QED BY <2>1, <2>2 DEF Limits
<1>2. CASE StreamShuts \/ StreamShut
  <2>1. /\ UNCHANGED <<queues, waiting, ending, chunks, frames, begun, packets, errors>>
        /\ shut' \in {"open", "clients", "closing", "closed"}
    BY <1>2 DEF StreamShuts, StreamShut, sourceVars
  <2> QED BY <2>1 DEF Limits
<1> QED BY <1>1, <1>2, ReaderLimits, PacketLimits, PublishLimits, EncoderLimits DEF StreamNext

LEMMA LimitsInit == Init => Limits
<1> SUFFICES ASSUME StreamInit PROVE Limits
  BY DEF Init
<1>1. /\ queues = {} /\ waiting = {} /\ ending = {} /\ chunks = [r \in Readers |-> 0]
      /\ shut = "open" /\ frames = <<>> /\ packets = 0 /\ errors = 0
  BY DEF StreamInit
<1>2. begun \in BOOLEAN
  BY Zenon DEF StreamInit
<1> QED BY <1>1, <1>2, StreamAssumption DEF Limits, MaxErrors

LEMMA LimitsStep == IInv /\ Limits /\ [Next]_vars => Limits'
<1> SUFFICES ASSUME StreamPlacesOK, Limits, [Next]_vars PROVE Limits'
  BY DEF IInv, StreamIInv
<1>1. CASE StreamNext
  BY <1>1, StreamLimits
<1>2. CASE SourceFollows
  BY <1>2, LimitsStutter DEF SourceFollows
<1>3. CASE UNCHANGED streamVars
  BY <1>3, LimitsStutter DEF streamVars
<1> QED BY <1>1, <1>2, <1>3 DEF Next, vars

-----------------------------------------------------------------------------
(* Theorems *)

\* IInv holds in every state: who may have a lease, what a page and the card
\* know of their sessions, how the encoder follows its readers, and which
\* packets and pictures are left in the chain.
THEOREM IInvTheorem == Spec => []IInv
<1> QED BY IInvInit, IInvStep, PTL DEF Spec

\* For any number of sessions and readers, a lease of the hub always has a task
\* that will return it (rtc.py, local_stream.py).
THEOREM LeaseReturnedTheorem == Spec => []LeaseReturned
<1>1. IInv => LeaseReturned
  <2> SUFFICES ASSUME IInv PROVE LeaseReturned
    OBVIOUS
  <2>1. SessionLeases /\ ReaderLeases
    BY DEF IInv, LeaseIInv, StreamIInv
  <2>2. \A s \in Sessions : s \in leases => InCharge(s)
    BY <2>1 DEF SessionLeases, InCharge, Running, CloseRunning
  <2>3. \A r \in Readers : r \in leases => reader[r] \notin {"none", "header", "gone"}
    BY <2>1 DEF ReaderLeases
  <2> QED BY <2>2, <2>3 DEF LeaseReturned
<1> QED BY <1>1, IInvTheorem, PTL

\* No picture is muxed whose reference the integration has dropped, whatever
\* the queues hold and however often the encoder, the source and its decoder
\* start again (local_stream.py, connect3/video.py, v1_video.py, media.py).
THEOREM PredictionTheorem == Spec => []PredictionUnbroken
<1>1. IInv => PredictionUnbroken
  BY DEF IInv, StreamIInv, Chain, Follows, PicturesIInv, PredictionUnbroken
<1> QED BY <1>1, IInvTheorem, PTL

\* A page that has left its session, with the release acknowledged, and one
\* that was never offered, leave nothing behind in the integration.
LEMMA NothingLeft ==
  ASSUME LeaseIInv, NEW s \in Sessions, sub[s] \in {"none", "done"}
  PROVE  s \notin leases /\ ~InCharge(s)
<1>0. SessionLeases /\ SubsOnce
  BY DEF LeaseIInv
<1>1. offer[s] \in {"none", "done"} /\ s \notin viewers /\ closing[s] \in {"none", "done"}
  BY <1>0 DEF SubsOnce
<1> QED BY <1>0, <1>1 DEF SessionLeases, InCharge, Running, CloseRunning

\* The card presses an output of the other entry only when none of its viewers
\* has a lease, an offer or a cleanup left (welcomeeye-card.js, _output).
THEOREM PressTheorem == Spec => PressAfterRelease
<1>1. IInv /\ [Next]_vars =>
        [Presses /\ outTo # sel =>
           /\ visible
           /\ \A s \in Sessions : s \notin leases /\ ~InCharge(s)]_vars
  <2> SUFFICES ASSUME IInv, Next, Presses, outTo # sel
               PROVE  visible /\ \A s \in Sessions : s \notin leases /\ ~InCharge(s)
    OBVIOUS
  <2>0. LeaseIInv /\ PagesOnce /\ OneSession /\ PressReady /\ WebTypes
    BY PlacesTypes DEF IInv, LeaseIInv
  <2>1. OutputPresses
    <3>1. out # "press" /\ out' = "press"
      BY DEF Presses
    <3>2. CASE CardNext
      BY <3>1, <3>2 DEF CardNext, CardOpens, OpenClosed, OpenOffers, OpenEnds, OpenFails, OpenPeer,
         CardCloses, CardHides, CardShows, CardRefreshes, FallsBack, FallbackClosed, FallbackLoads,
         CardSelects, SelectClosed, SelectEnds, OutputClicked, OutputContinues, OutputEnds,
         SocketLost, ReleaseAsks, ReleaseAnswered, ReleaseFails, Closed, taskVars
    <3>3. CASE PageNext
      BY <3>1, <3>3 DEF PageNext, PageLeaves, ReleaseAsks, SocketLost, MicToggle, MicStops, MicGranted,
         MicTimeout, MailArrives, MicCut, taskVars
    <3>4. CASE UNCHANGED cardVars
      BY <3>1, <3>4 DEF cardVars, taskVars
    <3> QED BY <3>2, <3>3, <3>4 DEF Next
  <2>2. /\ out \in {"settings", "settle"} /\ outOk /\ visible
        /\ out = "settings" \/ (Settled /\ AllReleased)
    BY <2>1 DEF OutputPresses, Presses
  <2>3. cast = "card" /\ cur = None /\ Settled /\ AllReleased
    BY <2>0, <2>2 DEF PressReady
  <2> SUFFICES ASSUME NEW s \in Sessions PROVE s \notin leases /\ ~InCharge(s)
    BY <2>2
  <2>4. page[s] \in {"unused", "left"}
    BY <2>0, <2>3, RtcAssumption DEF OneSession, WebTypes, Pages
  <2>5. released[s] \in {"no", "ok"}
    BY <2>0, <2>3 DEF Settled, AllReleased, WebTypes, Releases
  <2>6. sub[s] \in {"none", "done"}
    BY <2>0, <2>4, <2>5 DEF PagesOnce
  <2> QED BY <2>0, <2>6, NothingLeft
<1> QED BY <1>1, IInvTheorem, PTL DEF Spec, PressAfterRelease

\* MicIInv holds in every state: which commands and answers may be on their way,
\* which jobs may have the lock of the microphone or wait for it, and what a
\* page that is heard has asked for.
THEOREM MicIInvTheorem == Spec => []MicIInv
<1>1. Init => MicTypes /\ Counted /\ Heeded
  BY MicInit
<1>2. IInv /\ (MicTypes /\ Counted /\ Heeded) /\ [Next]_vars => (MicTypes /\ Counted /\ Heeded)'
  BY MicStep
<1>3. IInv /\ (MicTypes /\ Counted /\ Heeded) => MicIInv
  BY MicParts DEF IInv, LeaseIInv
<1> QED BY <1>1, <1>2, <1>3, IInvTheorem, PTL DEF Spec

\* The device hears a page only while its microphone is shown on or pending, or
\* until a stop that is on its way, a lost connection or the cleanup that begins
\* ends it, for any number of sessions (talkback.py, rtc.py, welcomeeye-card.js).
THEOREM MicFollowsUserTheorem == Spec => []MicFollowsUser
<1>1. MicIInv => MicFollowsUser
  <2> SUFFICES ASSUME MicIInv, NEW s \in Sessions, gate, owner = s, closing[s] # "mic"
               PROVE  /\ closing[s] = "none"
                      /\ \/ mic[s].st \in {"pending", "on"}
                         \/ \E i \in DOMAIN wire[s] : ~wire[s][i].on
                         \/ link[s] = "broken"
    BY DEF MicFollowsUser
  <2>1. closing[s] = "none"
    BY DEF MicIInv, Silenced
  <2>2. Agreed(s) /\ wire[s] \in Seq(Command)
    BY <2>1 DEF MicIInv, Live, RtcTypeOK
  <2>3. wire[s] # <<>> => 1 \in DOMAIN wire[s]
    BY <2>2, EmptyFacts
  <2> QED BY <2>1, <2>2, <2>3 DEF Agreed, Wants
<1> QED BY <1>1, MicIInvTheorem, PTL
\* Types of all variables of all casts: every queue of the local stream keeps
\* within its limit (local_stream.py _video_packet, _publish), and what waits in
\* a data channel of a page is a command or a state of one of its numbers.
THEOREM TypeCorrect == Spec => []TypeOK
<1>1. IInv /\ MicIInv /\ Limits => TypeOK
  BY LimitsTypes DEF IInv, StreamIInv, PicturesIInv, MicIInv, TypeOK
<1>2. Init => Limits
  BY LimitsInit
<1>3. IInv /\ Limits /\ [Next]_vars => Limits'
  BY LimitsStep
<1> QED BY <1>1, <1>2, <1>3, IInvTheorem, MicIInvTheorem, PTL DEF Spec
=============================================================================
