------------------------- MODULE Diagnostic_proofs -------------------------
(***************************************************************************)
(* Proofs about the sessions of a legacy device and the diagnostics among  *)
(* them, for any set of devices, any casts and any number of faults:       *)
(* frames, identities, and that a diagnostic is alone.                     *)
(***************************************************************************)
EXTENDS Diagnostic, FiniteSetTheorems, TLAPS

\* The listener and the command are users of a protected device, the entry's.
OwnOK(u) ==
  /\ u \in {"ring", "command"} => approval[u] = "none"
  /\ u = "ring" /\ at[u] = "open" => info[u].dev.uid = Own
  /\ u = "command" /\ at[u] = "waiting" => info[u].dev.uid = Own

\* A session other than a diagnostic: it has a socket between connect and close,
\* it uses what it was allowed to find, and between two frames its stream is
\* at the beginning of one.
UserOK(u) ==
  /\ Connected(u) => at[u] \in {"login", "reply", "open", "waiting"}
  /\ at[u] \in {"login", "reply", "open", "waiting"} => Connected(u)
  /\ at[u] \in {"tcp", "login", "reply", "open", "waiting"} =>
       info[u] # NoObs /\ info[u].dev.protected = (approval[u] = "none")
  /\ rd[u] \in {"out", "word"} => pos[u] = "boundary"
  /\ at[u] \in {"open", "waiting"} /\ approval[u] = "none" => info[u].dev.uid = peer[u].uid
  /\ u \notin parties => at[u] = "idle"
  /\ OwnOK(u)

\* A diagnostic holds the locks from its start until its thread is over, and
\* its reader, until it has failed, is between two frames when it reads nothing.
DiagOK ==
  /\ at[D] \in {"idle", "discover", "tcp", "login", "reply", "request", "open",
                "stopav", "stopreply", "stop", "over"}
  /\ Connected(D) => at[D] \notin {"idle", "discover", "tcp", "over"}
  /\ at[D] # "idle" => held
  /\ held => at[D] # "idle" /\ at["command"] = "idle" /\ at["media"] = "idle" /\ "ring" \notin parties
  /\ at[D] \in {"idle", "discover", "tcp", "login", "reply", "request", "open", "stopreply"} => usable
  /\ at[D] \in {"request", "open"} => known
  /\ at[D] \in {"idle", "over", "stopav", "stop"} => rd[D] = "out"
  /\ at[D] \in {"idle", "over"} => pos[D] = "boundary"
  /\ rd[D] = "word" => pos[D] = "boundary"
  /\ rd[D] = "out" /\ usable /\ at[D] # "stop" => pos[D] = "boundary"

IInv == TypeOK /\ (\A u \in Users \ {D} : UserOK(u)) /\ DiagOK

USE SessionAssumption
USE DEF worldVars, castVars, discVars, connVars, sockVars, sessionVars, diagVars

-----------------------------------------------------------------------------
(* Observations and places *)

LEMMA NoObservation == NoObs \notin Observations
<1> DEFINE z == 0
<1>1. \A i \in Ids : i # z BY DEF Ids
<1> HIDE DEF z
<1>2. [id |-> z] \notin Observations BY <1>1 DEF Observations
<1> QED BY <1>2 DEF NoObs, z

LEMMA NobodyIsNoDevice == NoPeer \notin Devices
<1> DEFINE z == 0
<1>1. \A d \in Devices : d.port # z OBVIOUS
<1> HIDE DEF z
<1>2. [port |-> z] \notin Devices BY <1>1
<1> QED BY <1>2 DEF NoPeer, z

LEMMA OneMore ==
  ASSUME NEW S, NEW x, IsFiniteSet(S), x \notin S, NEW T, T = S \cup {x}
  PROVE  IsFiniteSet(T) /\ Cardinality(T) = Cardinality(S) + 1
BY FS_AddElement

LEMMA FiveUsers == Cardinality(Users) = 5
<1> DEFINE A == {"ring"}
           B == {"ring", "command"}
           C == {"ring", "command", "media"}
           E == {"ring", "command", "media", "flow"}
<1>1. /\ A = {} \cup {"ring"} /\ B = A \cup {"command"} /\ C = B \cup {"media"}
      /\ E = C \cup {"flow"} /\ Users = E \cup {"diag"}
  BY DEF Users
<1>2. "command" \notin A /\ "media" \notin B /\ "flow" \notin C /\ "diag" \notin E
  OBVIOUS
<1>3. IsFiniteSet({}) /\ Cardinality({}) = 0 /\ "ring" \notin {} BY FS_EmptySet
<1> HIDE DEF A, B, C, E
<1>4. IsFiniteSet(A) /\ Cardinality(A) = Cardinality({}) + 1 BY <1>1, <1>3, OneMore
<1>5. IsFiniteSet(B) /\ Cardinality(B) = Cardinality(A) + 1 BY <1>1, <1>2, <1>4, OneMore
<1>6. IsFiniteSet(C) /\ Cardinality(C) = Cardinality(B) + 1 BY <1>1, <1>2, <1>5, OneMore
<1>7. IsFiniteSet(E) /\ Cardinality(E) = Cardinality(C) + 1 BY <1>1, <1>2, <1>6, OneMore
<1>8. Cardinality(Users) = Cardinality(E) + 1 BY <1>1, <1>2, <1>7, OneMore
<1> QED BY <1>3, <1>4, <1>5, <1>6, <1>7, <1>8

\* There is an identifier that neither the cache nor a session refers to.
LEMMA FreshId == Fresh \in Ids
<1> DEFINE a == cache.id
           b == info["ring"].id
           c == info["command"].id
           d == info["media"].id
           e == info["flow"].id
           g == info["diag"].id
<1>1. Ids = 1..7 BY FiveUsers DEF Ids
<1>2. \E i \in Ids : i # a /\ i # b /\ i # c /\ i # d /\ i # e /\ i # g
  <2> HIDE DEF a, b, c, d, e, g
  <2> QED BY <1>1
<1>3. \E i \in Ids : i # cache.id /\ \A u \in Users : i # info[u].id
  BY <1>2 DEF Users
<1> QED BY <1>3 DEF Fresh

\* What is found is a record with an identifier and a device.
LEMMA Found == ASSUME NEW o \in Observations PROVE o.dev \in Devices /\ o # NoObs
BY NoObservation DEF Observations

LEMMA Made == ASSUME NEW d \in Devices PROVE [id |-> Fresh, dev |-> d] \in Observations
BY FreshId DEF Observations

LEMMA UserNames == {"ring", "command", "media", "flow", D} \subseteq Users /\ D \notin {"ring", "command", "media", "flow"}
BY DEF Users, D

-----------------------------------------------------------------------------
(* A step of one session leaves the others alone *)

ConnTypes ==
  /\ at \in [Users -> Steps]
  /\ info \in [Users -> Observations \cup {NoObs}]
  /\ again \in [Users -> BOOLEAN]
  /\ peer \in [Users -> Devices \cup {NoPeer}]
  /\ pos \in [Users -> {"boundary", "inword", "afterword"}]
  /\ rd \in [Users -> {"out", "word", "inword", "body"}]

Only(u) ==
  \A w \in Users \ {u} :
    at'[w] = at[w] /\ peer'[w] = peer[w] /\ info'[w] = info[w] /\ rd'[w] = rd[w] /\ pos'[w] = pos[w]

\* The session of u has ended.
Ended(u) == at'[u] \in {"idle", "retry", "evict", "ended"} /\ peer'[u] = NoPeer
            /\ rd'[u] = "out" /\ pos'[u] = "boundary"

LEMMA SessionConn == ASSUME TypeOK PROVE ConnTypes
BY DEF TypeOK, SessionTypeOK, ConnTypes

LEMMA ClosesEffect ==
  ASSUME ConnTypes, NEW u \in Users, NEW n \in Steps, Closes(u, n)
  PROVE  ConnTypes' /\ Only(u) /\ at'[u] = n /\ peer'[u] = NoPeer /\ rd'[u] = "out" /\ pos'[u] = "boundary"
<1>1. info' \in [Users -> Observations \cup {NoObs}] BY DEF ConnTypes, Closes
<1>2. \A w \in Users \ {u} : info'[w] = info[w] BY DEF ConnTypes, Closes
<1>3. ConnTypes' BY <1>1 DEF ConnTypes, Closes
<1> QED BY <1>2, <1>3 DEF ConnTypes, Closes, Only

LEMMA AfterStep == \A u : After(u) \in {"retry", "idle"}
BY DEF After

LEMMA EndsEffect ==
  ASSUME ConnTypes, NEW u \in Users, NEW n \in {"idle", "retry", "evict", "ended"}, Closes(u, n)
  PROVE  ConnTypes' /\ Only(u) /\ Ended(u)
<1>1. n \in Steps BY DEF Steps
<1> QED BY <1>1, ClosesEffect DEF Ended

LEMMA AfterEffect ==
  ASSUME ConnTypes, NEW u \in Users, Closes(u, After(u)) PROVE ConnTypes' /\ Only(u) /\ Ended(u)
<1>1. PICK n \in {"idle", "retry", "evict", "ended"} : n = After(u) BY AfterStep
<1> QED BY <1>1, EndsEffect

LEMMA TransportEffect ==
  ASSUME ConnTypes, NEW u \in Users, TransportFails(u) PROVE ConnTypes' /\ Only(u) /\ Ended(u)
<1>1. PICK n \in {"idle", "retry", "evict", "ended"} : Closes(u, n)
  <2>1. CASE info[u] # NoObs /\ ~Closed(u) BY <2>1 DEF TransportFails
  <2>2. CASE ~(info[u] # NoObs /\ ~Closed(u)) BY <2>2, AfterStep DEF TransportFails
  <2> QED BY <2>1, <2>2
<1> QED BY <1>1, EndsEffect

LEMMA BreaksEffect ==
  ASSUME ConnTypes, NEW u \in Users, Breaks(u) PROVE ConnTypes' /\ Only(u) /\ Ended(u)
BY TransportEffect, AfterEffect DEF Breaks

\* A read moves the reader and the stream.
LEMMA ReadsEffect ==
  ASSUME ConnTypes, NEW u \in Users, NEW r \in {"out", "word", "inword", "body"},
         NEW p \in {"boundary", "inword", "afterword"}, Reads(u, r, p)
  PROVE  /\ ConnTypes' /\ Only(u) /\ at'[u] = at[u] /\ peer'[u] = peer[u] /\ info'[u] = info[u]
         /\ rd'[u] = r /\ pos'[u] = p
<1>1. ConnTypes' BY DEF Reads, ConnTypes
<1> QED BY <1>1 DEF Reads, ConnTypes, Only

\* An observation that was allowed is used, or refused.
LEMMA DiscoveredEffect ==
  ASSUME ConnTypes, NEW u \in Users, NEW o \in Observations, Allowed(u, o.dev), Discovered(u, o),
         approval \in [Users -> Uids \cup {"none"}]
  PROVE  /\ ConnTypes' /\ Only(u)
         /\ \/ Ended(u)
            \/ /\ at'[u] = "tcp" /\ peer'[u] = peer[u] /\ rd'[u] = rd[u] /\ pos'[u] = pos[u]
               /\ info'[u] = o /\ o.dev.protected = (approval[u] = "none")
<1>1. CASE Usable(u, o.dev) /\ ~Closed(u)
  <2>1. info' = [info EXCEPT ![u] = o] /\ at' = [at EXCEPT ![u] = "tcp"] /\ UNCHANGED <<sockVars, again>>
    BY <1>1 DEF Discovered
  <2>2. ConnTypes' BY <2>1 DEF ConnTypes, Steps, Before
  <2>3. o.dev.protected \in BOOLEAN BY Found
  <2>4. o.dev.protected = (approval[u] = "none") BY <1>1, <2>3 DEF Usable, Allowed
  <2> QED BY <2>1, <2>2, <2>4 DEF ConnTypes, Only
<1>2. CASE ~(Usable(u, o.dev) /\ ~Closed(u)) BY <1>2, AfterEffect DEF Discovered
<1> QED BY <1>1, <1>2
-----------------------------------------------------------------------------
(* The steps of a session that is not a diagnostic *)

UserStep(u) ==
  \/ Open(u) \/ DiscoverCached(u) \/ DiscoverProbes(u) \/ ProbeAnswered(u) \/ ProbeFails(u)
  \/ TcpConnects(u) \/ TcpRefused(u) \/ RecoverAfterRefused(u) \/ Evict(u)
  \/ SendLogin(u) \/ LoginAccepted(u) \/ LoginRefused(u) \/ ReadStep(u) \/ Finishes(u)
  \/ u = "command" /\ (CommandFallsBack \/ CommandSends \/ CommandAnswered)

Moved(u) == ConnTypes' /\ Only(u) /\ UserOK(u)'

LEMMA EndedOK ==
  ASSUME NEW u \in Users, u \in parties, UserOK(u), ConnTypes', Only(u), Ended(u), UNCHANGED castVars
  PROVE  Moved(u)
<1>1. /\ at'[u] \in {"idle", "retry", "evict", "ended"} /\ rd'[u] = "out" /\ pos'[u] = "boundary"
      /\ ~Connected(u)'
  BY DEF Ended, Connected
<1>2. OwnOK(u)' BY <1>1 DEF UserOK, OwnOK
<1> QED BY <1>1, <1>2 DEF UserOK, Moved

LEMMA UserMoves ==
  ASSUME TypeOK, NEW u \in Users \ {D}, u \in parties, UserOK(u), UserStep(u), UNCHANGED castVars
  PROVE  Moved(u)
<1> DEFINE Cast == u \in Users /\ u # "diag"
<1>1. Cast BY DEF D
<1>2. ConnTypes BY SessionConn
<1>3. /\ approval \in [Users -> Uids \cup {"none"}] /\ cache \in Observations \cup {NoObs}
      /\ device \in Devices
  BY DEF TypeOK, SessionTypeOK
<1> USE <1>1, <1>2, <1>3
<1> HIDE DEF Cast
<1> HIDE DEF TypeOK
<1>open. CASE Open(u) \/ (u = "command" /\ CommandFallsBack)
  <2>1. CASE Begins(u)
    <3>1. /\ at' = [at EXCEPT ![u] = "discover"] /\ UNCHANGED <<connVars, sockVars>> BY <2>1 DEF Begins
    <3>2. ConnTypes' /\ Only(u) BY <3>1 DEF ConnTypes, Only, Steps, Before
    <3>3. at[u] \in {"idle", "retry"} BY <1>open DEF Open, CommandFallsBack
    <3>4. at'[u] = "discover" /\ ~Connected(u)' BY <3>1, <3>3 DEF ConnTypes, UserOK, Connected
    <3>5. OwnOK(u)' BY <3>4 DEF UserOK, OwnOK
    <3>6. rd'[u] \in {"out", "word"} => pos'[u] = "boundary" BY <3>1 DEF UserOK
    <3> QED BY <3>2, <3>4, <3>5, <3>6 DEF Moved, UserOK
  <2>2. CASE ~Begins(u)
    <3>1. Closes(u, "idle") BY <1>open, <2>2 DEF Open, CommandFallsBack, ControlSession
    <3> QED BY <3>1, EndsEffect, EndedOK
  <2> QED BY <2>1, <2>2
<1>found. ASSUME NEW o \in Observations, Allowed(u, o.dev), Discovered(u, o), ~Connected(u)
          PROVE  Moved(u)
  <2>1. /\ ConnTypes' /\ Only(u)
        /\ \/ Ended(u)
           \/ /\ at'[u] = "tcp" /\ peer'[u] = peer[u] /\ rd'[u] = rd[u] /\ pos'[u] = pos[u]
              /\ info'[u] = o /\ o.dev.protected = (approval[u] = "none")
    BY <1>found, DiscoveredEffect
  <2>2. CASE Ended(u) BY <2>1, <2>2, EndedOK
  <2>3. CASE ~Ended(u)
    <3>1. at'[u] = "tcp" /\ ~Connected(u)' /\ info'[u] # NoObs BY <1>found, <2>1, <2>3, Found DEF Connected
    <3>2. OwnOK(u)' BY <3>1 DEF UserOK, OwnOK
    <3>3. info'[u].dev.protected = (approval'[u] = "none") BY <2>1, <2>3
    <3> QED BY <2>1, <2>3, <3>1, <3>2, <3>3 DEF Moved, UserOK
  <2> QED BY <2>2, <2>3
<1>cached. CASE DiscoverCached(u)
  <2>1. ~Connected(u) /\ cache \in Observations BY <1>cached DEF DiscoverCached, UserOK
  <2>2. CASE Allowed(u, cache.dev) BY <1>cached, <1>found, <2>1, <2>2 DEF DiscoverCached
  <2>3. CASE ~Allowed(u, cache.dev) BY <1>cached, <2>3, AfterEffect, EndedOK DEF DiscoverCached
  <2> QED BY <2>2, <2>3
<1>probes. CASE DiscoverProbes(u)
  <2>1. at[u] = "discover" /\ at' = [at EXCEPT ![u] = "probe"] /\ UNCHANGED <<connVars, sockVars>>
    BY <1>probes DEF DiscoverProbes
  <2>2. ConnTypes' /\ Only(u) BY <2>1 DEF ConnTypes, Only, Steps, Before
  <2>3. at'[u] = "probe" /\ ~Connected(u)' BY <2>1 DEF ConnTypes, UserOK, Connected
  <2>4. OwnOK(u)' BY <2>3 DEF UserOK, OwnOK
  <2> QED BY <2>1, <2>2, <2>3, <2>4 DEF Moved, UserOK
<1>answered. CASE ProbeAnswered(u)
  <2>1. ~Connected(u) BY <1>answered DEF ProbeAnswered, UserOK
  <2>2. CASE Allowed(u, device)
    <3>1. PICK o \in Observations : o.dev = device /\ Discovered(u, o)
      BY <1>answered, <2>2, Made DEF ProbeAnswered
    <3> QED BY <1>found, <2>1, <2>2, <3>1
  <2>3. CASE ~Allowed(u, device) BY <1>answered, <2>3, AfterEffect, EndedOK DEF ProbeAnswered
  <2> QED BY <2>2, <2>3
<1>fails. CASE ProbeFails(u) BY <1>fails, TransportEffect, EndedOK DEF ProbeFails
<1>connects. CASE TcpConnects(u)
  <2>1. CASE Closed(u) BY <1>connects, <2>1, BreaksEffect, EndedOK DEF TcpConnects
  <2>2. CASE ~Closed(u)
    <3>1. /\ at[u] = "tcp" /\ at' = [at EXCEPT ![u] = "login"] /\ peer' = [peer EXCEPT ![u] = device]
          /\ again' = [again EXCEPT ![u] = FALSE] /\ UNCHANGED <<rd, pos, info>>
      BY <1>connects, <2>2 DEF TcpConnects
    <3>2. ConnTypes' /\ Only(u) BY <3>1 DEF ConnTypes, Only, Steps, Before
    <3>3. at'[u] = "login" /\ Connected(u)' BY <3>1, NobodyIsNoDevice DEF ConnTypes, Connected
    <3>4. OwnOK(u)' BY <3>3 DEF UserOK, OwnOK
    <3> QED BY <3>1, <3>2, <3>3, <3>4 DEF Moved, UserOK
  <2> QED BY <2>1, <2>2
<1>refused. CASE TcpRefused(u)
  <2>1. CASE again[u] BY <1>refused, <2>1, BreaksEffect, EndedOK DEF TcpRefused
  <2>2. CASE ~again[u]
    <3>1. at[u] = "tcp" /\ at' = [at EXCEPT ![u] = "refused"] /\ UNCHANGED <<sockVars, connVars>>
      BY <1>refused, <2>2 DEF TcpRefused
    <3>2. ConnTypes' /\ Only(u) BY <3>1 DEF ConnTypes, Only, Steps, Before
    <3>3. at'[u] = "refused" /\ ~Connected(u)' BY <3>1 DEF ConnTypes, UserOK, Connected
    <3>4. OwnOK(u)' BY <3>3 DEF UserOK, OwnOK
    <3> QED BY <3>1, <3>2, <3>3, <3>4 DEF Moved, UserOK
  <2> QED BY <2>1, <2>2
<1>recovers. CASE RecoverAfterRefused(u)
  <2>1. /\ at[u] = "refused" /\ at' = [at EXCEPT ![u] = "discover"]
        /\ again' = [again EXCEPT ![u] = TRUE] /\ UNCHANGED <<info, sockVars>>
    BY <1>recovers DEF RecoverAfterRefused
  <2>2. ConnTypes' /\ Only(u) BY <2>1 DEF ConnTypes, Only, Steps, Before
  <2>3. at'[u] = "discover" /\ ~Connected(u)' BY <2>1 DEF ConnTypes, UserOK, Connected
  <2>4. OwnOK(u)' BY <2>3 DEF UserOK, OwnOK
  <2> QED BY <2>1, <2>2, <2>3, <2>4 DEF Moved, UserOK
<1>evict. CASE Evict(u) BY <1>evict, AfterEffect, EndedOK DEF Evict
<1>login. CASE SendLogin(u)
  <2>1. CASE ~Writable(u) BY <1>login, <2>1, BreaksEffect, EndedOK DEF SendLogin
  <2>2. CASE Writable(u)
    <3>1. /\ at[u] = "login" /\ at' = [at EXCEPT ![u] = "reply"] /\ rd' = [rd EXCEPT ![u] = "word"]
          /\ pos' = [pos EXCEPT ![u] = "boundary"] /\ UNCHANGED <<peer, connVars>>
      BY <1>login, <2>2 DEF SendLogin
    <3>2. ConnTypes' /\ Only(u) BY <3>1 DEF ConnTypes, Only, Steps
    <3>3. at'[u] = "reply" /\ Connected(u)' /\ pos'[u] = "boundary"
      BY <3>1 DEF ConnTypes, UserOK, Connected
    <3>4. OwnOK(u)' BY <3>3 DEF UserOK, OwnOK
    <3> QED BY <3>1, <3>2, <3>3, <3>4 DEF Moved, UserOK
  <2> QED BY <2>1, <2>2
<1>accepted. CASE LoginAccepted(u)
  <2>1. CASE u = "ring" /\ ~Identified(u) BY <1>accepted, <2>1, EndsEffect, EndedOK DEF LoginAccepted
  <2>2. CASE ~(u = "ring" /\ ~Identified(u))
    <3>1. /\ at[u] = "reply" /\ at' = [at EXCEPT ![u] = "open"] /\ rd' = [rd EXCEPT ![u] = "out"]
          /\ pos' = [pos EXCEPT ![u] = "boundary"] /\ UNCHANGED <<peer, connVars>> /\ LoginDecodes(u)
      BY <1>accepted, <2>2 DEF LoginAccepted
    <3>2. ConnTypes' /\ Only(u) BY <3>1 DEF ConnTypes, Only, Steps
    <3>3. at'[u] = "open" /\ Connected(u)' /\ pos'[u] = "boundary"
      BY <3>1 DEF ConnTypes, UserOK, Connected
    <3>4. approval[u] = "none" => info[u].dev.uid = peer[u].uid BY <3>1 DEF LoginDecodes, UserOK
    <3>5. OwnOK(u)' BY <2>2, <3>1, <3>3 DEF UserOK, OwnOK, Identified
    <3> QED BY <3>1, <3>2, <3>3, <3>4, <3>5 DEF Moved, UserOK
  <2> QED BY <2>1, <2>2
<1>rejected. CASE LoginRefused(u)
  <2>1. CASE Closes(u, After(u)) BY <2>1, AfterEffect, EndedOK
  <2>2. CASE Closes(u, "ended") BY <2>2, EndsEffect, EndedOK
  <2> QED BY <1>rejected, <2>1, <2>2 DEF LoginRefused
<1>reads. ASSUME NEW r \in {"out", "word", "inword", "body"}, NEW p \in {"boundary", "inword", "afterword"},
                 Reads(u, r, p), Connected(u), r \in {"out", "word"} => p = "boundary"
          PROVE  Moved(u)
  <2>1. /\ ConnTypes' /\ Only(u) /\ at'[u] = at[u] /\ peer'[u] = peer[u] /\ info'[u] = info[u]
        /\ rd'[u] = r /\ pos'[u] = p
    BY <1>reads, ReadsEffect
  <2>2. OwnOK(u)' BY <2>1 DEF UserOK, OwnOK
  <2> QED BY <1>reads, <2>1, <2>2 DEF Moved, UserOK, Connected
<1>read. CASE ReadStep(u)
  <2>1. CASE ReadsAgain(u)
    <3>1. Reads(u, "word", pos[u]) /\ Connected(u) /\ pos[u] = "boundary" BY <2>1 DEF ReadsAgain, UserOK
    <3> QED BY <1>reads, <3>1
  <2>2. CASE ReceivesPart(u) BY <1>reads, <2>2 DEF ReceivesPart, Receiving
  <2>3. CASE ReceivesWord(u) BY <1>reads, <2>3 DEF ReceivesWord, Receiving
  <2>4. CASE ReceivesZero(u) BY <1>reads, <2>4 DEF ReceivesZero, Receiving
  <2>5. CASE ReceivesOther(u)
    <3>1. PICK r \in {"out", "word"} : Reads(u, r, "boundary") BY <2>5 DEF ReceivesOther
    <3> QED BY <1>reads, <2>5, <3>1 DEF ReceivesOther, Complete, Receiving
  <2>6. CASE IdlesOn(u)
    <3>1. rd[u] = "word" /\ Connected(u) /\ Reads(u, "out", pos[u])
      <4>1. rd[u] = "word" /\ Connected(u) /\ UNCHANGED <<worldVars, discVars, at, connVars, peer, pos, via, faults>>
            /\ rd' = [rd EXCEPT ![u] = "out"] BY <2>6 DEF IdlesOn, Receiving, Clean
      <4>2. pos' = [pos EXCEPT ![u] = pos[u]] BY <4>1 DEF ConnTypes
      <4> QED BY <4>1, <4>2 DEF Reads
    <3>2. pos[u] = "boundary" BY <3>1 DEF UserOK
    <3> QED BY <1>reads, <3>1, <3>2
  <2>7. CASE IdlesOut(u) BY <2>7, AfterEffect, EndedOK DEF IdlesOut
  <2>8. CASE ReadFails(u) BY <2>8, BreaksEffect, EndedOK DEF ReadFails
  <2>9. CASE Lost(u) BY <2>9, BreaksEffect, EndedOK DEF Lost
  <2> QED BY <1>read, <2>1, <2>2, <2>3, <2>4, <2>5, <2>6, <2>7, <2>8, <2>9 DEF ReadStep
<1>finishes. CASE Finishes(u) BY <1>finishes, EndsEffect, EndedOK DEF Finishes
<1>sends. CASE u = "command" /\ CommandSends
  <2>1. CASE ~Identified(u) BY <1>sends, <2>1, EndsEffect, EndedOK DEF CommandSends
  <2>2. CASE Identified(u)
    <3>1. at[u] = "open" /\ at' = [at EXCEPT ![u] = "waiting"] /\ UNCHANGED <<sockVars, connVars>>
      BY <1>sends, <2>2 DEF CommandSends
    <3>2. ConnTypes' /\ Only(u) BY <3>1 DEF ConnTypes, Only, Steps
    <3>3. at'[u] = "waiting" /\ Connected(u)' BY <3>1 DEF ConnTypes, UserOK, Connected
    <3>4. OwnOK(u)' BY <1>sends, <2>2, <3>1, <3>3 DEF UserOK, OwnOK, Identified
    <3> QED BY <3>1, <3>2, <3>3, <3>4 DEF Moved, UserOK
  <2> QED BY <2>1, <2>2
<1>replied. CASE u = "command" /\ CommandAnswered
  BY <1>replied, EndsEffect, EndedOK DEF CommandAnswered
<1> QED
  BY <1>open, <1>cached, <1>probes, <1>answered, <1>fails, <1>connects, <1>refused, <1>recovers, <1>evict,
     <1>login, <1>accepted, <1>rejected, <1>read, <1>finishes, <1>sends, <1>replied DEF UserStep
-----------------------------------------------------------------------------
(* The steps of the diagnostic *)

DiagMoved == ConnTypes' /\ Only(D) /\ DiagOK'

LEMMA DiagName == D = "diag" /\ D \in Users /\ "command" \in Users \ {D} /\ "media" \in Users \ {D}
BY DEF D, Users

\* What reads the socket of the diagnostic, its own reader or the steps of Session
LEMMA DiagReadsOn ==
  ASSUME ConnTypes, DiagOK, NEW r \in {"out", "word", "inword", "body"},
         NEW p \in {"boundary", "inword", "afterword"}, Reads(D, r, p), UNCHANGED <<usable, known>>,
         rd[D] # "out" \/ at[D] \in {"open", "stopreply"}, r \in {"out", "word"} => p = "boundary"
  PROVE  DiagMoved
<1>1. /\ ConnTypes' /\ Only(D) /\ at'[D] = at[D] /\ peer'[D] = peer[D] /\ rd'[D] = r /\ pos'[D] = p
  BY ReadsEffect, DiagName
<1>2. UNCHANGED <<parties, held>> BY DEF Reads
<1>3. at'["command"] = at["command"] /\ at'["media"] = at["media"] BY <1>1, DiagName DEF Only
<1>4. (Connected(D) <=> Connected(D)') BY <1>1 DEF Connected
<1> QED BY <1>1, <1>2, <1>3, <1>4 DEF DiagOK, DiagMoved

LEMMA DiagListens ==
  ASSUME ConnTypes, DiagOK, UserStep(D), UNCHANGED <<usable, known>> PROVE DiagMoved
<1>1. D = "diag" BY DiagName
<1>2. ReadStep(D)
  BY <1>1 DEF UserStep, DiagOK, Open, DiscoverCached, DiscoverProbes, ProbeAnswered, ProbeFails, TcpConnects,
     TcpRefused, RecoverAfterRefused, Evict, SendLogin, LoginAccepted, LoginRefused, Finishes
<1>3. ReceivesPart(D) \/ ReceivesWord(D) \/ ReceivesZero(D) \/ ReceivesOther(D)
  <2>1. Mode(D) = "diag" BY <1>1 DEF Mode
  <2> QED BY <1>1, <1>2, <2>1 DEF ReadStep, ReadsAgain, IdlesOn, IdlesOut, ReadFails, Lost
<1>4. PICK r \in {"out", "word", "inword", "body"}, p \in {"boundary", "inword", "afterword"} :
        Reads(D, r, p) /\ rd[D] # "out" /\ (r \in {"out", "word"} => p = "boundary")
  <2>1. CASE ReceivesPart(D) BY <2>1 DEF ReceivesPart
  <2>2. CASE ReceivesWord(D) BY <2>2 DEF ReceivesWord
  <2>3. CASE ReceivesZero(D) BY <2>3 DEF ReceivesZero
  <2>4. CASE ReceivesOther(D) BY <2>4 DEF ReceivesOther, Complete
  <2> QED BY <1>3, <2>1, <2>2, <2>3, <2>4
<1> QED BY <1>4, DiagReadsOn

\* A failure ends the thread, or has it stop what it started, reading no more.
LEMMA DiagFailsOK ==
  ASSUME ConnTypes, DiagOK, DiagFails, at[D] # "idle", UNCHANGED <<parties, held>> PROVE DiagMoved
<1>1. /\ ConnTypes' /\ Only(D) /\ rd'[D] = "out" /\ ~usable'
      /\ \/ at'[D] = "over" /\ ~Connected(D)' /\ pos'[D] = "boundary"
         \/ at'[D] \in {"stopav", "stop"}
  <2>1. CASE Cleanup = "over"
    <3>1. Closes(D, "over") /\ ~usable' /\ "over" \in Steps BY <2>1 DEF DiagFails, Steps
    <3> QED BY <3>1, ClosesEffect, DiagName DEF Connected
  <2>2. CASE Cleanup # "over"
    <3>1. PICK n \in {"stopav", "stop"} : n = Cleanup BY <2>2 DEF Cleanup
    <3>2. /\ at' = [at EXCEPT ![D] = n] /\ rd' = [rd EXCEPT ![D] = "out"] /\ ~usable'
          /\ UNCHANGED <<peer, pos, connVars>>
      BY <2>2, <3>1 DEF DiagFails, DiagGo
    <3> QED BY <3>2, DiagName DEF ConnTypes, Only, Steps
  <2> QED BY <2>1, <2>2
<1>2. at'["command"] = at["command"] /\ at'["media"] = at["media"] BY <1>1, DiagName DEF Only
<1> QED BY <1>1, <1>2 DEF DiagOK, DiagMoved

LEMMA DiagMoves ==
  ASSUME TypeOK, DiagOK, DiagNext PROVE DiagMoved /\ UNCHANGED castVars
<1>1. ConnTypes BY SessionConn
<1>2. device \in Devices /\ usable \in BOOLEAN /\ started \in BOOLEAN /\ known \in BOOLEAN BY DEF TypeOK, SessionTypeOK
<1> USE <1>1, <1>2, DiagName
<1> HIDE DEF TypeOK
<1>a. ASSUME NEW o \in Operations, DiagStarts(o) PROVE DiagMoved /\ UNCHANGED castVars
  <2>1. /\ at[D] = "idle" /\ at' = [at EXCEPT ![D] = "discover"] /\ held' /\ Quiet /\ usable'
        /\ UNCHANGED <<castVars, connVars, sockVars>>
    BY <1>a DEF DiagStarts, DiagGo
  <2>2. ConnTypes' /\ Only(D) BY <2>1 DEF ConnTypes, Only, Steps, Before
  <2>3. at'[D] = "discover" /\ at'["command"] = "idle" /\ at'["media"] = "idle" /\ "ring" \notin parties'
    BY <2>1 DEF ConnTypes, Quiet
  <2>4. ~Connected(D)' /\ rd'[D] = "out" /\ pos'[D] = "boundary" BY <2>1 DEF DiagOK, Connected
  <2> QED BY <2>1, <2>2, <2>3, <2>4 DEF DiagMoved, DiagOK
<1>b. CASE Cancelled
  <2>1. DiagFails /\ at[D] # "idle" /\ UNCHANGED <<castVars, held>> BY <1>b DEF Cancelled, DiagKept
  <2> QED BY <2>1, DiagFailsOK
<1>c. CASE DiagDiscovers
  <2>1. at[D] = "discover" /\ UNCHANGED <<castVars, held>> BY <1>c DEF DiagDiscovers, DiagKept
  <2>2. CASE ~(device.protected /\ device.uid = Own) BY <1>c, <2>1, <2>2, DiagFailsOK DEF DiagDiscovers
  <2>3. CASE device.protected /\ device.uid = Own
    <3>1. /\ info' = [info EXCEPT ![D] = [id |-> Fresh, dev |-> device]]
          /\ at' = [at EXCEPT ![D] = "tcp"] /\ UNCHANGED <<sockVars, again, usable>>
      BY <1>c, <2>3 DEF DiagDiscovers, DiagGo
    <3>2. ConnTypes' /\ Only(D) BY <3>1, Made DEF ConnTypes, Only, Steps, Before
    <3>3. at'[D] = "tcp" /\ ~Connected(D)' BY <2>1, <3>1 DEF DiagOK, ConnTypes, Connected
    <3>4. at'["command"] = at["command"] /\ at'["media"] = at["media"] BY <3>2 DEF Only
    <3> QED BY <2>1, <3>1, <3>2, <3>3, <3>4 DEF DiagMoved, DiagOK
  <2> QED BY <2>2, <2>3
<1>d. CASE DiagConnects
  <2>1. at[D] = "tcp" /\ UNCHANGED <<castVars, held>> BY <1>d DEF DiagConnects, DiagKept
  <2>2. CASE info[D].dev.port # device.port BY <1>d, <2>1, <2>2, DiagFailsOK DEF DiagConnects
  <2>3. CASE info[D].dev.port = device.port
    <3>1. /\ peer' = [peer EXCEPT ![D] = device]
          /\ at' = [at EXCEPT ![D] = "login"] /\ UNCHANGED <<rd, pos, connVars, usable>>
      BY <1>d, <2>3 DEF DiagConnects, DiagGo
    <3>2. ConnTypes' /\ Only(D) BY <3>1 DEF ConnTypes, Only, Steps, Before
    <3>3. at'[D] = "login" BY <3>1 DEF ConnTypes
    <3>4. at'["command"] = at["command"] /\ at'["media"] = at["media"] BY <3>2 DEF Only
    <3> QED BY <2>1, <3>1, <3>2, <3>3, <3>4 DEF DiagMoved, DiagOK
  <2> QED BY <2>2, <2>3
<1>e. CASE DiagLogsIn
  <2>1. /\ at[D] = "login" /\ at' = [at EXCEPT ![D] = "reply"] /\ rd' = [rd EXCEPT ![D] = "word"]
        /\ pos' = [pos EXCEPT ![D] = "boundary"] /\ UNCHANGED <<castVars, held, connVars, peer, usable, known>>
    BY <1>e DEF DiagLogsIn, DiagKept, DiagGo
  <2>2. ConnTypes' /\ Only(D) BY <2>1 DEF ConnTypes, Only, Steps
  <2>3. at'[D] = "reply" /\ rd'[D] = "word" /\ pos'[D] = "boundary" BY <2>1 DEF ConnTypes
  <2>4. at'["command"] = at["command"] /\ at'["media"] = at["media"] BY <2>2 DEF Only
  <2> QED BY <2>1, <2>2, <2>3, <2>4 DEF DiagMoved, DiagOK
<1>f. CASE DiagLoggedIn
  <2>1. at[D] = "reply" /\ UNCHANGED <<castVars, held>> BY <1>f DEF DiagLoggedIn, DiagKept
  <2>2. CASE ~LoginDecodes(D) BY <1>f, <2>1, <2>2, DiagFailsOK DEF DiagLoggedIn
  <2>3. CASE LoginDecodes(D)
    <3>1. /\ at' = [at EXCEPT ![D] = "request"] /\ rd' = [rd EXCEPT ![D] = "out"]
          /\ pos' = [pos EXCEPT ![D] = "boundary"] /\ UNCHANGED <<peer, connVars, usable>> /\ known'
      BY <1>f, <2>3 DEF DiagLoggedIn, DiagGo
    <3>2. ConnTypes' /\ Only(D) BY <3>1 DEF ConnTypes, Only, Steps
    <3>3. at'[D] = "request" /\ rd'[D] = "out" /\ pos'[D] = "boundary" BY <3>1 DEF ConnTypes
    <3>4. at'["command"] = at["command"] /\ at'["media"] = at["media"] BY <3>2 DEF Only
    <3> QED BY <2>1, <3>1, <3>2, <3>3, <3>4 DEF DiagMoved, DiagOK
  <2> QED BY <2>2, <2>3
<1>g. CASE DiagRequests
  <2>1. /\ at[D] = "request" /\ at' = [at EXCEPT ![D] = "open"]
        /\ UNCHANGED <<castVars, held, connVars, sockVars, usable, known>>
    BY <1>g DEF DiagRequests, DiagKept, DiagGo
  <2>2. ConnTypes' /\ Only(D) BY <2>1 DEF ConnTypes, Only, Steps
  <2>3. at'[D] = "open" BY <2>1 DEF ConnTypes
  <2>4. at'["command"] = at["command"] /\ at'["media"] = at["media"] BY <2>2 DEF Only
  <2> QED BY <2>1, <2>2, <2>3, <2>4 DEF DiagMoved, DiagOK
<1>h. CASE DiagReads
  <2>1. /\ at[D] \in {"open", "stopreply"} /\ rd[D] = "out" /\ Reads(D, "word", pos[D])
        /\ UNCHANGED <<castVars, usable, known>>
    BY <1>h DEF DiagReads, Reads
  <2>2. pos[D] = "boundary" BY <2>1 DEF DiagOK
  <2> QED BY <2>1, <2>2, DiagReadsOn
<1>i. CASE DiagObserved
  <2>1. /\ at[D] = "open" /\ rd[D] = "out" /\ at' = [at EXCEPT ![D] = Cleanup]
        /\ UNCHANGED <<castVars, held, connVars, sockVars, usable, known>>
    BY <1>i DEF DiagObserved, DiagKept, DiagGo
  <2>2. PICK n \in {"over", "stopav", "stop"} : n = Cleanup /\ (n = "over" => ~Connected(D))
    <3>1. Cleanup \in {"over", "stopav", "stop"} BY DEF Cleanup
    <3>2. ASSUME Connected(D) PROVE Cleanup # "over"
      <4>1. known BY <2>1 DEF DiagOK
      <4>2. Cleanup = IF started THEN "stopav" ELSE "stop" BY <3>2, <4>1, Zenon DEF Cleanup
      <4> QED BY <4>2
    <3> QED BY <3>1, <3>2
  <2>3. ConnTypes' /\ Only(D) BY <2>1, <2>2 DEF ConnTypes, Only, Steps
  <2>4. at'[D] = n BY <2>1, <2>2 DEF ConnTypes
  <2>5. at'["command"] = at["command"] /\ at'["media"] = at["media"] BY <2>3 DEF Only
  <2>6. pos[D] = "boundary" BY <2>1 DEF DiagOK
  <2> QED BY <2>1, <2>2, <2>3, <2>4, <2>5, <2>6 DEF DiagMoved, DiagOK, Connected
<1>j. CASE DiagBreaks
  <2>1. DiagFails /\ at[D] # "idle" /\ UNCHANGED <<castVars, held>> BY <1>j DEF DiagBreaks, DiagKept
  <2> QED BY <2>1, DiagFailsOK
<1>k. CASE DiagStopsAv
  <2>1. PICK n \in {"stopreply", "stop"} : at' = [at EXCEPT ![D] = n] /\ (n = "stopreply" => usable)
    BY <1>k DEF DiagStopsAv, DiagGo, SoundReader
  <2>2. at[D] = "stopav" /\ UNCHANGED <<castVars, held, connVars, sockVars, usable, known>>
    BY <1>k DEF DiagStopsAv, DiagKept
  <2>3. ConnTypes' /\ Only(D) BY <2>1, <2>2 DEF ConnTypes, Only, Steps
  <2>4. at'[D] = n BY <2>1 DEF ConnTypes
  <2>5. at'["command"] = at["command"] /\ at'["media"] = at["media"] BY <2>3 DEF Only
  <2> QED BY <2>1, <2>2, <2>3, <2>4, <2>5 DEF DiagMoved, DiagOK
<1>l. CASE DiagStopped
  <2>1. /\ at[D] = "stopreply" /\ at' = [at EXCEPT ![D] = "stop"] /\ rd' = [rd EXCEPT ![D] = "out"]
        /\ UNCHANGED <<castVars, held, connVars, peer, pos, usable>>
    BY <1>l DEF DiagStopped, DiagKept, DiagGo
  <2>2. ConnTypes' /\ Only(D) BY <2>1 DEF ConnTypes, Only, Steps
  <2>3. at'[D] = "stop" /\ rd'[D] = "out" BY <2>1 DEF ConnTypes
  <2>4. at'["command"] = at["command"] /\ at'["media"] = at["media"] BY <2>2 DEF Only
  <2> QED BY <2>1, <2>2, <2>3, <2>4 DEF DiagMoved, DiagOK
<1>m. CASE DiagCloses
  <2>1. Closes(D, "over") /\ at[D] = "stop" /\ UNCHANGED <<castVars, held, usable>> /\ "over" \in Steps
    BY <1>m DEF DiagCloses, DiagKept, Steps
  <2>2. /\ ConnTypes' /\ Only(D) /\ at'[D] = "over" /\ ~Connected(D)' /\ rd'[D] = "out" /\ pos'[D] = "boundary"
    BY <2>1, ClosesEffect DEF Connected
  <2>3. at'["command"] = at["command"] /\ at'["media"] = at["media"] BY <2>2 DEF Only
  <2> QED BY <2>1, <2>2, <2>3 DEF DiagMoved, DiagOK
<1>n. CASE DiagReleases
  <2>1. /\ at[D] = "over" /\ at' = [at EXCEPT ![D] = "idle"] /\ ~held' /\ usable'
        /\ UNCHANGED <<castVars, connVars, sockVars>>
    BY <1>n DEF DiagReleases, DiagGo
  <2>2. ConnTypes' /\ Only(D) BY <2>1 DEF ConnTypes, Only, Steps
  <2>3. at'[D] = "idle" /\ ~Connected(D)' BY <2>1 DEF ConnTypes, DiagOK, Connected
  <2> QED BY <2>1, <2>2, <2>3 DEF DiagMoved, DiagOK
<1>o. CASE DiagCancel
  <2>1. UNCHANGED <<castVars, at, connVars, sockVars, held, usable, known>> BY <1>o DEF DiagCancel, CancelWaits, DiagKept
  <2>2. ConnTypes' /\ Only(D) BY <2>1 DEF ConnTypes, Only
  <2>3. DiagOK' BY <2>1 DEF DiagOK, Connected
  <2> QED BY <2>1, <2>2, <2>3 DEF DiagMoved
<1> QED
  BY <1>a, <1>b, <1>c, <1>d, <1>e, <1>f, <1>g, <1>h, <1>i, <1>j, <1>k, <1>l, <1>m, <1>n, <1>o DEF DiagNext
-----------------------------------------------------------------------------
(* The rest of the state *)

Rest ==
  /\ parties \in Parties /\ v1 \in BOOLEAN /\ approval \in [Users -> Uids \cup {"none"}]
  /\ device \in Devices /\ cache \in Observations \cup {NoObs} /\ udp \in Users \cup {"none"}
  /\ via \in {"video", "control"} /\ held \in BOOLEAN /\ stopping \in BOOLEAN
  /\ moves \in 0..MaxMoves /\ faults \in 0..MaxFaults

DiagTypes ==
  /\ op \in Operations /\ attempted \subseteq Operations
  /\ cancelled \in BOOLEAN /\ started \in BOOLEAN /\ known \in BOOLEAN /\ usable \in BOOLEAN

LEMMA TypeParts == TypeOK <=> ConnTypes /\ Rest /\ DiagTypes
BY DEF TypeOK, SessionTypeOK, ConnTypes, Rest, DiagTypes

LEMMA TypesKept == ASSUME ConnTypes', Rest', DiagTypes' PROVE TypeOK'
BY DEF TypeOK, SessionTypeOK, ConnTypes, Rest, DiagTypes

LEMMA FaultCounts == ASSUME Rest, Fault PROVE faults' \in 0..MaxFaults
BY DEF Rest, Fault

\* Nothing that a session does by itself changes the cast or takes the locks.
LEMMA UserRest ==
  ASSUME Rest, NEW u \in Users, UserStep(u) PROVE Rest' /\ UNCHANGED <<castVars, held>>
<1> USE DEF Rest
<1>a. CASE Open(u) BY <1>a DEF Open, Begins
<1>b. CASE DiscoverCached(u) BY <1>b DEF DiscoverCached
<1>c. CASE DiscoverProbes(u) BY <1>c DEF DiscoverProbes
<1>d. CASE ProbeAnswered(u)
  <2>1. cache' \in Observations \cup {NoObs} BY <1>d, Made DEF ProbeAnswered
  <2> QED BY <1>d, <2>1 DEF ProbeAnswered
<1>e. CASE ProbeFails(u) BY <1>e, FaultCounts DEF ProbeFails
<1>f. CASE TcpConnects(u) \/ TcpRefused(u) BY <1>f DEF TcpConnects, TcpRefused
<1>g. CASE RecoverAfterRefused(u) BY <1>g DEF RecoverAfterRefused, Forgets
<1>h. CASE Evict(u) BY <1>h DEF Evict, Forgets
<1>i. CASE SendLogin(u) \/ LoginAccepted(u) BY <1>i DEF SendLogin, LoginAccepted
<1>j. CASE LoginRefused(u) BY <1>j, FaultCounts DEF LoginRefused
<1>k. CASE ReadStep(u)
  <2>1. CASE ReadsAgain(u) \/ ReceivesPart(u) \/ ReceivesWord(u) \/ ReceivesZero(u) \/ ReceivesOther(u)
    BY <2>1 DEF ReadsAgain, ReceivesPart, ReceivesWord, ReceivesZero, ReceivesOther, Reads
  <2>2. CASE IdlesOn(u) \/ IdlesOut(u) BY <2>2 DEF IdlesOn, IdlesOut
  <2>3. CASE ReadFails(u) BY <2>3, FaultCounts DEF ReadFails
  <2>4. CASE Lost(u) BY <2>4, FaultCounts DEF Lost
  <2> QED BY <1>k, <2>1, <2>2, <2>3, <2>4 DEF ReadStep
<1>l. CASE Finishes(u) BY <1>l DEF Finishes
<1>m. CASE CommandFallsBack BY <1>m DEF CommandFallsBack, ControlSession, Begins
<1>n. CASE CommandSends \/ CommandAnswered BY <1>n DEF CommandSends, CommandAnswered
<1> QED
  BY <1>a, <1>b, <1>c, <1>d, <1>e, <1>f, <1>g, <1>h, <1>i, <1>j, <1>k, <1>l, <1>m, <1>n DEF UserStep

LEMMA DiagRest == ASSUME Rest, DiagTypes, DiagNext PROVE Rest' /\ DiagTypes'
<1> USE DEF Rest, DiagTypes, DiagKept
<1>a. ASSUME NEW o \in Operations, DiagStarts(o) PROVE Rest' /\ DiagTypes' BY <1>a DEF DiagStarts
<1>fails. ASSUME DiagFails PROVE usable' \in BOOLEAN BY <1>fails DEF DiagFails
<1>b. CASE Cancelled BY <1>b, <1>fails DEF Cancelled
<1>c. CASE DiagDiscovers \/ DiagConnects BY <1>c, <1>fails DEF DiagDiscovers, DiagConnects
<1>d. CASE DiagLogsIn \/ DiagLoggedIn BY <1>d, <1>fails DEF DiagLogsIn, DiagLoggedIn
<1>e. CASE DiagRequests
  <2>1. started' \in BOOLEAN BY <1>e DEF DiagRequests
  <2> QED BY <1>e, <2>1 DEF DiagRequests
<1>f. CASE DiagReads BY <1>f DEF DiagReads, Reads
<1>g. CASE DiagObserved BY <1>g DEF DiagObserved
<1>h. CASE DiagBreaks BY <1>h, <1>fails DEF DiagBreaks
<1>i. CASE DiagStopsAv \/ DiagStopped BY <1>i DEF DiagStopsAv, DiagStopped
<1>j. CASE DiagCloses BY <1>j DEF DiagCloses
<1>k. CASE DiagReleases BY <1>k DEF DiagReleases, Operations
<1>l. CASE DiagCancel BY <1>l DEF DiagCancel, CancelWaits
<1> QED
  BY <1>a, <1>b, <1>c, <1>d, <1>e, <1>f, <1>g, <1>h, <1>i, <1>j, <1>k, <1>l DEF DiagNext

-----------------------------------------------------------------------------
(* The invariant *)

\* Under the locks of a diagnostic neither a command nor a media session moves.
LEMMA LocksBlock ==
  ASSUME DiagOK, held, NEW u \in {"command", "media"}, UserOK(u) PROVE ~UserStep(u)
<1>1. at[u] = "idle" /\ ~Connected(u) BY DEF DiagOK, UserOK
<1>2. ~ReadStep(u)
  BY <1>1 DEF ReadStep, ReadsAgain, ReceivesPart, ReceivesWord, ReceivesZero, ReceivesOther, Complete,
     IdlesOn, IdlesOut, ReadFails, Lost, Receiving
<1> QED
  BY <1>1, <1>2 DEF UserStep, Open, DiscoverCached, DiscoverProbes, ProbeAnswered, ProbeFails, TcpConnects,
     TcpRefused, RecoverAfterRefused, Evict, SendLogin, LoginAccepted, LoginRefused, Finishes,
     CommandFallsBack, CommandSends, CommandAnswered

LEMMA Initially == Init => IInv
<1> SUFFICES ASSUME Init PROVE IInv OBVIOUS
<1> USE DEF Init, SessionInit
<1>1. ConnTypes BY DEF ConnTypes, Steps
<1>2. Rest
  <2>1. Own \in Uids BY DEF Uids
  <2>2. approval \in [Users -> Uids \cup {"none"}] BY <2>1 DEF Uids
  <2>3. /\ parties \in Parties /\ v1 \in BOOLEAN /\ device \in Devices /\ cache = NoObs /\ udp = "none"
        /\ via = "video" /\ held = FALSE /\ stopping = FALSE /\ moves = 0 /\ faults = 0
    OBVIOUS
  <2> HIDE DEF Init, SessionInit
  <2>4. held \in BOOLEAN /\ stopping \in BOOLEAN BY <2>3, Zenon
  <2> QED BY <2>2, <2>3, <2>4 DEF Rest
<1>3. DiagTypes BY DEF DiagTypes, Operations
<1>4. ASSUME NEW u \in Users \ {D} PROVE UserOK(u)
  <2>1. at[u] = "idle" /\ ~Connected(u) /\ rd[u] = "out" /\ pos[u] = "boundary" BY DEF Connected
  <2>2. u \in {"ring", "command"} => approval[u] = "none" BY DEF Users
  <2> QED BY <2>1, <2>2 DEF UserOK, OwnOK
<1>5. DiagOK
  <2>1. D \in Users /\ "command" \in Users /\ "media" \in Users BY DiagName
  <2> QED BY <2>1 DEF DiagOK, Connected
<1> QED BY <1>1, <1>2, <1>3, <1>4, <1>5, TypeParts DEF IInv

\* Whoever does not move is as sound as before.
LEMMA Unmoved ==
  ASSUME NEW u, NEW w \in Users \ {u}, UserOK(w), Only(u), UNCHANGED castVars PROVE UserOK(w)'
<1>1. /\ at'[w] = at[w] /\ peer'[w] = peer[w] /\ info'[w] = info[w] /\ rd'[w] = rd[w] /\ pos'[w] = pos[w]
      /\ UNCHANGED <<parties, approval>>
  BY DEF Only
<1>2. Connected(w)' <=> Connected(w) BY <1>1 DEF Connected
<1> QED BY <1>1, <1>2 DEF UserOK, OwnOK

LEMMA Inductive == IInv /\ [Next]_vars => IInv'
<1> SUFFICES ASSUME IInv, [Next]_vars PROVE IInv' OBVIOUS
<1>0. TypeOK /\ ConnTypes /\ Rest /\ DiagTypes /\ DiagOK /\ \A u \in Users \ {D} : UserOK(u)
  BY TypeParts DEF IInv
<1> USE <1>0, DiagName
<1> HIDE DEF IInv
<1>1. ASSUME NEW u \in Users, u \in parties, UserStep(u), UNCHANGED diagVars PROVE IInv'
  <2>1. Rest' /\ UNCHANGED <<castVars, held>> BY <1>1, UserRest
  <2>2. DiagTypes' BY <1>1 DEF DiagTypes
  <2>3. CASE u = D
    <3>1. ConnTypes' /\ Only(D) /\ DiagOK' BY <1>1, <2>3, DiagListens DEF DiagMoved
    <3>2. \A w \in Users \ {D} : UserOK(w)' BY <2>1, <3>1, Unmoved
    <3> QED BY <2>1, <2>2, <3>1, <3>2, TypesKept DEF IInv
  <2>4. CASE u # D
    <3>1. ConnTypes' /\ Only(u) /\ UserOK(u)' BY <1>1, <2>1, <2>4, UserMoves DEF Moved
    <3>2. \A w \in Users \ {D} : UserOK(w)' BY <2>1, <3>1, Unmoved
    <3>3. held => u \notin {"command", "media"} BY <1>1, LocksBlock
    <3>4. /\ at'[D] = at[D] /\ peer'[D] = peer[D] /\ rd'[D] = rd[D] /\ pos'[D] = pos[D]
          /\ UNCHANGED <<held, parties, usable, known>>
      BY <1>1, <2>1, <2>4, <3>1 DEF Only
    <3>5. held => at'["command"] = at["command"] /\ at'["media"] = at["media"] BY <3>1, <3>3 DEF Only
    <3>6. DiagOK' BY <3>4, <3>5 DEF DiagOK, Connected
    <3> QED BY <2>1, <2>2, <3>1, <3>2, <3>6, TypesKept DEF IInv
  <2> QED BY <2>3, <2>4
<1>2. ASSUME Unload \/ DeviceMoves, UNCHANGED diagVars PROVE IInv'
  <2>1. UNCHANGED <<castVars, held, at, connVars, sockVars>> BY <1>2 DEF Unload, DeviceMoves
  <2>2. Rest'
    <3>1. CASE Unload BY <3>1 DEF Rest, Unload
    <3>2. CASE DeviceMoves
      <4>1. moves' \in 0..MaxMoves /\ device' \in Devices BY <3>2 DEF Rest, DeviceMoves
      <4> QED BY <3>2, <4>1 DEF Rest, DeviceMoves
    <3> QED BY <1>2, <3>1, <3>2
  <2>3. ConnTypes' /\ DiagTypes' BY <1>2, <2>1 DEF ConnTypes, DiagTypes
  <2>4. \A w \in Users \ {D} : UserOK(w)' BY <2>1 DEF UserOK, OwnOK, Connected
  <2>5. DiagOK' BY <1>2, <2>1 DEF DiagOK, Connected
  <2> QED BY <2>2, <2>3, <2>4, <2>5, TypesKept DEF IInv
<1>3. CASE SessionNext /\ UNCHANGED diagVars
  <2>1. parties \subseteq Users BY DEF Rest
  <2>2. (\E u \in parties : UserStep(u)) \/ Unload \/ DeviceMoves
    <3>1. CASE CommandFallsBack \/ CommandSends \/ CommandAnswered
      <4>1. at["command"] # "idle" BY <3>1 DEF CommandFallsBack, CommandSends, CommandAnswered
      <4>2. "command" \in parties BY <4>1 DEF UserOK
      <4> QED BY <3>1, <4>2 DEF UserStep
    <3>2. ASSUME NEW u \in parties,
                 \/ Open(u) \/ DiscoverCached(u) \/ DiscoverProbes(u) \/ ProbeAnswered(u) \/ ProbeFails(u)
                 \/ TcpConnects(u) \/ TcpRefused(u) \/ RecoverAfterRefused(u) \/ Evict(u)
                 \/ SendLogin(u) \/ LoginAccepted(u) \/ LoginRefused(u) \/ ReadStep(u) \/ Finishes(u)
          PROVE  UserStep(u)
      BY <3>2 DEF UserStep
    <3> QED BY <1>3, <3>1, <3>2 DEF SessionNext
  <2> QED BY <1>1, <1>2, <1>3, <2>1, <2>2
<1>4. CASE DiagNext
  <2>1. ConnTypes' /\ Only(D) /\ DiagOK' /\ UNCHANGED castVars BY <1>4, DiagMoves DEF DiagMoved
  <2>2. Rest' /\ DiagTypes' BY <1>4, DiagRest
  <2>3. \A w \in Users \ {D} : UserOK(w)' BY <2>1, Unmoved
  <2> QED BY <2>1, <2>2, <2>3, TypesKept DEF IInv
<1>5. CASE UNCHANGED vars
  <2>1. UNCHANGED <<sessionVars, diagVars>> BY <1>5 DEF vars
  <2>2. ConnTypes' /\ Rest' /\ DiagTypes' BY <2>1 DEF ConnTypes, Rest, DiagTypes
  <2>3. \A w \in Users \ {D} : UserOK(w)' BY <2>1 DEF UserOK, OwnOK, Connected
  <2>4. DiagOK' BY <2>1 DEF DiagOK, Connected
  <2> QED BY <2>2, <2>3, <2>4, TypesKept DEF IInv
<1> QED BY <1>3, <1>4, <1>5 DEF Next

-----------------------------------------------------------------------------
(* What follows *)

\* The invariant of the sessions: sockets between connect and close, readers
\* between frames, locks under a diagnostic.
THEOREM IInvInvariant == Spec => []IInv
<1> QED BY Initially, Inductive, PTL DEF Spec

\* Types of all variables (client.py, ring.py, experimental_diagnostics.py).
THEOREM TypeCorrect == Spec => []TypeOK
<1>1. IInv => TypeOK BY DEF IInv
<1> QED BY <1>1, IInvInvariant, PTL

\* No payload is ever taken for a length word, whoever read before, however
\* often the session was silent (client.py _exact, read; hub.py and ring.py go
\* on in the same session after a time-out).
THEOREM FramesAlignedHolds == Spec => []FramesAligned
<1>1. IInv => FramesAligned
  <2> SUFFICES ASSUME IInv, NEW u \in Users, rd[u] = "word" PROVE pos[u] = "boundary" BY DEF FramesAligned
  <2>1. CASE u = D BY <2>1 DEF IInv, DiagOK
  <2>2. CASE u # D BY <2>2 DEF IInv, UserOK
  <2> QED BY <2>1, <2>2
<1> QED BY <1>1, IInvInvariant, PTL

\* A door command and the alarms are exchanged with the device of the entry
\* only, and a password goes out in plain text only under an approval, although
\* the cache of discoveries is shared and the device may be replaced.
THEOREM OwnDeviceOnlyHolds == Spec => []OwnDeviceOnly
<1>1. IInv => OwnDeviceOnly
  <2> SUFFICES ASSUME IInv PROVE OwnDeviceOnly OBVIOUS
  <2>1. UserOK("ring") /\ UserOK("command") BY DEF IInv, D, Users
  <2>2. at["command"] = "waiting" => peer["command"].uid = Own BY <2>1 DEF UserOK, OwnOK
  <2>3. at["ring"] = "open" => peer["ring"].uid = Own BY <2>1 DEF UserOK, OwnOK
  <2>4. ASSUME NEW u \in Users \ {D}, at[u] \in {"reply", "open"}
        PROVE  info[u].dev.protected = (approval[u] = "none")
    BY <2>4 DEF IInv, UserOK
  <2> QED BY <2>2, <2>3, <2>4 DEF OwnDeviceOnly
<1> QED BY <1>1, IInvInvariant, PTL

\* While the socket of a diagnostic is open no other session has one, also
\* after its caller was cancelled (experimental_diagnostics.py execute).
THEOREM DiagAloneHolds == Spec => []DiagAlone
<1>1. IInv => DiagAlone
  <2> SUFFICES ASSUME IInv, Connected(D) PROVE ~Connected("command") /\ ~Connected("media") /\ ~Connected("ring")
    BY DEF DiagAlone
  <2>1. held BY DEF IInv, DiagOK
  <2>2. at["command"] = "idle" /\ at["media"] = "idle" /\ "ring" \notin parties BY <2>1 DEF IInv, DiagOK
  <2>3. UserOK("ring") /\ UserOK("command") /\ UserOK("media") BY DEF IInv, D, Users
  <2> QED BY <2>2, <2>3 DEF UserOK
<1> QED BY <1>1, IInvInvariant, PTL

\* A thread that failed with an older observation never forgets a newer one
\* (client.py _invalidate_discovery compares by identity).
THEOREM NewerKeptHolds == Spec => NewerKept
<1> DEFINE Failed == \E u \in Users : info[u] = cache /\ at[u] \in {"refused", "evict"}
<1>1. ASSUME Rest, NEW u \in Users, UserStep(u), cache # NoObs, cache' = NoObs PROVE Failed
  <2>1. CASE RecoverAfterRefused(u) \/ Evict(u) BY <1>1, <2>1 DEF RecoverAfterRefused, Evict, Forgets
  <2>2. CASE ProbeAnswered(u)
    <3>1. cache' \in Observations BY <1>1, <2>2, Made DEF ProbeAnswered, Rest
    <3> QED BY <1>1, <3>1, NoObservation
  <2>3. CASE ~(RecoverAfterRefused(u) \/ Evict(u) \/ ProbeAnswered(u))
    <3>1. ReadStep(u) => UNCHANGED cache
      BY DEF ReadStep, ReadsAgain, ReceivesPart, ReceivesWord, ReceivesZero, ReceivesOther, Reads,
         IdlesOn, IdlesOut, ReadFails, Lost
    <3>2. UNCHANGED cache
      BY <1>1, <2>3, <3>1 DEF UserStep, Open, Begins, DiscoverCached, DiscoverProbes, ProbeFails, TcpConnects,
         TcpRefused, SendLogin, LoginAccepted, LoginRefused, Finishes,
         CommandFallsBack, ControlSession, CommandSends, CommandAnswered
    <3> QED BY <1>1, <3>2
  <2> QED BY <2>1, <2>2, <2>3
<1>2. ASSUME IInv, [Next]_vars, cache # NoObs, cache' = NoObs PROVE Failed
  <2>1. Rest /\ parties \subseteq Users BY <1>2, TypeParts DEF IInv, Rest
  <2>2. CASE SessionNext
    <3>1. SessionNext => UNCHANGED cache \/ \E u \in Users : UserStep(u)
      <4>1. "command" \in Users BY DiagName
      <4>2. Unload \/ DeviceMoves => UNCHANGED cache BY DEF Unload, DeviceMoves
      <4>3. CommandFallsBack \/ CommandSends \/ CommandAnswered => UserStep("command") BY DEF UserStep
      <4> QED BY <2>1, <4>1, <4>2, <4>3 DEF SessionNext, UserStep
    <3> QED BY <1>1, <1>2, <2>1, <2>2, <3>1
  <2>3. CASE DiagNext \/ UNCHANGED vars
    <3>1. UNCHANGED cache
      BY <2>3 DEF vars, DiagNext, DiagKept, DiagStarts, Cancelled, DiagDiscovers, DiagConnects, DiagLogsIn,
         DiagLoggedIn, DiagRequests, DiagReads, Reads, DiagObserved, DiagBreaks, DiagStopsAv, DiagStopped,
         DiagCloses, DiagReleases, DiagCancel
    <3> QED BY <1>2, <3>1
  <2> QED BY <1>2, <2>2, <2>3 DEF Next
<1>3. IInv /\ [Next]_vars => (cache # NoObs /\ cache' = NoObs => Failed) BY <1>2
<1> QED BY <1>3, IInvInvariant, PTL DEF Spec, NewerKept
=============================================================================
