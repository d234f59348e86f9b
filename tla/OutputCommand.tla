--------------------------- MODULE OutputCommand ---------------------------
(***************************************************************************)
(* What an output command promises whoever gave it, without sessions,      *)
(* threads, locks or tasks: it leaves once or not at all, and not after    *)
(* its caller was told how it ended; the caller is told that it worked     *)
(* only when a reply came, that nothing was sent only when that is so or   *)
(* the reply said no, and that it is uncertain only when it has left.      *)
(***************************************************************************)
CONSTANT Commands

VARIABLES
  sent,       \* the commands that have left
  answered,   \* those that were given a reply
  told,       \* what the caller of each was told
  abandoned   \* some caller did not wait for the end

vars == <<sent, answered, told, abandoned>>

Init ==
  /\ sent = {} /\ answered = {}
  /\ told = [c \in Commands |-> "none"]
  /\ abandoned = FALSE

\* Only what somebody waits for leaves, unless it was abandoned.
Send(c) ==
  /\ c \notin sent
  /\ told[c] = "none" \/ abandoned
  /\ sent' = sent \cup {c}
  /\ UNCHANGED <<answered, told, abandoned>>

Answer(c) ==
  /\ c \in sent \ answered
  /\ answered' = answered \cup {c}
  /\ UNCHANGED <<sent, told, abandoned>>

Verdicts == {"ok", "certain", "uncertain"}

\* A caller that gives up is told what is known by then.
Tell(c, v) ==
  /\ told[c] = "none"
  /\ abandoned' \in {abandoned, TRUE}
  /\ v = "ok" => c \in answered
  /\ v = "certain" => c \notin sent \/ c \in answered \/ abandoned'
  /\ v = "uncertain" => c \in sent \/ abandoned'
  /\ told' = [told EXCEPT ![c] = v]
  /\ UNCHANGED <<sent, answered>>

Next ==
  \E c \in Commands :
    \/ Send(c) \/ Answer(c)
    \/ \E v \in Verdicts : Tell(c, v)

Spec == Init /\ [][Next]_vars
=============================================================================
