---------------------------- MODULE CloudBell -----------------------------
(***************************************************************************)
(* What a cloud doorbell promises, without its tasks, tokens, replies and  *)
(* files: whatever the vendor calls this installation for can be removed;  *)
(* a call rings once, only if the vendor had something to call for when    *)
(* the button was pressed, and only while the doorbell is open.            *)
(***************************************************************************)
EXTENDS Naturals

CONSTANT Calls

VARIABLES
  subscribed,  \* what the vendor calls this installation for
  remembered,  \* what the saved record can remove
  open,        \* the doorbell is loaded and wanted
  pressed,     \* the calls so far
  due,         \* those that may still be delivered
  rings,       \* how often each rang
  careless     \* which ones rang may have been forgotten

vars == <<subscribed, remembered, open, pressed, due, rings, careless>>

Init ==
  /\ subscribed \subseteq remembered
  /\ open = FALSE
  /\ pressed = {} /\ due = {}
  /\ rings = [c \in Calls |-> 0]
  /\ careless = FALSE

\* Nothing that is subscribed is left out of the record.
Complete == subscribed \subseteq remembered'

\* The record is written, as it is or short of what rang ...
Save ==
  /\ Complete
  /\ careless => careless'
  /\ UNCHANGED <<subscribed, open, pressed, due, rings>>

\* ... or everything but the record is lost.
Crash ==
  /\ Complete
  /\ open' = FALSE
  /\ careless => careless'
  /\ UNCHANGED <<subscribed, pressed, due, rings>>

\* Asked for only what is remembered
Subscribe(s) ==
  /\ s \in remembered
  /\ subscribed' = subscribed \cup {s}
  /\ UNCHANGED <<remembered, open, pressed, due, rings, careless>>

Remove ==
  /\ subscribed' \in SUBSET subscribed
  /\ UNCHANGED <<remembered, open, pressed, due, rings, careless>>

\* Loaded, disabled, reconfigured, closed
Switch ==
  /\ open' = ~open
  /\ UNCHANGED <<subscribed, remembered, pressed, due, rings, careless>>

Press(c) ==
  /\ c \notin pressed /\ pressed' = pressed \cup {c}
  /\ due' \in {due} \cup (IF subscribed = {} THEN {} ELSE {due \cup {c}})
  /\ UNCHANGED <<subscribed, remembered, open, rings, careless>>

\* A call is delivered, again unless it is acknowledged; it may ring.
Rings(c) ==
  /\ open
  /\ rings[c] = 0 \/ careless
  /\ rings' = [rings EXCEPT ![c] = @ + 1]

Deliver(c) ==
  /\ c \in due /\ due' \in {due, due \ {c}}
  /\ Rings(c) \/ UNCHANGED rings
  /\ Complete
  /\ UNCHANGED <<subscribed, open, pressed, careless>>

Next ==
  \/ Save \/ Crash \/ Remove \/ Switch
  \/ \E s \in remembered : Subscribe(s)
  \/ \E c \in Calls : Press(c) \/ Deliver(c)

Spec == Init /\ [][Next]_vars
=============================================================================
