---------------------------- MODULE MCOnboarding ----------------------------
(* Onboarding on small instances: two dialogs over a Connect 3 entry, an   *)
(* R002 entry in discovery mode and a legacy one.                          *)
EXTENDS Onboarding, TLC

CONSTANTS f1, f2, e1, e2, v1, h1, h2, c1, c2, c3, c4, d1

TwoFlows == {f1, f2}
ThreeEntries == {e1, e2, v1}
LegacyEntries == {v1}
DiscoveryEntries == {e2}
TwoHosts == {h1, h2}
FourCerts == {c1, c2, c3, c4}
SomeTrusted == {c2, c3}
OneSpecial == {c3}
OneUnfit == {c4}
OneDevice == {d1}

Plainly == [host |-> h1, tcp |-> TRUE, pin |-> None, secret |-> 0, panel |-> TRUE,
            auto |-> FALSE, trial |-> FALSE, alarm |-> FALSE, clear |-> FALSE, qr |-> FALSE, action |-> "keep"]
\* What the owner submits: consents, an account, another transport or password, nothing
SomeForms ==
  {Plainly,
   [Plainly EXCEPT !.trial = TRUE, !.alarm = TRUE],
   [Plainly EXCEPT !.action = "configure"],
   [Plainly EXCEPT !.host = h2, !.tcp = FALSE, !.auto = TRUE, !.secret = 1, !.trial = TRUE],
   [Plainly EXCEPT !.host = h2, !.pin = c2, !.secret = 1, !.qr = TRUE, !.alarm = TRUE],
   [Plainly EXCEPT !.host = h2, !.clear = TRUE, !.action = "configure"],
   [Plainly EXCEPT !.host = h2, !.action = "disable", !.trial = TRUE]}
Anyone == Permutations(TwoFlows)
=============================================================================
