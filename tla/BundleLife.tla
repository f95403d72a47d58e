----------------------------- MODULE BundleLife -----------------------------
(***************************************************************************)
(* What the broadcaster promises about one bundle, without queue, workers  *)
(* or connections.  A bundle is offered by a bot, then either turned away  *)
(* or accepted; an accepted bundle is served once, and must be served as   *)
(* long as the service stays open.  Once the service is stopping it may    *)
(* also be cut short, and once it is closed nothing is accepted any more.  *)
(***************************************************************************)
CONSTANT Bundles

VARIABLES stage, phase

vars == <<stage, phase>>

Stages == {"unsent", "offered", "lost", "accepted", "served", "cut"}
Phases == {"open", "stopping", "closed"}

Init ==
  /\ stage = [b \in Bundles |-> "unsent"]
  /\ phase = "open"

Move(b, from, to) ==
  /\ stage[b] = from
  /\ stage' = [stage EXCEPT ![b] = to]
  /\ UNCHANGED phase

Offer(b) == Move(b, "unsent", "offered")

TurnAway(b) == Move(b, "offered", "lost")

Accept(b) == phase # "closed" /\ Move(b, "offered", "accepted")

Serve(b) == phase = "open" /\ Move(b, "accepted", "served")

Cut(b) == phase # "open" /\ Move(b, "accepted", "cut")

Stop ==
  /\ phase = "open"
  /\ phase' = "stopping"
  /\ UNCHANGED stage

Close ==
  /\ phase = "stopping"
  /\ phase' = "closed"
  /\ UNCHANGED stage

Next ==
  \/ \E b \in Bundles :
       Offer(b) \/ TurnAway(b) \/ Accept(b) \/ Serve(b) \/ Cut(b)
  \/ Stop
  \/ Close

SafeSpec == Init /\ [][Next]_vars

Spec == SafeSpec /\ \A b \in Bundles : WF_vars(Serve(b))
=============================================================================
