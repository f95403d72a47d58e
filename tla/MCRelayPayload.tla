--------------------------- MODULE MCRelayPayload ---------------------------
(* All registered relays and one unknown name; the bot leaves out all but two
   fields, or gives all but two. *)
EXTENDS RelayPayload, Naturals, FiniteSets

AllRelays == DOMAIN Registry \union {"unregistered"}

Differ(m, v) == {f \in Fields : m[f] # v}

FewFields ==
  {m \in [Fields -> {Unset, Zero, BotValue}] :
     \E v \in {Unset, BotValue} : Cardinality(Differ(m, v)) <= 2}
=============================================================================
