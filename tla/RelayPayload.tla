---------------------------- MODULE RelayPayload ----------------------------
(***************************************************************************)
(* The optional fields of a bundle on their way from the bot's JSON to the *)
(* request of each relay: json.Unmarshal in HandleWS, applyRefundDefaults  *)
(* in relay_manager.go, BuildRequest in strategies/relays/*.go.            *)
(*                                                                         *)
(* A field is Unset, Zero (0, "", [], false) or has one of two values, the *)
(* bot's or the configuration's.  Only refund_percent, a pointer, tells    *)
(* Zero from Unset.  raw_txs and target_block, which every relay gets as   *)
(* they are, and the fixed list of builders of flashbots are left out.     *)
(***************************************************************************)
CONSTANTS
  Configured,       \* the relay names of config.json
  Messages,         \* bound: the messages the bot may send
  BotValue, ConfigValue, Zero, Unset

ASSUME NamesAssumption == Unset \notin Configured
ASSUME ValuesAssumption ==
  /\ Unset \notin {Zero, BotValue, ConfigValue}
  /\ Zero \notin {BotValue, ConfigValue}
  /\ BotValue # ConfigValue

RefundFields ==
  {"refund_percent", "refund_recipient", "refund_tx_hashes",
   "delayed_refund", "refund_identity"}

Fields ==
  RefundFields \union {"reverting_tx_hashes", "min_timestamp", "max_timestamp"}

ASSUME MessagesAssumption ==
  Messages \subseteq [Fields -> {Unset, Zero, BotValue}]

-----------------------------------------------------------------------------
(* The optional fields each builder copies when they are set *)

Bounds  == {"reverting_tx_hashes", "min_timestamp", "max_timestamp"}
Kickback == {"refund_percent", "refund_recipient"}

flashbots     == {}
titanbuilder  == Kickback
quasar        == Bounds \union Kickback \union {"refund_tx_hashes"}
bobthebuilder == {}
beaverbuild   == {}
\* (mutant of buildernet: the last field of the list is forgotten)
buildernetNoIdentity == Bounds \union (RefundFields \ {"refund_identity"})
buildernet    == Bounds \union RefundFields
\* (mutant of eurekabuilder: copied from a builder that pays refunds)
eurekabuilderWithRefund == Bounds \union Kickback
eurekabuilder == Bounds
rsyncbuilder  == Bounds \union Kickback \union {"refund_tx_hashes"}
jetbldr       == Bounds \union Kickback
tbuilder      == Bounds \union Kickback
turbobuilder  == Bounds
snailbuilder  == Bounds
f1b           == {"reverting_tx_hashes"}
builder0x69   == {"reverting_tx_hashes"}
eigenphi      == {"reverting_tx_hashes"}
boba          == {"reverting_tx_hashes"}
gambit        == {"reverting_tx_hashes"}
payload       == {"reverting_tx_hashes"}
loki          == {"reverting_tx_hashes"}
buildai       == {"reverting_tx_hashes"}
penguin       == {"reverting_tx_hashes"}
btcs          == {"reverting_tx_hashes"}
bloxroute     == {"reverting_tx_hashes"}
blockbeelder  == {"reverting_tx_hashes"}

Registry ==
  [flashbots |-> flashbots, titanbuilder |-> titanbuilder, quasar |-> quasar,
   bobthebuilder |-> bobthebuilder, beaverbuild |-> beaverbuild,
   buildernet |-> buildernet, eurekabuilder |-> eurekabuilder,
   rsyncbuilder |-> rsyncbuilder, jetbldr |-> jetbldr, tbuilder |-> tbuilder,
   turbobuilder |-> turbobuilder, snailbuilder |-> snailbuilder, f1b |-> f1b,
   builder0x69 |-> builder0x69, eigenphi |-> eigenphi, boba |-> boba,
   gambit |-> gambit, payload |-> payload, loki |-> loki, buildai |-> buildai,
   penguin |-> penguin, btcs |-> btcs, bloxroute |-> bloxroute,
   blockbeelder |-> blockbeelder]

\* A configured relay that is not registered gets no client.
Clients == Configured \intersect DOMAIN Registry

-----------------------------------------------------------------------------
(* The conversions *)

\* (mutant of Parsed: every field a pointer)
AsSent(m) == m

\* What json.Unmarshal leaves in the struct: for all but the pointer, an
\* empty value is no value.
Parsed(m) ==
  [f \in Fields |-> IF f # "refund_percent" /\ m[f] = Zero THEN Unset ELSE m[f]]

\* The bundles and the refund configurations the program may hold.
Bundles == {Parsed(m) : m \in [Fields -> {Unset, Zero, BotValue}]}

Configs ==
  {Parsed(m) : m \in {c \in [Fields -> {Unset, Zero, ConfigValue}] :
                        \A f \in Fields \ RefundFields : c[f] = Unset}}

\* (mutant of NoDefaults: a field added later and forgotten here)
NoDefaultsButIdentity(c) ==
  \A f \in RefundFields \ {"refund_identity"} : c[f] = Unset

NoDefaults(c) == \A f \in RefundFields : c[f] = Unset

\* (mutant of Default: the configuration takes precedence)
ConfigFirst(b, c, f) == IF c[f] # Unset THEN c[f] ELSE b[f]

Default(b, c, f) == IF b[f] = Unset /\ c[f] # Unset THEN c[f] ELSE b[f]

applyRefundDefaults(b, c) ==
  IF NoDefaults(c)
  THEN b
  ELSE [f \in Fields |-> IF f \in RefundFields THEN Default(b, c, f) ELSE b[f]]

BuildRequest(r, b) == [f \in {g \in Registry[r] : b[g] # Unset} |-> b[f]]

-----------------------------------------------------------------------------
(* One message and the request of each relay; messages share no state *)

VARIABLES
  refund,   \* RelayManager.refund
  message,  \* the bot's JSON
  bundle,   \* the *IncomingBundle
  stage,    \* "read", or "ready" once the defaults are in
  relay,    \* the relay whose request was built last, or Unset
  request   \* that request

vars == <<refund, message, bundle, stage, relay, request>>

NoRequest == [f \in {} |-> Unset]

\* HandleWS has parsed a message.
Init ==
  /\ refund \in Configs
  /\ message \in Messages
  /\ bundle = Parsed(message)
  /\ stage = "read"
  /\ relay = Unset
  /\ request = NoRequest

\* RelayManager.Broadcast begins.
Prepare ==
  /\ stage = "read"
  /\ bundle' = applyRefundDefaults(bundle, refund)
  /\ stage' = "ready"
  /\ UNCHANGED <<refund, message, relay, request>>

\* The clients share the bundle and build their requests in any order.
Build(r) ==
  /\ stage = "ready"
  /\ relay' = r
  /\ request' = BuildRequest(r, bundle)
  /\ UNCHANGED <<refund, message, bundle, stage>>

Next ==
  \/ Prepare
  \/ \E r \in Clients : Build(r)

Spec == Init /\ [][Next]_vars

-----------------------------------------------------------------------------
(* Properties *)

\* In particular a request has no field that the bundle has not, and no value
\* but the bundle's.
TypeOK ==
  /\ refund \in Configs
  /\ message \in Messages
  /\ \A f \in Fields : bundle[f] \in {Unset, BotValue, ConfigValue}
                         \union (IF f = "refund_percent" THEN {Zero} ELSE {})
  /\ stage \in {"read", "ready"}
  /\ relay \in Clients \union {Unset}
  /\ \A f \in DOMAIN request :
       f \in Fields /\ bundle[f] # Unset /\ request[f] = bundle[f]

\* The relays that support each refund field, from the table "Supported relay
\* builders" of DOCS.md and, for the refund_tx_hashes of quasar, from the field
\* list of its interface in quasar.go.
AnyRefund == {"titanbuilder", "buildernet", "quasar", "jetbldr",
              "rsyncbuilder", "tbuilder"}

Supporters ==
  [refund_percent   |-> AnyRefund,
   refund_recipient |-> AnyRefund,
   refund_tx_hashes |-> AnyRefund \ {"titanbuilder"},
   delayed_refund   |-> {"buildernet"},
   refund_identity  |-> {"buildernet"}]

\* Where the code departs from that table: these two never get the field.
NotCopied == {"jetbldr", "tbuilder"} \X {"refund_tx_hashes"}

\* The fields a relay should get: of the refund fields those it supports, of
\* the others, which no document assigns to relays, those its builder copies.
Terms(r) ==
  (Registry[r] \ RefundFields)
    \union {f \in RefundFields : r \in Supporters[f] /\ <<r, f>> \notin NotCopied}

\* The bot gave the field with an empty value (0, "", [], false).  Only for
\* refund_percent does the code tell that from no value; everything else that
\* is empty counts as left out, an explicit delayed_refund: false too.
LooksUnset(f) == message[f] = Zero /\ f # "refund_percent"

\* What the bot gave is what each relay that should get the field is sent,
\* whatever is configured, a refund of 0 percent included.  "Bot-supplied values
\* always take precedence" promises more: for an empty value it is not so, and
\* a configured delayed_refund: true replaces the bot's false.
BotTermsPrevail ==
  relay # Unset =>
    \A f \in Terms(relay) :
      message[f] # Unset /\ ~LooksUnset(f)
        => f \in DOMAIN request /\ request[f] = message[f]

\* Where the bot left a field out, each relay that should get it is sent the
\* configured value, a refund of 0 percent included; and nothing is sent that
\* neither the bot nor the configuration gave.
DefaultsFillGaps ==
  relay # Unset =>
    /\ \A f \in Terms(relay) :
         message[f] = Unset /\ refund[f] # Unset
           => f \in DOMAIN request /\ request[f] = refund[f]
    /\ \A f \in DOMAIN request :
         request[f] # Unset /\ request[f] \in {message[f], refund[f]}

\* "Refund fields are only included in requests to relays that document support
\* for them", also when both the bot and the configuration give them.
RefundsOnlyWhereSupported ==
  \A f \in DOMAIN request \intersect RefundFields : relay \in Supporters[f]
=============================================================================
