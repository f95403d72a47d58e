------------------------- MODULE RelayPayloadProofs -------------------------
(***************************************************************************)
(* Proofs about RelayPayload, for every message a bot can send, every      *)
(* refund configuration and every list of configured relays.               *)
(***************************************************************************)
EXTENDS RelayPayload, TLAPS

\* The inductive invariant: the bundle is the message after the conversions
\* made so far, and a request is what its builder makes of that bundle.
Converted ==
  /\ refund \in Configs
  /\ message \in Messages
  /\ stage \in {"read", "ready"}
  /\ bundle = IF stage = "read" THEN Parsed(message)
              ELSE applyRefundDefaults(Parsed(message), refund)
  /\ relay # Unset => /\ relay \in Clients
                      /\ stage = "ready"
                      /\ request = BuildRequest(relay, bundle)
  /\ relay = Unset => request = NoRequest

\* The lists of fields that the builders copy.
Copied ==
  {flashbots, titanbuilder, quasar, bobthebuilder, beaverbuild, buildernet,
   eurekabuilder, rsyncbuilder, jetbldr, tbuilder, turbobuilder,
   snailbuilder, f1b, builder0x69, eigenphi, boba, gambit, payload, loki,
   buildai, penguin, btcs, bloxroute, blockbeelder}

\* Builders copy fields of IncomingBundle only.
LEMMA BuildersKnowTheFields ==
  \A r \in DOMAIN Registry : Registry[r] \subseteq Fields
<1>1. \A s \in Copied : s \subseteq Fields
  BY DEF Copied, Fields, RefundFields, Bounds, Kickback,
       flashbots, titanbuilder, quasar, bobthebuilder, beaverbuild,
       buildernet, eurekabuilder, rsyncbuilder, jetbldr, tbuilder,
       turbobuilder, snailbuilder, f1b, builder0x69, eigenphi, boba,
       gambit, payload, loki, buildai, penguin, btcs, bloxroute,
       blockbeelder
<1>2. \A r \in DOMAIN Registry : Registry[r] \in Copied
  BY DEF Registry, Copied
<1>3. QED
  BY <1>1, <1>2

\* The builders of the relays that pay refunds.
LEMMA RefundBuilders ==
  /\ Registry["titanbuilder"] = Kickback
  /\ Registry["buildernet"] = Bounds \union RefundFields
  /\ Registry["quasar"] = Bounds \union Kickback \union {"refund_tx_hashes"}
  /\ Registry["rsyncbuilder"] = Bounds \union Kickback \union {"refund_tx_hashes"}
  /\ Registry["jetbldr"] = Bounds \union Kickback
  /\ Registry["tbuilder"] = Bounds \union Kickback
BY DEF Registry, titanbuilder, buildernet, quasar, rsyncbuilder, jetbldr, tbuilder

\* Every builder copies the fields its relay should get, ...
LEMMA TermsAreCopied ==
  ASSUME NEW r \in DOMAIN Registry
  PROVE  Terms(r) \subseteq Registry[r]
<1> SUFFICES ASSUME NEW f \in RefundFields, r \in Supporters[f],
                    <<r, f>> \notin NotCopied
             PROVE  f \in Registry[r]
  BY DEF Terms
<1>1. CASE r = "buildernet"
  BY <1>1, RefundBuilders
<1>2. CASE r \in AnyRefund \ {"buildernet"}
  <2>1. CASE f \in Kickback
    BY <1>2, <2>1, RefundBuilders DEF AnyRefund
  <2>2. CASE f = "refund_tx_hashes"
    <3>1. r \in {"quasar", "rsyncbuilder"}
      BY <1>2, <2>2 DEF Supporters, AnyRefund, NotCopied
    <3>2. QED
      BY <2>2, <3>1, RefundBuilders
  <2>3. QED
    BY <1>2, <2>1, <2>2 DEF Supporters, RefundFields, Kickback
<1>3. r \in AnyRefund
  BY DEF Supporters, RefundFields, AnyRefund
<1>4. QED
  BY <1>1, <1>2, <1>3

\* ... and no refund field that its relay does not support.
LEMMA RefundsCopied ==
  ASSUME NEW r \in DOMAIN Registry, NEW f \in Registry[r] \intersect RefundFields
  PROVE  r \in Supporters[f]
<1>1. r \in AnyRefund
  <2> SUFFICES ASSUME r \notin AnyRefund PROVE FALSE
    OBVIOUS
  <2>1. Registry[r] \in {{}, Bounds, {"reverting_tx_hashes"}}
    BY DEF AnyRefund, Registry, flashbots, bobthebuilder, beaverbuild,
         eurekabuilder, turbobuilder, snailbuilder, f1b, builder0x69, eigenphi,
         boba, gambit, payload, loki, buildai, penguin, btcs, bloxroute,
         blockbeelder
  <2>2. QED
    BY <2>1 DEF Bounds, RefundFields
<1>2. CASE r = "buildernet"
  BY <1>2 DEF Supporters, RefundFields, AnyRefund
<1>3. CASE r = "titanbuilder"
  BY <1>3, RefundBuilders DEF Supporters, AnyRefund, Kickback
<1>4. CASE r \in {"quasar", "rsyncbuilder", "jetbldr", "tbuilder"}
  <2>1. f \in Kickback \union {"refund_tx_hashes"}
    BY <1>4, RefundBuilders DEF Bounds, RefundFields
  <2>2. QED
    BY <1>4, <2>1 DEF Supporters, AnyRefund, Kickback
<1>5. QED
  BY <1>1, <1>2, <1>3, <1>4 DEF AnyRefund

\* Messages are converted step by step as Converted says.
LEMMA AlwaysConverted == Spec => []Converted
<1>1. Init => Converted
  BY DEF Init, Converted
<1>2. Converted /\ [Next]_vars => Converted'
  <2> SUFFICES ASSUME Converted, [Next]_vars PROVE Converted'
    OBVIOUS
  <2>1. CASE Prepare
    BY <2>1 DEF Prepare, Converted
  <2>2. ASSUME NEW r \in Clients, Build(r) PROVE Converted'
    <3>1. relay' \in Clients /\ relay' # Unset
      BY <2>2, NamesAssumption DEF Build, Clients
    <3>2. QED
      BY <2>2, <3>1 DEF Build, Converted
  <2>3. CASE UNCHANGED vars
    BY <2>3 DEF vars, Converted
  <2>4. QED
    BY <2>1, <2>2, <2>3 DEF Next
<1>3. QED
  BY <1>1, <1>2, PTL DEF Spec

\* What is unset after json.Unmarshal: only refund_percent can be zero.
Optional(f, v) ==
  {Unset, v} \union (IF f = "refund_percent" THEN {Zero} ELSE {})

\* The two sources of a field: the message, of which an empty value counts as
\* given for refund_percent only, and the configuration, which has a value for
\* refund fields only.
LEMMA Sources ==
  ASSUME Converted, NEW f \in Fields
  PROVE  /\ message[f] \in {Unset, Zero, BotValue}
         /\ Parsed(message)[f] = IF LooksUnset(f) THEN Unset ELSE message[f]
         /\ Parsed(message)[f] \in Optional(f, BotValue)
         /\ refund[f] \in Optional(f, ConfigValue)
         /\ f \notin RefundFields => refund[f] = Unset
<1>1. message \in [Fields -> {Unset, Zero, BotValue}]
  BY MessagesAssumption DEF Converted
<1>2. PICK c \in [Fields -> {Unset, Zero, ConfigValue}] :
        /\ \A g \in Fields \ RefundFields : c[g] = Unset
        /\ refund = Parsed(c)
  BY DEF Converted, Configs
<1>3. /\ refund[f] \in Optional(f, ConfigValue)
      /\ f \notin RefundFields => refund[f] = Unset
  BY <1>2 DEF Parsed, Optional
<1>4. /\ message[f] \in {Unset, Zero, BotValue}
      /\ Parsed(message)[f] = IF LooksUnset(f) THEN Unset ELSE message[f]
      /\ Parsed(message)[f] \in Optional(f, BotValue)
  BY <1>1, ValuesAssumption DEF Parsed, LooksUnset, Optional
<1>5. QED
  BY <1>3, <1>4

\* The defaults, with or without the fast path, replace the unset fields and
\* no others.
LEMMA FieldByField ==
  ASSUME Converted, NEW f \in Fields
  PROVE  bundle[f] = IF stage = "read" THEN Parsed(message)[f]
                     ELSE Default(Parsed(message), refund, f)
<1>1. CASE stage = "read"
  BY <1>1 DEF Converted
<1>2. CASE stage # "read"
  <2>1. bundle = applyRefundDefaults(Parsed(message), refund)
    BY <1>2 DEF Converted
  <2>2. CASE NoDefaults(refund)
    BY <1>2, <2>1, <2>2, Sources DEF applyRefundDefaults, NoDefaults, Default
  <2>3. CASE ~NoDefaults(refund)
    BY <1>2, <2>1, <2>3, Sources DEF applyRefundDefaults, Default
  <2>4. QED
    BY <2>2, <2>3
<1>3. QED
  BY <1>1, <1>2

\* A request is made of the bundle's fields and of nothing else.
LEMMA RequestIsBundle ==
  ASSUME Converted, NEW f \in DOMAIN request
  PROVE  /\ relay \in Clients /\ f \in Fields /\ f \in Registry[relay]
         /\ stage = "ready" /\ bundle[f] # Unset /\ request[f] = bundle[f]
<1>1. relay # Unset
  BY DEF Converted, NoRequest
<1>2. relay \in Clients /\ stage = "ready" /\ request = BuildRequest(relay, bundle)
  BY <1>1 DEF Converted
<1>3. QED
  BY <1>2, BuildersKnowTheFields DEF Clients, BuildRequest

\* The variables always have their types; in particular no field of a bundle
\* but refund_percent is ever zero, whoever gave the zero, and a request has no
\* field that the bundle has not and no value but the bundle's.
THEOREM TypeCorrect == Spec => []TypeOK
<1>1. Converted => TypeOK
  <2> SUFFICES ASSUME Converted PROVE TypeOK
    OBVIOUS
  <2>1. ASSUME NEW f \in Fields
        PROVE  bundle[f] \in {Unset, BotValue, ConfigValue}
                 \union (IF f = "refund_percent" THEN {Zero} ELSE {})
    BY FieldByField, Sources DEF Optional, Default
  <2>2. ASSUME NEW f \in DOMAIN request
        PROVE  f \in Fields /\ bundle[f] # Unset /\ request[f] = bundle[f]
    BY RequestIsBundle
  <2>3. QED
    BY <2>1, <2>2 DEF Converted, TypeOK
<1>2. QED
  BY <1>1, AlwaysConverted, PTL

\* What the bot gave, empty values other than 0 percent excepted, is what every
\* relay that should get the field is sent.
THEOREM BotTermsAlwaysPrevail == Spec => []BotTermsPrevail
<1>1. Converted => BotTermsPrevail
  <2> SUFFICES ASSUME Converted, relay # Unset, NEW f \in Terms(relay),
                      message[f] # Unset, ~LooksUnset(f)
               PROVE  f \in DOMAIN request /\ request[f] = message[f]
    BY DEF BotTermsPrevail
  <2>1. relay \in DOMAIN Registry /\ f \in Registry[relay] /\ f \in Fields
    BY BuildersKnowTheFields, TermsAreCopied DEF Converted, Clients
  <2>2. bundle[f] = message[f]
    BY <2>1, FieldByField, Sources DEF Converted, Default
  <2>3. QED
    BY <2>1, <2>2 DEF Converted, BuildRequest
<1>2. QED
  BY <1>1, AlwaysConverted, PTL

\* Where the bot left a field out, every relay that should get it is sent the
\* configured value, and whatever a relay is sent was given by one of the two.
THEOREM DefaultsAlwaysFillGaps == Spec => []DefaultsFillGaps
<1>1. ASSUME Converted, relay # Unset, NEW f \in Terms(relay),
             message[f] = Unset, refund[f] # Unset
      PROVE  f \in DOMAIN request /\ request[f] = refund[f]
  <2>1. relay \in DOMAIN Registry /\ f \in Registry[relay] /\ f \in Fields
    BY <1>1, BuildersKnowTheFields, TermsAreCopied DEF Converted, Clients
  <2>2. bundle[f] = refund[f]
    BY <1>1, <2>1, FieldByField, Sources DEF Converted, Default
  <2>3. QED
    BY <1>1, <2>1, <2>2 DEF Converted, BuildRequest
<1>2. ASSUME Converted, NEW f \in DOMAIN request
      PROVE  request[f] # Unset /\ request[f] \in {message[f], refund[f]}
  <2>1. /\ f \in Fields /\ stage = "ready"
        /\ bundle[f] # Unset /\ request[f] = bundle[f]
    BY <1>2, RequestIsBundle
  <2>2. bundle[f] = Default(Parsed(message), refund, f)
    BY <1>2, <2>1, FieldByField
  <2>3. QED
    BY <1>2, <2>1, <2>2, Sources DEF Default
<1>3. Converted => DefaultsFillGaps
  BY <1>1, <1>2 DEF DefaultsFillGaps
<1>4. QED
  BY <1>3, AlwaysConverted, PTL

\* No relay is sent a refund field that it does not support, whatever the bot
\* and the configuration give.
THEOREM RefundsWhereSupported == Spec => []RefundsOnlyWhereSupported
<1>1. Converted => RefundsOnlyWhereSupported
  BY RequestIsBundle, RefundsCopied DEF RefundsOnlyWhereSupported, Clients
<1>2. QED
  BY <1>1, AlwaysConverted, PTL
=============================================================================
