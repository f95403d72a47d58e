----------------------------- MODULE Simulator -----------------------------
(***************************************************************************)
(* simulator.go, and what a relay client hands to the tracker.  For each   *)
(* bundle RelayManager.Broadcast starts a goroutine that calls             *)
(* eth_callBundle, checks the answer, converts its amounts and gives a     *)
(* SimEvent to the tracker; meanwhile a relay client gives the tracker the *)
(* HashEvent of the same bundle.  The two share nothing but the bundle.    *)
(*                                                                         *)
(* An amount in an answer is a text: a prefix and digits, or Garbled when  *)
(* it is no number.  The endpoint is external: it writes an amount of wei  *)
(* in hexadecimal with the prefix 0x, or in decimal.                       *)
(***************************************************************************)
EXTENDS Integers, Sequences, SequencesExt, TxDetails

CONSTANTS
  Bundles,       \* the bundles that are simulated
  Candidates,    \* the raw transactions bundles consist of
  NumberOfTxs,   \* the numbers of transactions bundles have
  Targets,       \* the target blocks of bundles, 0 when the bot gave none
  Amounts,       \* the amounts of an answer: [wei, text]
  StateBlocks,   \* the stateBlockNumber of an answer, 0 when it is missing
  Hashes,        \* the bundle hashes a relay may return
  HasTracker,    \* tracking is enabled
  Garbled,       \* a text that is not a number
  UnitWei,       \* wei in a unit of the last decimal place printed
  Fine,          \* the steps in a wei to which a quotient is followed
  NumbersOfResults, \* how many results an answer may have
  Width          \* 2^64, the range of uint64

ASSUME UnitAssumption ==
  /\ UnitWei \in Nat \ {0} /\ UnitWei % 2 = 0
  /\ Fine \in Nat \ {0} /\ Width \in Nat \ {0}
ASSUME GarbledAssumption == Garbled # [prefix |-> "", digits |-> <<>>]
ASSUME BlocksAssumption ==
  Targets \subseteq 0 .. Width - 1 /\ StateBlocks \subseteq 0 .. Width - 1
ASSUME TxsAssumption == Candidates \subseteq RawTxs /\ NumberOfTxs \subseteq Nat
ASSUME ResultsAssumption == NumbersOfResults \subseteq Nat
ASSUME LinkAssumption ==
  None \notin [hash : {t.id : t \in Transactions}, block : 0 .. Width - 1]

VARIABLES
  txs,        \* the raw transactions of each bundle
  target,     \* target_block of each bundle
  sim,        \* place of the goroutine of SimulateAsync
  answer,     \* the answer of eth_callBundle
  simEvent,   \* what RecordSim was given, None before
  log,        \* the message the simulation ended with
  links,      \* the Tenderly links of that message, by index of transaction
  hashEvent   \* what RecordHash was given, None before

vars == <<txs, target, sim, answer, simEvent, log, links, hashEvent>>

\* gasFees is treated as coinbaseDiff is.
Fields == {"coinbaseDiff", "ethSentToCoinbase"}

\* What the endpoint says of a bundle.  How many results it lists is up to
\* the endpoint: the code does not compare it with the transactions sent.
Results ==
  [kind : {"result"}, amounts : [Fields -> Amounts],
   failed : UNION {[1 .. m -> BOOLEAN] : m \in NumbersOfResults},
   stateBlock : StateBlocks]

Init ==
  /\ txs \in [Bundles -> UNION {[1 .. n -> Candidates] : n \in NumberOfTxs}]
  /\ target \in [Bundles -> Targets]
  /\ sim = [b \in Bundles |-> "off"]
  /\ answer = [b \in Bundles |-> None]
  /\ simEvent = [b \in Bundles |-> None]
  /\ log = [b \in Bundles |-> "none"]
  /\ links = [b \in Bundles |-> <<>>]
  /\ hashEvent = [b \in Bundles |-> None]

-----------------------------------------------------------------------------
(* The conversion of amounts *)

\* The value of a sequence of digits.
Value(digits, base) ==
  LET value[i \in 0 .. Len(digits)] ==
        IF i = 0 THEN 0 ELSE value[i - 1] * base + digits[i]
  IN value[Len(digits)]

\* External: the endpoint writes wei in hexadecimal with the prefix 0x or in
\* decimal; a missing amount reads as 0.
Radix(text) == IF text.prefix = "0x" THEN 16 ELSE 10

ASSUME AmountsAssumption ==
  \A a \in Amounts :
    /\ a.wei \in Nat
    /\ \/ a.text = Garbled
       \/ /\ a.text.digits \in Seq(0 .. Radix(a.text) - 1)
          /\ a.wei = Value(a.text.digits, Radix(a.text))

\* (mutant of Quotient: a float32, off by a unit from 0.02 ETH on)
Float32Quotient(n) ==
  {x \in (n - UnitWei) * Fine .. (n + UnitWei) * Fine : x >= 0}

\* The first rounding: n / 1e18 as a big.Float, in steps of 1 / Fine wei.  It
\* has as many bits as n and no fewer than 64 (SetInt), so it is less than a
\* wei off, on either side.
Quotient(n) ==
  {x \in n * Fine - (Fine - 1) .. n * Fine + (Fine - 1) : x >= 0}

\* The second rounding, "%.9f": the units nearest to the quotient.
Printed(x) ==
  LET step == Fine * UnitWei
  IN {k \in {x \div step, x \div step + 1} :
        2 * (x - k * step) <= step /\ 2 * (k * step - x) <= step}

Base == 16

\* The possible results, in units; a text that is no number stays as it is.
weiHexToEth(text) ==
  IF text = Garbled THEN {Garbled}
  ELSE IF text.digits = <<>> THEN {0}
  ELSE UNION {Printed(x) : x \in Quotient(Value(text.digits, Base))}

\* (mutant of IsZeroPayment: another field of the answer is looked at)
IsZeroDiff(r) ==
  LET t == r.amounts["coinbaseDiff"].text IN t # Garbled /\ t.digits = <<0>>

\* The direct payment is "", "0x0" or "0".
IsZeroPayment(r) ==
  LET t == r.amounts["ethSentToCoinbase"].text
  IN \/ t = [prefix |-> "", digits |-> <<>>]
     \/ t # Garbled /\ t.digits = <<0>>

-----------------------------------------------------------------------------
(* SimulateAsync *)

\* RelayManager.Broadcast starts the goroutine, which sends its request.
SimulateAsync(b) ==
  /\ sim[b] = "off"
  /\ sim' = [sim EXCEPT ![b] = "calling"]
  /\ UNCHANGED <<txs, target, answer, simEvent, log, links, hashEvent>>

\* External: the endpoint answers.
EndpointAnswers(b) ==
  /\ sim[b] = "calling"
  /\ sim' = [sim EXCEPT ![b] = "answered"]
  /\ answer' \in {[answer EXCEPT ![b] = a] :
                    a \in Results \union {[kind |-> "rejected"], [kind |-> "empty"]}}
  /\ UNCHANGED <<txs, target, simEvent, log, links, hashEvent>>

\* The goroutine returns with a warning; nothing is recorded.
Warn(b, message) ==
  /\ sim' = [sim EXCEPT ![b] = "done"]
  /\ log' = [log EXCEPT ![b] = message]
  /\ UNCHANGED <<txs, target, answer, simEvent, links, hashEvent>>

CallFails(b) == sim[b] = "calling" /\ Warn(b, "request failed")

\* (mutant of CallExpires: a call under a context without a deadline)
NeverExpires(b) == FALSE /\ CallFails(b)

\* The shared client's httpTimeout, which is shorter than simulateTimeout.
CallExpires(b) == CallFails(b)

Rejected(b) ==
  /\ sim[b] = "answered" /\ answer[b].kind = "rejected"
  /\ Warn(b, "rejected")

EmptyResult(b) ==
  /\ sim[b] = "answered" /\ answer[b].kind = "empty"
  /\ Warn(b, "empty result")

\* (mutant of SomeFailed: only the first transaction is looked at)
FirstFailed(r) == DOMAIN r.failed # {} /\ r.failed[1]

\* Some transaction has an Error.
SomeFailed(r) == \E i \in DOMAIN r.failed : r.failed[i]

TxReverted(b) ==
  /\ sim[b] = "answered" /\ answer[b].kind = "result"
  /\ SomeFailed(answer[b])
  /\ Warn(b, "reverted")

\* (mutant of StateBlock: computed with a sign)
SignedStateBlock(b) ==
  IF answer[b].stateBlock # 0 THEN answer[b].stateBlock ELSE target[b] - 1

\* The block the simulation was run on; the one before the target when the
\* answer does not say, in uint64.
StateBlock(b) ==
  IF answer[b].stateBlock # 0 THEN answer[b].stateBlock
  ELSE (target[b] - 1) % Width

\* All transactions succeeded: the result is given to the tracker and the
\* profit is logged.
Valid(b) ==
  /\ sim[b] = "answered" /\ answer[b].kind = "result"
  /\ ~SomeFailed(answer[b])
  /\ sim' = [sim EXCEPT ![b] = "done"]
  /\ \E e \in [Fields -> UNION {weiHexToEth(answer[b].amounts[f].text) :
                                f \in Fields}] :
       /\ \A f \in Fields : e[f] \in weiHexToEth(answer[b].amounts[f].text)
       /\ simEvent' = IF HasTracker
                      THEN [simEvent EXCEPT ![b] =
                              [eth |-> e, stateBlock |-> StateBlock(b)]]
                      ELSE simEvent
  /\ IF IsZeroPayment(answer[b])
     THEN /\ log' = [log EXCEPT ![b] = "pays 0"]
          /\ links' = [links EXCEPT ![b] =
               [i \in DOMAIN txs[b] |-> buildTenderlyURL(txs[b][i], StateBlock(b))]]
     ELSE /\ log' = [log EXCEPT ![b] = "valid"]
          /\ UNCHANGED links
  /\ UNCHANGED <<txs, target, answer, hashEvent>>

\* A relay client got a 2xx answer whose body holds a bundle hash.
RecordHash(b) ==
  /\ HasTracker /\ hashEvent[b] = None
  /\ \E body \in Answers(Hashes) :
       /\ parseBundleHash(body) # None
       /\ hashEvent' = [hashEvent EXCEPT ![b] =
            [bundleHash   |-> parseBundleHash(body),
             lastTxHash   |-> computeLastTxHash(txs[b]),
             transactions |-> decodeTxDetails(txs[b])]]
  /\ UNCHANGED <<txs, target, sim, answer, simEvent, log, links>>

Return(b) == Rejected(b) \/ EmptyResult(b) \/ TxReverted(b) \/ Valid(b)

\* All the work there is has been done.
Idle == (\A b \in Bundles : sim[b] = "done") /\ UNCHANGED vars

Next ==
  \/ Idle
  \/ \E b \in Bundles :
       \/ SimulateAsync(b) \/ EndpointAnswers(b) \/ CallFails(b)
       \/ CallExpires(b) \/ Return(b) \/ RecordHash(b)

\* The goroutine runs, and the client's timeout ends a call that the endpoint
\* never answers.
Fairness ==
  \A b \in Bundles : WF_vars(CallExpires(b)) /\ WF_vars(Return(b))

Spec == Init /\ [][Next]_vars /\ Fairness

-----------------------------------------------------------------------------
(* Properties *)

TypeOK ==
  /\ sim \in [Bundles -> {"off", "calling", "answered", "done"}]
  /\ \A b \in Bundles :
       /\ target[b] \in 0 .. Width - 1
       /\ simEvent[b] # None =>
            /\ DOMAIN simEvent[b].eth = Fields
            /\ simEvent[b].stateBlock \in 0 .. Width - 1
       /\ links[b] = <<>> \/ DOMAIN links[b] = DOMAIN txs[b]

\* The tracker is only ever told of a bundle's profit when no transaction the
\* answer lists failed, wherever in the list it is: the file has no profit for
\* a bundle that reverts.  (An answer that lists fewer transactions than the
\* bundle has, or none, is taken for a success.)
RecordedOnlyIfAllSucceed ==
  \A b \in Bundles :
    simEvent[b] # None \/ log[b] \in {"valid", "pays 0"}
      => /\ answer[b].kind = "result"
         /\ \A i \in DOMAIN answer[b].failed : ~answer[b].failed[i]

\* eth units are as near to this many wei as units can be.
Shows(eth, wei) ==
  /\ eth \in Nat
  /\ 2 * (wei - eth * UnitWei) <= UnitWei
  /\ 2 * (eth * UnitWei - wei) <= UnitWei

\* An amount the endpoint has written in hexadecimal is recorded to the nearest
\* unit of the last place printed, although it is rounded twice on the way.
HexAmountsAreExact ==
  \A b \in Bundles : simEvent[b] # None =>
    \A f \in Fields :
      LET a == answer[b].amounts[f]
      IN a.text # Garbled /\ a.text.prefix = "0x" => Shows(simEvent[b].eth[f], a.wei)

\* The log says that a bundle pays nothing only if nothing was paid: nobody is
\* sent to look for a missing payment that is there.
PaysZeroMeansZero ==
  \A b \in Bundles :
    log[b] = "pays 0" => answer[b].amounts["ethSentToCoinbase"].wei = 0

\* The transactions listed are those that have a link, in the same order: `at`
\* takes each to the place of its link.
AreLinked(listed, ls) ==
  LET linked == {i \in DOMAIN ls : ls[i] # None}
  IN \E at \in [DOMAIN listed -> linked] :
       /\ \A i, j \in DOMAIN listed : i < j => at[i] < at[j]
       /\ \A l \in linked : \E i \in DOMAIN listed : at[i] = l
       /\ \A i \in DOMAIN listed : ls[at[i]].hash = listed[i]

\* The links the simulator logs and the details a relay client records, made
\* by different code from the same raw transactions, are about the same
\* transactions in the same order.
LinksMatchDetails ==
  \A b \in Bundles :
    log[b] = "pays 0" /\ hashEvent[b] # None =>
      AreLinked(hashEvent[b].transactions, links[b])

\* Each simulation comes to an end, also when the endpoint never answers.
SimulationEnds == \A b \in Bundles : sim[b] = "calling" ~> sim[b] = "done"

\* The amounts in the tracking file are the ETH the builder earned from the
\* bundle, however the endpoint writes numbers.
AmountsAreExact ==
  \A b \in Bundles : simEvent[b] # None =>
    \A f \in Fields :
      answer[b].amounts[f].text # Garbled
        => Shows(simEvent[b].eth[f], answer[b].amounts[f].wei)
=============================================================================
