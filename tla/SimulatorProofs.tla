--------------------------- MODULE SimulatorProofs ---------------------------
(***************************************************************************)
(* Proofs about Simulator, for any number of bundles, any transactions and *)
(* any amounts in the answers.                                             *)
(***************************************************************************)
EXTENDS Simulator, WellFoundedInduction, TLAPS

-----------------------------------------------------------------------------
(* Loops *)

\* A nonempty set of natural numbers has a least element.
LEMMA Least ==
  ASSUME NEW T \in SUBSET Nat, T # {}
  PROVE  \E m \in T : \A k \in T : m <= k
<1>1. \E m \in T : \A k \in T : <<k, m>> \notin OpToRel(<, Nat)
  BY WFMin, NatLessThanWellFounded, Zenon
<1>2. \A m, k \in T : <<k, m>> \notin OpToRel(<, Nat) => m <= k
  BY DEF OpToRel
<1>3. QED
  BY <1>1, <1>2

\* What holds at 0, and at n + 1 when it holds at n, holds at every number.
LEMMA Induction ==
  ASSUME NEW S, 0 \in S, \A n \in Nat : n \in S => n + 1 \in S
  PROVE  \A n \in Nat : n \in S
<1> SUFFICES ASSUME Nat \ S # {} PROVE FALSE
  OBVIOUS
<1>1. PICK m \in Nat \ S : \A k \in Nat \ S : m <= k
  BY Least
<1>2. m # 0 /\ m - 1 \in Nat /\ m - 1 \in S
  BY <1>1
<1>3. m \in S
  BY <1>2
<1>4. QED
  BY <1>1, <1>3

-----------------------------------------------------------------------------
(* The value of digits *)

Radixes == {10, 16}

\* v holds the values that reading the first n digits goes through.
Reads(v, n, digits, base) ==
  v = [i \in 0 .. n |-> IF i = 0 THEN 0 ELSE v[i - 1] * base + digits[i]]

\* Any number of digits can be read.
LEMMA ReadingExists ==
  ASSUME NEW digits, NEW base, NEW n \in Nat
  PROVE  \E v : Reads(v, n, digits, base)
<1> DEFINE S == {m \in Nat : \E v : Reads(v, m, digits, base)}
<1>1. 0 \in S
  <2>1. Reads([i \in 0 .. 0 |-> 0], 0, digits, base)
    BY DEF Reads
  <2>2. QED
    BY <2>1
<1>2. ASSUME NEW m \in Nat, m \in S PROVE m + 1 \in S
  <2>1. PICK v : Reads(v, m, digits, base)
    BY <1>2
  <2> DEFINE w == [i \in 0 .. m + 1 |->
                     IF i = m + 1 THEN v[m] * base + digits[m + 1] ELSE v[i]]
  <2>2. ASSUME NEW i \in 0 .. m + 1
        PROVE  w[i] = IF i = 0 THEN 0 ELSE w[i - 1] * base + digits[i]
    <3>1. CASE i = m + 1
      BY <3>1
    <3>2. CASE i # m + 1
      <4>1. i \in 0 .. m /\ w[i] = v[i] /\ (i # 0 => w[i - 1] = v[i - 1])
        BY <3>2
      <4>2. v[i] = IF i = 0 THEN 0 ELSE v[i - 1] * base + digits[i]
        BY <2>1, <4>1 DEF Reads
      <4>3. QED
        BY <4>1, <4>2
    <3>3. QED
      BY <3>1, <3>2
  <2>3. Reads(w, m + 1, digits, base)
    BY <2>2 DEF Reads
  <2>4. QED
    BY <2>3
<1>3. \A m \in Nat : m \in S => m + 1 \in S
  BY <1>2
<1>4. \A m \in Nat : m \in S
  <2> HIDE DEF S
  <2>1. QED
    BY <1>1, <1>3, Induction
<1>5. QED
  BY <1>4

\* Value is the last of the values that are gone through, all of them naturals.
LEMMA Reading ==
  ASSUME NEW digits \in Seq(Nat), NEW base \in Radixes
  PROVE  \E v \in [0 .. Len(digits) -> Nat] :
           /\ v[0] = 0
           /\ \A i \in 1 .. Len(digits) : v[i] = v[i - 1] * base + digits[i]
           /\ Value(digits, base) = v[Len(digits)]
<1> DEFINE v == CHOOSE v : Reads(v, Len(digits), digits, base)
<1>1. Reads(v, Len(digits), digits, base)
  BY ReadingExists
<1>2. Value(digits, base) = v[Len(digits)]
  BY DEF Value, Reads
<1> HIDE DEF v
<1>3. /\ v[0] = 0
      /\ \A i \in 1 .. Len(digits) : v[i] = v[i - 1] * base + digits[i]
  BY <1>1 DEF Reads
<1> DEFINE S == {n \in Nat : n <= Len(digits) => v[n] \in Nat}
<1>4. ASSUME NEW n \in Nat, n \in S PROVE n + 1 \in S
  <2>1. CASE n + 1 <= Len(digits)
    <3>1. v[n] \in Nat /\ n + 1 \in 1 .. Len(digits) /\ n + 1 - 1 = n
      BY <1>4, <2>1
    <3>2. v[n + 1] = v[n] * base + digits[n + 1]
      BY <1>3, <3>1
    <3>3. digits[n + 1] \in Nat
      BY <2>1
    <3>4. CASE base = 10
      BY <3>1, <3>2, <3>3, <3>4
    <3>5. CASE base = 16
      BY <3>1, <3>2, <3>3, <3>5
    <3>6. QED
      BY <3>4, <3>5 DEF Radixes
  <2>2. QED
    BY <2>1
<1>5. 0 \in S
  BY <1>3
<1>6. \A n \in Nat : n \in S
  <2> HIDE DEF S
  <2>1. QED
    BY <1>4, <1>5, Induction
<1>7. Len(digits) \in Nat /\ \A n \in 0 .. Len(digits) : v[n] \in Nat
  BY <1>6
<1>8. v \in [0 .. Len(digits) -> Nat]
  BY <1>1, <1>7 DEF Reads
<1>9. QED
  BY <1>2, <1>3, <1>8

\* Digits of a text read as a natural number.
LEMMA ValueType ==
  ASSUME NEW digits \in Seq(Nat), NEW base \in Radixes
  PROVE  Value(digits, base) \in Nat
BY Reading

\* A text without digits reads as 0, a single digit as itself.
LEMMA NoDigits == ASSUME NEW base \in Radixes PROVE Value(<<>>, base) = 0
<1>1. <<>> \in Seq(Nat) /\ Len(<<>>) = 0
  OBVIOUS
<1>2. QED
  BY <1>1, Reading

LEMMA OneDigit ==
  ASSUME NEW base \in Radixes, NEW d \in Nat
  PROVE  Value(<<d>>, base) = d
<1> <<d>> \in Seq(Nat) /\ Len(<<d>>) = 1 /\ <<d>>[1] = d
  OBVIOUS
<1>1. PICK v \in [0 .. Len(<<d>>) -> Nat] :
        /\ v[0] = 0
        /\ \A i \in 1 .. Len(<<d>>) : v[i] = v[i - 1] * base + <<d>>[i]
        /\ Value(<<d>>, base) = v[Len(<<d>>)]
  BY Reading
<1>2. v[1] = v[0] * base + d /\ Value(<<d>>, base) = v[1]
  BY <1>1
<1>3. QED
  BY <1>1, <1>2 DEF Radixes

\* Read as hexadecimal, digits are worth at least what they are in decimal.
LEMMA HexIsMore ==
  ASSUME NEW digits \in Seq(Nat)
  PROVE  Value(digits, 10) <= Value(digits, 16)
<1>1. PICK d \in [0 .. Len(digits) -> Nat] :
        /\ d[0] = 0
        /\ \A i \in 1 .. Len(digits) : d[i] = d[i - 1] * 10 + digits[i]
        /\ Value(digits, 10) = d[Len(digits)]
  BY Reading DEF Radixes
<1>2. PICK h \in [0 .. Len(digits) -> Nat] :
        /\ h[0] = 0
        /\ \A i \in 1 .. Len(digits) : h[i] = h[i - 1] * 16 + digits[i]
        /\ Value(digits, 16) = h[Len(digits)]
  BY Reading DEF Radixes
<1> DEFINE S == {n \in Nat : n <= Len(digits) => d[n] <= h[n]}
<1>3. ASSUME NEW n \in Nat, n \in S PROVE n + 1 \in S
  <2>1. CASE n + 1 <= Len(digits)
    <3>1. n \in 0 .. Len(digits) /\ n + 1 \in 1 .. Len(digits) /\ d[n] <= h[n]
      BY <1>3, <2>1
    <3>2. /\ d[n + 1] = d[n] * 10 + digits[n + 1]
          /\ h[n + 1] = h[n] * 16 + digits[n + 1]
      BY <1>1, <1>2, <3>1
    <3>3. d[n] \in Nat /\ h[n] \in Nat /\ digits[n + 1] \in Nat
      BY <3>1
    <3>4. QED
      BY <3>1, <3>2, <3>3
  <2>2. QED
    BY <2>1
<1>4. 0 \in S /\ \A n \in Nat : n \in S => n + 1 \in S
  BY <1>1, <1>2, <1>3
<1>5. \A n \in Nat : n \in S
  <2> HIDE DEF S
  <2>1. QED
    BY <1>4, Induction
<1>6. QED
  BY <1>1, <1>2, <1>5

-----------------------------------------------------------------------------
(* The loop of decodeTxDetails *)

\* v holds what the first n runs of the loop have collected.
Collects(v, n, rawTxs) ==
  v = [i \in 0 .. n |->
         IF i = 0 THEN <<>>
         ELSE IF Detailed(rawTxs[i])
              THEN Append(v[i - 1], rawTxs[i].rest.id)
              ELSE v[i - 1]]

\* The loop can run any number of times.
LEMMA CollectingExists ==
  ASSUME NEW rawTxs, NEW n \in Nat
  PROVE  \E v : Collects(v, n, rawTxs)
<1> DEFINE S == {m \in Nat : \E v : Collects(v, m, rawTxs)}
<1>1. 0 \in S
  <2>1. Collects([i \in 0 .. 0 |-> <<>>], 0, rawTxs)
    BY DEF Collects
  <2>2. QED
    BY <2>1
<1>2. ASSUME NEW m \in Nat, m \in S PROVE m + 1 \in S
  <2>1. PICK v : Collects(v, m, rawTxs)
    BY <1>2
  <2> DEFINE raw == rawTxs[m + 1]
             w == [i \in 0 .. m + 1 |->
                     IF i # m + 1 THEN v[i]
                     ELSE IF Detailed(raw) THEN Append(v[m], raw.rest.id) ELSE v[m]]
  <2>2. ASSUME NEW i \in 0 .. m + 1
        PROVE  w[i] = IF i = 0 THEN <<>>
                      ELSE IF Detailed(rawTxs[i])
                           THEN Append(w[i - 1], rawTxs[i].rest.id)
                           ELSE w[i - 1]
    <3>1. CASE i = m + 1
      BY <3>1
    <3>2. CASE i # m + 1
      <4>1. i \in 0 .. m /\ w[i] = v[i] /\ (i # 0 => w[i - 1] = v[i - 1])
        BY <3>2
      <4>2. v[i] = IF i = 0 THEN <<>>
                   ELSE IF Detailed(rawTxs[i])
                        THEN Append(v[i - 1], rawTxs[i].rest.id)
                        ELSE v[i - 1]
        BY <2>1, <4>1 DEF Collects
      <4>3. QED
        BY <4>1, <4>2
    <3>3. QED
      BY <3>1, <3>2
  <2>3. Collects(w, m + 1, rawTxs)
    BY <2>2 DEF Collects
  <2>4. QED
    BY <2>3
<1>3. \A m \in Nat : m \in S => m + 1 \in S
  BY <1>2
<1>4. \A m \in Nat : m \in S
  <2> HIDE DEF S
  <2>1. QED
    BY <1>1, <1>3, Induction
<1>5. QED
  BY <1>4

\* `at` takes each entry of details to the transaction it was copied from, all
\* those of the first n that have details, in their order.
CopiedFrom(at, details, n, rawTxs) ==
  LET detailed == {i \in 1 .. n : Detailed(rawTxs[i])}
  IN /\ at \in [DOMAIN details -> detailed]
     /\ \A i, j \in DOMAIN details : i < j => at[i] < at[j]
     /\ \A l \in detailed : \E i \in DOMAIN details : at[i] = l
     /\ \A i \in DOMAIN details : rawTxs[at[i]].rest.id = details[i]

\* The hashes of the transactions there are.
Ids == {t.id : t \in Transactions}

\* The hash that is copied is that of a transaction.
LEMMA DetailedId ==
  ASSUME NEW raw \in RawTxs, Detailed(raw)
  PROVE  raw.rest.id \in Ids
BY DEF Detailed, Decoded, RawTxs, Ids

\* A further transaction with details is appended, ...
LEMMA CopyMore ==
  ASSUME NEW rawTxs, NEW n \in Nat, NEW details \in Seq(Ids), NEW id \in Ids,
         Detailed(rawTxs[n + 1]), rawTxs[n + 1].rest.id = id,
         \E at : CopiedFrom(at, details, n, rawTxs)
  PROVE  \E at : CopiedFrom(at, Append(details, id), n + 1, rawTxs)
<1>1. PICK at : CopiedFrom(at, details, n, rawTxs)
  OBVIOUS
<1> DEFINE k == Len(details) + 1
           more == Append(details, id)
           to == [i \in 1 .. k |-> IF i = k THEN n + 1 ELSE at[i]]
           old == {i \in 1 .. n : Detailed(rawTxs[i])}
           new == {i \in 1 .. n + 1 : Detailed(rawTxs[i])}
<1>2. /\ k \in Nat \ {0} /\ DOMAIN details = 1 .. k - 1 /\ DOMAIN more = 1 .. k
      /\ more[k] = id /\ \A i \in 1 .. k - 1 : more[i] = details[i]
  OBVIOUS
<1>3. /\ at \in [1 .. k - 1 -> old]
      /\ \A i, j \in 1 .. k - 1 : i < j => at[i] < at[j]
      /\ \A l \in old : \E i \in 1 .. k - 1 : at[i] = l
      /\ \A i \in 1 .. k - 1 : rawTxs[at[i]].rest.id = details[i]
  BY <1>1, <1>2 DEF CopiedFrom
<1> HIDE DEF k, more
<1>4. new = old \union {n + 1} /\ old \subseteq 1 .. n
  OBVIOUS
<1>5. to \in [1 .. k -> new]
  BY <1>2, <1>3, <1>4
<1>6. \A i, j \in 1 .. k : i < j => to[i] < to[j]
  <2> SUFFICES ASSUME NEW i \in 1 .. k, NEW j \in 1 .. k, i < j
               PROVE  to[i] < to[j]
    OBVIOUS
  <2>1. i \in 1 .. k - 1 /\ to[i] = at[i] /\ at[i] \in 1 .. n
    BY <1>2, <1>3, <1>4
  <2>2. CASE j = k
    BY <2>1, <2>2
  <2>3. CASE j # k
    <3>1. j \in 1 .. k - 1 /\ to[j] = at[j]
      BY <1>2, <2>3
    <3>2. QED
      BY <1>3, <2>1, <3>1
  <2>4. QED
    BY <2>2, <2>3
<1>7. \A l \in new : \E i \in 1 .. k : to[i] = l
  <2> SUFFICES ASSUME NEW l \in new PROVE \E i \in 1 .. k : to[i] = l
    OBVIOUS
  <2>1. CASE l = n + 1
    <3>1. k \in 1 .. k /\ to[k] = l
      BY <1>2, <2>1
    <3>2. QED
      BY <3>1
  <2>2. CASE l \in old
    <3>1. PICK i \in 1 .. k - 1 : at[i] = l
      BY <1>3, <2>2
    <3>2. i \in 1 .. k /\ to[i] = l
      BY <1>2, <3>1
    <3>3. QED
      BY <3>2
  <2>3. QED
    BY <1>4, <2>1, <2>2
<1>8. \A i \in 1 .. k : rawTxs[to[i]].rest.id = more[i]
  BY <1>2, <1>3
<1>9. CopiedFrom(to, more, n + 1, rawTxs)
  BY <1>2, <1>5, <1>6, <1>7, <1>8 DEF CopiedFrom
<1>10. QED
  BY <1>9 DEF more

\* ... one without is skipped.
LEMMA CopySame ==
  ASSUME NEW rawTxs, NEW n \in Nat, NEW details, ~Detailed(rawTxs[n + 1]),
         \E at : CopiedFrom(at, details, n, rawTxs)
  PROVE  \E at : CopiedFrom(at, details, n + 1, rawTxs)
<1>1. {i \in 1 .. n + 1 : Detailed(rawTxs[i])} = {i \in 1 .. n : Detailed(rawTxs[i])}
  OBVIOUS
<1>2. QED
  BY <1>1 DEF CopiedFrom

\* decodeTxDetails copies all the transactions that have details, in order.
LEMMA DetailsAreCopies ==
  ASSUME NEW rawTxs \in Seq(RawTxs)
  PROVE  /\ decodeTxDetails(rawTxs) \in Seq(Ids)
         /\ \E at : CopiedFrom(at, decodeTxDetails(rawTxs), Len(rawTxs), rawTxs)
<1> DEFINE v == CHOOSE v : Collects(v, Len(rawTxs), rawTxs)
<1>1. Collects(v, Len(rawTxs), rawTxs)
  BY CollectingExists
<1>2. decodeTxDetails(rawTxs) = v[Len(rawTxs)]
  BY DEF decodeTxDetails, Collects
<1> HIDE DEF v
<1>3. ASSUME NEW i \in 0 .. Len(rawTxs)
      PROVE  v[i] = IF i = 0 THEN <<>>
                    ELSE IF Detailed(rawTxs[i])
                         THEN Append(v[i - 1], rawTxs[i].rest.id)
                         ELSE v[i - 1]
  BY <1>1 DEF Collects
<1> DEFINE Good(n) == /\ v[n] \in Seq(Ids)
                      /\ \E at : CopiedFrom(at, v[n], n, rawTxs)
           S == {n \in Nat : n <= Len(rawTxs) => Good(n)}
<1>4. 0 \in S
  <2>1. CopiedFrom(<<>>, <<>>, 0, rawTxs)
    BY DEF CopiedFrom
  <2>2. v[0] = <<>> /\ <<>> \in Seq(Ids)
    BY <1>3
  <2>3. QED
    BY <2>1, <2>2
<1>5. ASSUME NEW n \in Nat, n \in S PROVE n + 1 \in S
  <2>1. ASSUME n + 1 <= Len(rawTxs)
        PROVE  v[n + 1] = IF Detailed(rawTxs[n + 1])
                          THEN Append(v[n], rawTxs[n + 1].rest.id)
                          ELSE v[n]
    <3> DEFINE m == n + 1
    <3>1. m \in 0 .. Len(rawTxs) /\ m # 0 /\ m - 1 = n
      BY <2>1
    <3> HIDE DEF m
    <3>2. v[m] = IF m = 0 THEN <<>>
                 ELSE IF Detailed(rawTxs[m])
                      THEN Append(v[m - 1], rawTxs[m].rest.id)
                      ELSE v[m - 1]
      BY <1>3, <3>1, Zenon
    <3>3. v[m] = IF Detailed(rawTxs[m]) THEN Append(v[n], rawTxs[m].rest.id)
                 ELSE v[n]
      BY <3>1, <3>2, Zenon
    <3>4. QED
      BY <3>3 DEF m
  <2>2. CASE n + 1 <= Len(rawTxs)
    <3>1. Good(n) /\ n + 1 \in 1 .. Len(rawTxs)
      BY <1>5, <2>2
    <3>2. CASE Detailed(rawTxs[n + 1])
      <4>1. rawTxs[n + 1] \in RawTxs
        BY <3>1
      <4>2. rawTxs[n + 1].rest.id \in Ids
        BY <3>2, <4>1, DetailedId
      <4>3. v[n + 1] = Append(v[n], rawTxs[n + 1].rest.id)
        BY <2>2, <2>1, <3>2
      <4>4. v[n + 1] \in Seq(Ids)
        BY <3>1, <4>2, <4>3
      <4>5. \E at : CopiedFrom(at, v[n + 1], n + 1, rawTxs)
        BY <3>1, <3>2, <4>2, <4>3, CopyMore
      <4>6. QED
        BY <4>4, <4>5
    <3>3. CASE ~Detailed(rawTxs[n + 1])
      <4>1. v[n + 1] = v[n]
        BY <2>2, <2>1, <3>3
      <4>2. \E at : CopiedFrom(at, v[n], n + 1, rawTxs)
        BY <3>1, <3>3, CopySame
      <4>3. QED
        BY <3>1, <4>1, <4>2
    <3>4. QED
      BY <3>2, <3>3
  <2>3. QED
    BY <2>2
<1>6. \A n \in Nat : n \in S
  <2> HIDE DEF S
  <2>1. QED
    BY <1>4, <1>5, Induction
<1>7. Good(Len(rawTxs))
  <2> HIDE DEF Good
  <2>1. QED
    BY <1>6
<1>8. QED
  BY <1>2, <1>7

-----------------------------------------------------------------------------
(* The invariant *)

\* The answer to the call for bundle b, with no transaction failing.
Succeeded(b) == answer[b] \in Results /\ ~SomeFailed(answer[b])

\* What was recorded of bundle b is what its answer says.
Faithful(b) ==
  /\ DOMAIN simEvent[b].eth = Fields
  /\ \A f \in Fields :
       simEvent[b].eth[f] \in weiHexToEth(answer[b].amounts[f].text)
  /\ simEvent[b].stateBlock = StateBlock(b)

\* How far the simulation of bundle b has come.
Simulated(b) ==
  /\ sim[b] = "answered" =>
       answer[b] \in Results \union {[kind |-> "rejected"], [kind |-> "empty"]}
  /\ simEvent[b] # None \/ log[b] \in {"valid", "pays 0"} =>
       sim[b] = "done" /\ Succeeded(b)
  /\ simEvent[b] # None => Faithful(b)
  /\ log[b] = "pays 0" => IsZeroPayment(answer[b])
  /\ links[b] = <<>> \/ DOMAIN links[b] = DOMAIN txs[b]
  /\ log[b] = "pays 0" =>
       links[b] = [i \in DOMAIN txs[b] |-> buildTenderlyURL(txs[b][i], StateBlock(b))]
  /\ hashEvent[b] # None => hashEvent[b].transactions = decodeTxDetails(txs[b])

\* The variables are functions of the bundles.
PerBundle ==
  /\ txs \in [Bundles -> UNION {[1 .. n -> Candidates] : n \in NumberOfTxs}]
  /\ target \in [Bundles -> Targets]
  /\ sim \in [Bundles -> {"off", "calling", "answered", "done"}]
  /\ DOMAIN answer = Bundles /\ DOMAIN simEvent = Bundles
  /\ DOMAIN log = Bundles /\ DOMAIN links = Bundles
  /\ DOMAIN hashEvent = Bundles

\* The inductive invariant.
AllSimulated == PerBundle /\ \A b \in Bundles : Simulated(b)

\* Nothing changes for bundle b.
Same(b) ==
  /\ txs'[b] = txs[b] /\ target'[b] = target[b] /\ sim'[b] = sim[b]
  /\ answer'[b] = answer[b] /\ simEvent'[b] = simEvent[b]
  /\ log'[b] = log[b] /\ links'[b] = links[b]
  /\ hashEvent'[b] = hashEvent[b]

\* What holds of a bundle goes on to hold when nothing changes for it.
LEMMA SameStays ==
  ASSUME NEW b \in Bundles, Simulated(b), Same(b)
  PROVE  Simulated(b)'
BY DEF Simulated, Same, Succeeded, Faithful, StateBlock, IsZeroPayment,
     SomeFailed

\* A step for one bundle is no step for another.
LEMMA OneAtATime ==
  ASSUME PerBundle, NEW b \in Bundles,
         \/ SimulateAsync(b) \/ EndpointAnswers(b) \/ CallFails(b) \/ Return(b)
         \/ RecordHash(b)
  PROVE  PerBundle' /\ \A d \in Bundles \ {b} : Same(d)
<1> USE DEF PerBundle, Same
<1>1. CASE SimulateAsync(b)
  BY <1>1 DEF SimulateAsync
<1>2. CASE EndpointAnswers(b)
  BY <1>2 DEF EndpointAnswers
<1>3. CASE CallFails(b) \/ Rejected(b) \/ EmptyResult(b) \/ TxReverted(b)
  BY <1>3 DEF CallFails, Rejected, EmptyResult, TxReverted, Warn
<1>4. CASE Valid(b)
  BY <1>4 DEF Valid
<1>5. CASE RecordHash(b)
  BY <1>5 DEF RecordHash
<1>6. QED
  BY <1>1, <1>2, <1>3, <1>4, <1>5 DEF Return

\* Before an outcome is recorded there is none.
LEMMA NotYet ==
  ASSUME NEW b \in Bundles, Simulated(b), sim[b] # "done"
  PROVE  simEvent[b] = None /\ log[b] \notin {"valid", "pays 0"}
BY DEF Simulated

\* The only outcome that is recorded is that of a bundle all of whose
\* transactions succeeded, and it is recorded as the answer has it.
LEMMA ValidStep ==
  ASSUME PerBundle, NEW b \in Bundles, Simulated(b), Valid(b)
  PROVE  Simulated(b)'
<1>1. /\ sim[b] = "answered" /\ sim'[b] = "done"
      /\ txs'[b] = txs[b] /\ answer'[b] = answer[b] /\ target'[b] = target[b]
      /\ hashEvent'[b] = hashEvent[b]
  BY DEF Valid, PerBundle
<1>2. Succeeded(b) /\ Succeeded(b)'
  <2>1. Succeeded(b)
    <3>1. answer[b].kind = "result" /\ ~SomeFailed(answer[b])
      BY DEF Valid
    <3>2. answer[b] \in Results
      <4>1. /\ answer[b] # [kind |-> "rejected"]
            /\ answer[b] # [kind |-> "empty"]
        BY <3>1
      <4>2. QED
        BY <1>1, <4>1 DEF Simulated
    <3>3. QED
      BY <3>1, <3>2 DEF Succeeded
  <2>2. QED
    BY <1>1, <2>1 DEF Succeeded, SomeFailed
<1>3. simEvent'[b] # None => Faithful(b)'
  <2>1. simEvent[b] = None
    BY <1>1, NotYet
  <2>2. CASE ~HasTracker
    BY <2>1, <2>2 DEF Valid
  <2>3. CASE HasTracker
    <3>1. PICK e \in [Fields -> UNION {weiHexToEth(answer[b].amounts[f].text) :
                                   f \in Fields}] :
            /\ \A f \in Fields : e[f] \in weiHexToEth(answer[b].amounts[f].text)
            /\ simEvent' = [simEvent EXCEPT ![b] =
                              [eth |-> e, stateBlock |-> StateBlock(b)]]
      BY <2>3 DEF Valid
    <3>2. simEvent'[b] = [eth |-> e, stateBlock |-> StateBlock(b)]
      BY <3>1 DEF PerBundle
    <3>3. StateBlock(b)' = StateBlock(b)
      BY <1>1 DEF StateBlock
    <3>4. QED
      BY <1>1, <3>1, <3>2, <3>3 DEF Faithful
  <2>4. QED
    BY <2>2, <2>3
<1>4. /\ log'[b] = "pays 0" =>
           /\ IsZeroPayment(answer[b])
           /\ links'[b] = [i \in DOMAIN txs[b] |->
                             buildTenderlyURL(txs[b][i], StateBlock(b))]
      /\ links'[b] = <<>> \/ DOMAIN links'[b] = DOMAIN txs[b]
  <2>1. log[b] # "pays 0" /\ (links[b] = <<>> \/ DOMAIN links[b] = DOMAIN txs[b])
    BY <1>1, NotYet DEF Simulated
  <2>2. CASE IsZeroPayment(answer[b])
    <3>1. links'[b] = [i \in DOMAIN txs[b] |->
                         buildTenderlyURL(txs[b][i], StateBlock(b))]
      BY <2>2 DEF Valid, PerBundle
    <3>2. QED
      BY <2>2, <3>1
  <2>3. CASE ~IsZeroPayment(answer[b])
    <3>1. log'[b] = "valid" /\ links'[b] = links[b]
      BY <2>3 DEF Valid, PerBundle
    <3>2. QED
      BY <2>1, <3>1
  <2>4. QED
    BY <2>2, <2>3
<1>5. StateBlock(b)' = StateBlock(b)
  BY <1>1 DEF StateBlock
<1>6. log'[b] = "pays 0" =>
        /\ IsZeroPayment(answer'[b])
        /\ links'[b] = [i \in DOMAIN txs'[b] |->
                          buildTenderlyURL(txs'[b][i], StateBlock(b)')]
  BY <1>1, <1>4, <1>5
<1>7. (hashEvent[b] # None => hashEvent[b].transactions = decodeTxDetails(txs[b]))'
  BY <1>1 DEF Simulated
<1>8. QED
  BY <1>1, <1>2, <1>3, <1>4, <1>6, <1>7 DEF Simulated

\* Every step of Simulator keeps the invariant.
LEMMA SimulatedStep == AllSimulated /\ [Next]_vars => AllSimulated'
<1> SUFFICES ASSUME AllSimulated, [Next]_vars PROVE AllSimulated'
  OBVIOUS
<1>1. PerBundle /\ \A b \in Bundles : Simulated(b)
  BY DEF AllSimulated
<1>2. ASSUME PerBundle', \A b \in Bundles : Same(b) PROVE AllSimulated'
  BY <1>1, <1>2, SameStays DEF AllSimulated
<1>3. ASSUME NEW b \in Bundles, Simulated(b)',
             \/ SimulateAsync(b) \/ EndpointAnswers(b) \/ CallFails(b)
             \/ Return(b) \/ RecordHash(b)
      PROVE  AllSimulated'
  BY <1>1, <1>3, OneAtATime, SameStays DEF AllSimulated
<1>4. ASSUME NEW b \in Bundles, SimulateAsync(b) PROVE Simulated(b)'
  <2>1. /\ sim[b] = "off" /\ sim'[b] = "calling"
        /\ UNCHANGED <<simEvent, log, links, txs, hashEvent>>
    BY <1>1, <1>4 DEF SimulateAsync, PerBundle
  <2>2. QED
    BY <1>1, <2>1, NotYet DEF Simulated
<1>5. ASSUME NEW b \in Bundles, EndpointAnswers(b) PROVE Simulated(b)'
  <2>1. /\ sim[b] = "calling" /\ sim'[b] = "answered"
        /\ UNCHANGED <<simEvent, log, links, txs, hashEvent>>
        /\ answer'[b] \in Results \union {[kind |-> "rejected"], [kind |-> "empty"]}
    BY <1>1, <1>5 DEF EndpointAnswers, PerBundle
  <2>2. QED
    BY <1>1, <2>1, NotYet DEF Simulated, Results
<1>6. ASSUME NEW b \in Bundles,
             CallFails(b) \/ Rejected(b) \/ EmptyResult(b) \/ TxReverted(b)
      PROVE  Simulated(b)'
  <2>1. /\ sim[b] # "done" /\ sim'[b] = "done"
        /\ log'[b] \notin {"valid", "pays 0"}
        /\ UNCHANGED <<simEvent, links, txs, hashEvent>>
    BY <1>1, <1>6 DEF CallFails, Rejected, EmptyResult, TxReverted, Warn,
         PerBundle
  <2>2. QED
    BY <1>1, <2>1, NotYet DEF Simulated
<1>7. ASSUME NEW b \in Bundles, RecordHash(b) PROVE Simulated(b)'
  <2>1. /\ hashEvent'[b].transactions = decodeTxDetails(txs[b])
        /\ UNCHANGED <<txs, target, sim, answer, simEvent, log, links>>
    BY <1>1, <1>7 DEF RecordHash, PerBundle
  <2>2. QED
    BY <1>1, <2>1
       DEF Simulated, Succeeded, Faithful, StateBlock, IsZeroPayment, SomeFailed
<1>8. CASE Idle \/ UNCHANGED vars
  BY <1>1, <1>2, <1>8 DEF Idle, vars, PerBundle, Same
<1>9. QED
  BY <1>1, <1>3, <1>4, <1>5, <1>6, <1>7, <1>8, ValidStep
     DEF Next, CallExpires, Return

\* The invariant holds from the start.
LEMMA AlwaysSimulated == Spec => []AllSimulated
<1>1. Init => AllSimulated
  BY DEF Init, AllSimulated, PerBundle, Simulated
<1>2. QED
  BY <1>1, SimulatedStep, PTL DEF Spec

-----------------------------------------------------------------------------
(* What follows *)

\* The range of an answer's values.
LEMMA ResultParts ==
  ASSUME NEW r \in Results
  PROVE  /\ r.kind = "result" /\ r.stateBlock \in StateBlocks
         /\ \A f \in Fields : r.amounts[f] \in Amounts
BY DEF Results

\* A bundle is a sequence of transactions.
LEMMA TxsLength ==
  ASSUME PerBundle, NEW b \in Bundles
  PROVE  /\ txs[b] \in Seq(RawTxs)
         /\ Len(txs[b]) \in Nat /\ DOMAIN txs[b] = 1 .. Len(txs[b])
         /\ \A i \in 1 .. Len(txs[b]) : txs[b][i] \in RawTxs
<1>1. PICK n \in NumberOfTxs : txs[b] \in [1 .. n -> Candidates]
  BY DEF PerBundle
<1>2. n \in Nat /\ \A i \in 1 .. n : txs[b][i] \in RawTxs
  BY <1>1, TxsAssumption
<1>3. txs[b] \in [1 .. n -> RawTxs]
  BY <1>1, <1>2
<1>4. QED
  BY <1>2, <1>3

\* The block that a simulation is anchored to fits in uint64.
LEMMA BlockFits ==
  ASSUME AllSimulated, NEW b \in Bundles, answer[b] \in Results
  PROVE  StateBlock(b) \in 0 .. Width - 1
<1>1. answer[b].stateBlock \in 0 .. Width - 1
  BY TxsLength, ResultParts, BlocksAssumption DEF AllSimulated
<1>2. target[b] \in 0 .. Width - 1
  BY BlocksAssumption DEF AllSimulated, PerBundle
<1>3. QED
  BY <1>1, <1>2, UnitAssumption DEF StateBlock

\* A sequence over a set is one over any larger set.
LEMMA SeqOfMore ==
  ASSUME NEW S, NEW T, S \subseteq T, NEW s \in Seq(S)
  PROVE  s \in Seq(T)
<1>1. \A i \in 1 .. Len(s) : s[i] \in T
  OBVIOUS
<1>2. s \in [1 .. Len(s) -> T] /\ Len(s) \in Nat
  BY <1>1
<1>3. QED
  BY <1>2

\* A transaction has a link just when it has details, and the link is to it.
LEMMA LinkOf ==
  ASSUME NEW raw \in RawTxs, NEW block \in 0 .. Width - 1
  PROVE  /\ Detailed(raw) <=> buildTenderlyURL(raw, block) # None
         /\ Detailed(raw) => buildTenderlyURL(raw, block).hash = raw.rest.id
<1>1. ASSUME Detailed(raw)
      PROVE  [hash |-> raw.rest.id, block |-> block] # None
  <2>1. raw.rest.id \in Ids
    BY <1>1, DetailedId
  <2>2. [hash |-> raw.rest.id, block |-> block]
          \in [hash : Ids, block : 0 .. Width - 1]
    BY <2>1
  <2>3. QED
    BY <2>2, LinkAssumption DEF Ids
<1>2. QED
  BY <1>1 DEF buildTenderlyURL, LinkedTx, Detailed, Decoded

\* An amount that is a number is the value of its digits.
LEMMA AmountReads ==
  ASSUME NEW a \in Amounts, a.text # Garbled
  PROVE  /\ Radix(a.text) \in Radixes /\ a.text.digits \in Seq(Nat)
         /\ a.wei \in Nat /\ a.wei = Value(a.text.digits, Radix(a.text))
<1>1. Radix(a.text) \in Radixes
  BY DEF Radix, Radixes
<1>2. /\ a.text.digits \in Seq(0 .. Radix(a.text) - 1)
      /\ a.wei \in Nat /\ a.wei = Value(a.text.digits, Radix(a.text))
  BY AmountsAssumption
<1>3. 0 .. Radix(a.text) - 1 \subseteq Nat
  BY <1>1 DEF Radixes
<1>4. a.text.digits \in Seq(Nat)
  <2> DEFINE D == 0 .. Radix(a.text) - 1
             ds == a.text.digits
  <2>1. ds \in Seq(D) /\ D \subseteq Nat
    BY <1>2, <1>3
  <2> HIDE DEF D, ds
  <2>2. ds \in Seq(Nat)
    BY <2>1, SeqOfMore
  <2>3. QED
    BY <2>2 DEF ds
<1>5. QED
  BY <1>1, <1>2, <1>4

\* A factor that is positive can be cancelled.
LEMMA Cancel ==
  ASSUME NEW F \in Nat \ {0}, NEW a \in Int, NEW b \in Int, F * a < F * b
  PROVE  a < b
<1> SUFFICES ASSUME a - b \in Nat PROVE FALSE
  OBVIOUS
<1>1. F * (a - b) >= 0
  OBVIOUS
<1>2. F * (a - b) = F * a - F * b
  OBVIOUS
<1>3. QED
  BY <1>1, <1>2

\* Rounding twice does no harm: the quotient is less than a wei off and what lies
\* halfway between two units is a whole number of wei, so no amount is taken
\* across it.
LEMMA TwoRoundings ==
  ASSUME NEW n \in Nat, NEW x \in Quotient(n), NEW k \in Printed(x)
  PROVE  Shows(k, n)
<1> DEFINE step == Fine * UnitWei
<1>1. /\ Fine \in Nat \ {0} /\ UnitWei \in Nat \ {0} /\ UnitWei % 2 = 0
  BY UnitAssumption
<1>2. step \in Nat \ {0} /\ n * Fine \in Nat
  BY <1>1
<1>3. /\ x \in Nat
      /\ n * Fine - x < Fine /\ x - n * Fine < Fine
  <2>1. /\ n * Fine - (Fine - 1) <= x /\ x <= n * Fine + (Fine - 1)
        /\ x \in Int /\ x >= 0
    BY <1>1, <1>2 DEF Quotient
  <2>2. QED
    BY <1>1, <1>2, <2>1
<1>4. /\ k \in {x \div step, x \div step + 1}
      /\ 2 * (x - k * step) <= step /\ 2 * (k * step - x) <= step
  BY DEF Printed
<1> HIDE DEF step
<1>5. k \in Nat
  <2>1. x \div step \in Nat
    BY <1>2, <1>3
  <2>2. QED
    BY <1>4, <2>1
<1>6. k * step \in Nat /\ k * UnitWei \in Nat
  BY <1>1, <1>2, <1>5
<1>7. /\ 2 * (n * Fine - k * step) < step + 2 * Fine
      /\ 2 * (k * step - n * Fine) < step + 2 * Fine
  BY <1>1, <1>2, <1>3, <1>4, <1>6
<1>8. /\ 2 * (n * Fine - k * step) = Fine * (2 * (n - k * UnitWei))
      /\ 2 * (k * step - n * Fine) = Fine * (2 * (k * UnitWei - n))
      /\ step + 2 * Fine = Fine * (UnitWei + 2)
  BY <1>1, <1>5 DEF step
<1>9. /\ 2 * (n - k * UnitWei) < UnitWei + 2
      /\ 2 * (k * UnitWei - n) < UnitWei + 2
  <2>1. /\ 2 * (n - k * UnitWei) \in Int /\ 2 * (k * UnitWei - n) \in Int
        /\ UnitWei + 2 \in Int
    BY <1>1, <1>6
  <2>2. QED
    BY <1>1, <1>7, <1>8, <2>1, Cancel
<1>10. QED
  BY <1>1, <1>5, <1>6, <1>9 DEF Shows

\* What is recorded of an amount is near its digits read as hexadecimal.
LEMMA RecordedAmount ==
  ASSUME AllSimulated, NEW b \in Bundles, simEvent[b] # None, NEW f \in Fields,
         NEW a, a = answer[b].amounts[f], a.text # Garbled
  PROVE  /\ a \in Amounts /\ Value(a.text.digits, 16) \in Nat
         /\ Shows(simEvent[b].eth[f], Value(a.text.digits, 16))
<1> DEFINE n == Value(a.text.digits, 16)
<1>1. a \in Amounts /\ simEvent[b].eth[f] \in weiHexToEth(a.text)
  BY TxsLength, ResultParts DEF AllSimulated, Simulated, Succeeded, Faithful
<1>2. n \in Nat
  BY <1>1, AmountReads, ValueType DEF Radixes
<1>3. Shows(simEvent[b].eth[f], n)
  <2>1. CASE a.text.digits = <<>>
    <3>1. simEvent[b].eth[f] = 0 /\ n = 0
      BY <1>1, <2>1, NoDigits DEF weiHexToEth, Radixes
    <3> HIDE DEF n
    <3>2. QED
      BY <3>1, UnitAssumption DEF Shows
  <2>2. CASE a.text.digits # <<>>
    <3>1. PICK x \in Quotient(n) : simEvent[b].eth[f] \in Printed(x)
      BY <1>1, <2>2 DEF weiHexToEth, Base
    <3> HIDE DEF n
    <3>2. QED
      BY <1>2, <3>1, TwoRoundings
  <2>3. QED
    BY <2>1, <2>2
<1> HIDE DEF n
<1>4. QED
  BY <1>1, <1>2, <1>3 DEF n

\* The variables always have their types; in particular the block a recorded
\* simulation is anchored to fits in uint64, also when the answer does not
\* name it and the bundle has no target.
THEOREM TypeCorrect == Spec => []TypeOK
<1>1. AllSimulated => TypeOK
  <2> SUFFICES ASSUME AllSimulated PROVE TypeOK
    OBVIOUS
  <2>1. ASSUME NEW b \in Bundles, simEvent[b] # None
        PROVE  /\ DOMAIN simEvent[b].eth = Fields
               /\ simEvent[b].stateBlock \in 0 .. Width - 1
    <3>1. Faithful(b) /\ answer[b] \in Results
      BY <2>1 DEF AllSimulated, Simulated, Succeeded
    <3>2. QED
      BY <3>1, BlockFits DEF Faithful
  <2>2. QED
    BY <2>1, BlocksAssumption DEF AllSimulated, PerBundle, Simulated, TypeOK
<1>2. QED
  BY <1>1, AlwaysSimulated, PTL

\* The tracker is told of a bundle's profit, and the log calls it valid, only
\* when every transaction of the bundle succeeded.
THEOREM RecordedCorrect == Spec => []RecordedOnlyIfAllSucceed
<1>1. AllSimulated => RecordedOnlyIfAllSucceed
  <2> SUFFICES ASSUME AllSimulated, NEW b \in Bundles,
                      simEvent[b] # None \/ log[b] \in {"valid", "pays 0"}
               PROVE  /\ answer[b].kind = "result"
                      /\ \A i \in DOMAIN answer[b].failed : ~answer[b].failed[i]
    BY DEF RecordedOnlyIfAllSucceed
  <2>1. Succeeded(b)
    BY DEF AllSimulated, Simulated
  <2>2. QED
    BY <2>1, ResultParts DEF Succeeded, SomeFailed
<1>2. QED
  BY <1>1, AlwaysSimulated, PTL

\* A hexadecimal amount is recorded to the nearest unit of the last place
\* printed, however many digits it has and whichever way the first of its two
\* roundings goes.
THEOREM HexAmountsExact == Spec => []HexAmountsAreExact
<1>1. AllSimulated => HexAmountsAreExact
  <2> SUFFICES ASSUME AllSimulated, NEW b \in Bundles, simEvent[b] # None,
                      NEW f \in Fields, NEW a, a = answer[b].amounts[f],
                      a.text # Garbled, a.text.prefix = "0x"
               PROVE  Shows(simEvent[b].eth[f], a.wei)
    BY DEF HexAmountsAreExact
  <2>1. /\ a \in Amounts
        /\ Shows(simEvent[b].eth[f], Value(a.text.digits, 16))
    BY RecordedAmount
  <2>2. a.wei = Value(a.text.digits, 16)
    BY <2>1, AmountReads DEF Radix
  <2>3. QED
    BY <2>1, <2>2
<1>2. QED
  BY <1>1, AlwaysSimulated, PTL

\* Whatever the notation of an amount, the unit recorded for it is at most half
\* a unit short of it.
NeverUnderstated ==
  \A b \in Bundles : simEvent[b] # None =>
    \A f \in Fields :
      LET a == answer[b].amounts[f]
      IN a.text # Garbled =>
           /\ simEvent[b].eth[f] \in Nat
           /\ 2 * (a.wei - simEvent[b].eth[f] * UnitWei) <= UnitWei

\* The amounts in the tracking file can be too large, those of a decimal answer
\* being read as hexadecimal, but never too small.
THEOREM NotUnderstated == Spec => []NeverUnderstated
<1>1. AllSimulated => NeverUnderstated
  <2> SUFFICES ASSUME AllSimulated, NEW b \in Bundles, simEvent[b] # None,
                      NEW f \in Fields, NEW a, a = answer[b].amounts[f],
                      a.text # Garbled
               PROVE  /\ simEvent[b].eth[f] \in Nat
                      /\ 2 * (a.wei - simEvent[b].eth[f] * UnitWei) <= UnitWei
    BY DEF NeverUnderstated
  <2> DEFINE n == Value(a.text.digits, 16)
             k == simEvent[b].eth[f]
  <2>1. a \in Amounts /\ n \in Nat /\ Shows(k, n)
    BY RecordedAmount
  <2>2. a.wei \in Nat /\ a.wei <= n
    <3>1. a.wei \in Nat /\ a.wei = Value(a.text.digits, Radix(a.text))
      BY <2>1, AmountReads
    <3>2. Value(a.text.digits, 10) <= n
      BY <2>1, AmountReads, HexIsMore
    <3>3. QED
      BY <2>1, <3>1, <3>2 DEF Radix
  <2> HIDE DEF n, k
  <2>3. k \in Nat /\ 2 * (n - k * UnitWei) <= UnitWei
    BY <2>1 DEF Shows
  <2>4. k * UnitWei \in Nat
    BY <2>3, UnitAssumption
  <2>5. 2 * (a.wei - k * UnitWei) <= UnitWei
    BY <2>1, <2>2, <2>3, <2>4, UnitAssumption
  <2>6. QED
    BY <2>3, <2>5 DEF k
<1>2. QED
  BY <1>1, AlwaysSimulated, PTL

\* The log says that a bundle pays nothing only if nothing was paid.
THEOREM PaysZeroCorrect == Spec => []PaysZeroMeansZero
<1>1. AllSimulated => PaysZeroMeansZero
  <2> SUFFICES ASSUME AllSimulated, NEW b \in Bundles, log[b] = "pays 0",
                      NEW a, a = answer[b].amounts["ethSentToCoinbase"]
               PROVE  a.wei = 0
    BY DEF PaysZeroMeansZero
  <2>1. a \in Amounts
    BY TxsLength, ResultParts DEF AllSimulated, Simulated, Succeeded, Fields
  <2>2. \/ a.text = [prefix |-> "", digits |-> <<>>]
        \/ a.text # Garbled /\ a.text.digits = <<0>>
    BY DEF AllSimulated, Simulated, IsZeroPayment
  <2>3. PICK base \in Radixes :
          a.text = Garbled \/ a.wei = Value(a.text.digits, base)
    <3>1. Radix(a.text) \in Radixes
      BY DEF Radix, Radixes
    <3>2. QED
      BY <2>1, <3>1, AmountReads
  <2>4. CASE a.text = [prefix |-> "", digits |-> <<>>]
    <3>1. a.text # Garbled
      BY <2>4, GarbledAssumption
    <3>2. a.text.digits = <<>>
      <4>1. ASSUME NEW t, t = [prefix |-> "", digits |-> <<>>]
            PROVE  t.digits = <<>>
        BY <4>1
      <4>2. QED
        BY <2>4, <4>1
    <3>3. QED
      BY <2>3, <3>1, <3>2, NoDigits
  <2>5. CASE a.text # Garbled /\ a.text.digits = <<0>>
    <3>1. a.wei = Value(<<0>>, base)
      BY <2>3, <2>5
    <3>2. QED
      BY <3>1, OneDigit
  <2>6. QED
    BY <2>2, <2>4, <2>5
<1>2. QED
  BY <1>1, AlwaysSimulated, PTL

\* The transactions whose links the simulator logs are those a relay client
\* records the details of, in the same order, however many a bundle has and
\* whichever of them cannot be decoded.
THEOREM LinksMatch == Spec => []LinksMatchDetails
<1>1. AllSimulated => LinksMatchDetails
  <2> SUFFICES ASSUME AllSimulated, NEW b \in Bundles,
                      log[b] = "pays 0", hashEvent[b] # None
               PROVE  AreLinked(hashEvent[b].transactions, links[b])
    BY DEF LinksMatchDetails
  <2> DEFINE raws == txs[b]
             n == Len(raws)
             listed == hashEvent[b].transactions
             ls == links[b]
             detailed == {i \in 1 .. n : Detailed(raws[i])}
             linked == {i \in DOMAIN ls : ls[i] # None}
  <2>1. raws \in Seq(RawTxs) /\ n \in Nat /\ DOMAIN raws = 1 .. n
    BY TxsLength DEF AllSimulated
  <2>2. StateBlock(b) \in 0 .. Width - 1
    <3>1. answer[b] \in Results
      BY DEF AllSimulated, Simulated, Succeeded
    <3>2. QED
      BY <3>1, BlockFits
  <2>3. listed = decodeTxDetails(raws)
    BY DEF AllSimulated, Simulated
  <2>4. PICK at : CopiedFrom(at, listed, n, raws)
    BY <2>1, <2>3, DetailsAreCopies
  <2>5. ls = [i \in 1 .. n |-> buildTenderlyURL(raws[i], StateBlock(b))]
    BY <2>1 DEF AllSimulated, Simulated
  <2>6. \A i \in 1 .. n : raws[i] \in RawTxs
    BY TxsLength DEF AllSimulated
  <2>7. /\ \A i \in 1 .. n : Detailed(raws[i]) <=> ls[i] # None
        /\ \A i \in 1 .. n : Detailed(raws[i]) => ls[i].hash = raws[i].rest.id
    <3> HIDE DEF raws, ls
    <3>1. QED
      BY <2>2, <2>5, <2>6, LinkOf
  <2>8. linked = detailed
    BY <2>5, <2>7
  <2> HIDE DEF raws, n, listed, ls
  <2>9. /\ at \in [DOMAIN listed -> linked]
        /\ \A i, j \in DOMAIN listed : i < j => at[i] < at[j]
        /\ \A l \in linked : \E i \in DOMAIN listed : at[i] = l
        /\ \A i \in DOMAIN listed : raws[at[i]].rest.id = listed[i]
    BY <2>4, <2>8 DEF CopiedFrom
  <2>10. \A i \in DOMAIN listed : ls[at[i]].hash = listed[i]
    BY <2>7, <2>8, <2>9
  <2>11. AreLinked(listed, ls)
    BY <2>9, <2>10 DEF AreLinked
  <2>12. QED
    BY <2>11 DEF listed, ls
<1>2. QED
  BY <1>1, AlwaysSimulated, PTL
=============================================================================
