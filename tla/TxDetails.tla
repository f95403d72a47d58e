----------------------------- MODULE TxDetails -----------------------------
(***************************************************************************)
(* What the service reads out of the raw transactions of a bundle and out  *)
(* of a relay's answer, for the tracking file and for the log: the helper  *)
(* functions at the end of relay_client.go and buildTenderlyURL of         *)
(* simulator.go.                                                           *)
(*                                                                         *)
(* A raw transaction is a string: an optional prefix and a rest that is    *)
(* the encoding of a transaction, or is not (Junk).  Of a transaction the  *)
(* code asks whether its sender can be recovered; the fields it copies     *)
(* are those of the transaction with the hash `id`.                        *)
(***************************************************************************)
EXTENDS Naturals, Sequences, SequencesExt

CONSTANTS
  Transactions,  \* the transactions: [id, signed]
  Junk,          \* a rest that is not hexadecimal or not a transaction
  None           \* ""

ASSUME JunkAssumption == Junk \notin Transactions
ASSUME TransactionsAssumption == \A t \in Transactions : t.signed \in BOOLEAN

RawPrefixes == {"", "0x", "0X"}

RawTxs == [prefix : RawPrefixes, rest : Transactions \union {Junk}]

\* What remains of a raw transaction when these prefixes are trimmed.  A
\* prefix that is left over makes hex.DecodeString fail.
Decoded(raw, trimmed) ==
  IF raw.prefix \in trimmed \union {""} THEN raw.rest ELSE Junk

\* The hash of the last transaction, None when it cannot be decoded.
computeLastTxHash(rawTxs) ==
  IF rawTxs = <<>> THEN None
  ELSE LET tx == Decoded(Last(rawTxs), {"0x"})
       IN IF tx = Junk THEN None ELSE tx.id

\* A transaction that decodeTxDetails reads: it decodes, and its sender can be
\* recovered.
Detailed(raw) ==
  LET tx == Decoded(raw, {"0x", "0X"}) IN tx # Junk /\ tx.signed

\* The transactions that can be decoded, in their order; others are skipped.
\* `details` is indexed by how many times its loop has run.
decodeTxDetails(rawTxs) ==
  LET details[i \in 0 .. Len(rawTxs)] ==
        IF i = 0 THEN <<>>
        ELSE IF Detailed(rawTxs[i])
             THEN Append(details[i - 1], rawTxs[i].rest.id)
             ELSE details[i - 1]
  IN details[Len(rawTxs)]

\* (mutant of LinkedTx: only the prefix 0x is trimmed)
LinkedTxTrim0x(raw) == Decoded(raw, {"0x"})

\* buildTenderlyURL decodes for itself, as decodeTxDetails does.
LinkedTx(raw) == Decoded(raw, {"0x", "0X"})

\* The link to a transaction, anchored to a block; None when it does not decode
\* or has no sender.
buildTenderlyURL(raw, block) ==
  LET tx == LinkedTx(raw)
  IN IF tx # Junk /\ tx.signed THEN [hash |-> tx.id, block |-> block] ELSE None

\* A relay's answer to eth_sendBundle, as far as parseBundleHash looks into
\* it.  `hash` is None when empty.
Answers(Hashes) ==
  [form : {"object", "string", "other", "invalid"},
   hash : Hashes \union {None}, prefixed : BOOLEAN]

\* The object form gives its bundleHash as it is, the string form only with
\* the prefix 0x.
parseBundleHash(body) ==
  CASE body.form = "object" -> body.hash
    [] body.form = "string" /\ body.prefixed -> body.hash
    [] OTHER -> None
=============================================================================
