---------------------------- MODULE MCSimulator ----------------------------
(* One bundle of up to two transactions; the amounts of an answer lie around
   the rounding boundary and are written in both ways. *)
EXTENDS Simulator, FiniteSets

First  == [id |-> "t1", signed |-> TRUE]
Second == [id |-> "t2", signed |-> TRUE]
Forged  == [id |-> "t3", signed |-> FALSE]

AllTransactions == {First, Second, Forged}

FewCandidates ==
  {[prefix |-> "0x", rest |-> First], [prefix |-> "0X", rest |-> First],
   [prefix |-> "", rest |-> Second], [prefix |-> "0x", rest |-> Forged],
   [prefix |-> "0x", rest |-> Junk]}

\* The digits of wei < base ^ 2.
Digits(wei, base) ==
  IF wei < base THEN <<wei>> ELSE <<wei \div base, wei % base>>

Hex(wei) == [wei |-> wei, text |-> [prefix |-> "0x", digits |-> Digits(wei, 16)]]
Dec(wei) == [wei |-> wei, text |-> [prefix |-> "", digits |-> Digits(wei, 10)]]

Missing == [wei |-> 0, text |-> [prefix |-> "", digits |-> <<>>]]
Bare0x  == [wei |-> 0, text |-> [prefix |-> "0x", digits |-> <<>>]]
NoText  == [wei |-> 0, text |-> Garbled]

FewAmounts ==
  {Hex(0), Hex(2), Hex(22), Dec(0), Dec(22), Missing, Bare0x, NoText}
=============================================================================
