--------------------------- MODULE ChannelProofs ---------------------------
(***************************************************************************)
(* Facts about the buffer of a Go channel, a sequence: what a send, which  *)
(* appends, and a receive, which takes the head, change.  The models have  *)
(* two kinds of channel, s.queue and the two of the tracker.               *)
(***************************************************************************)
EXTENDS Naturals, Sequences, TLAPS

\* Where an element is in the buffer does not matter, and that it is there
\* once does.
Occurs(b, s) == \E i \in 1 .. Len(s) : s[i] = b

Distinct(s) == \A i, j \in 1 .. Len(s) : s[i] = s[j] => i = j

\* A send into a buffer with room keeps to its capacity.
LEMMA SendFits ==
  ASSUME NEW S, NEW s \in Seq(S), NEW x \in S, NEW cap \in Nat, Len(s) < cap
  PROVE  Append(s, x) \in Seq(S) /\ Len(Append(s, x)) <= cap
OBVIOUS

\* A send adds its element behind the others.
LEMMA SendAdds ==
  ASSUME NEW S, NEW s \in Seq(S), NEW x \in S
  PROVE  \A b : Occurs(b, Append(s, x)) <=> Occurs(b, s) \/ b = x
<1> DEFINE t == Append(s, x)
<1>1. /\ t \in Seq(S) /\ Len(t) = Len(s) + 1
      /\ t[Len(s) + 1] = x
      /\ \A i \in 1 .. Len(s) : t[i] = s[i]
  OBVIOUS
<1>2. Len(s) \in Nat
  OBVIOUS
<1> HIDE DEF t
<1>3. ASSUME NEW b, Occurs(b, t) PROVE Occurs(b, s) \/ b = x
  BY <1>1, <1>2, <1>3 DEF Occurs
<1>4. ASSUME NEW b, Occurs(b, s) PROVE Occurs(b, t)
  BY <1>1, <1>2, <1>4 DEF Occurs
<1>5. Occurs(x, t)
  BY <1>1, <1>2 DEF Occurs
<1>6. QED
  BY <1>3, <1>4, <1>5 DEF t

\* A send of a new element keeps the elements distinct.
LEMMA SendKeepsDistinct ==
  ASSUME NEW S, NEW s \in Seq(S), NEW x \in S, Distinct(s), ~Occurs(x, s)
  PROVE  Distinct(Append(s, x))
<1> DEFINE t == Append(s, x)
<1>1. /\ Len(t) = Len(s) + 1
      /\ t[Len(s) + 1] = x
      /\ \A i \in 1 .. Len(s) : t[i] = s[i]
  OBVIOUS
<1>2. Len(s) \in Nat
  OBVIOUS
<1> HIDE DEF t
<1>3. SUFFICES ASSUME NEW i \in 1 .. Len(t), NEW j \in 1 .. Len(t),
                      t[i] = t[j]
               PROVE  i = j
  BY DEF Distinct, t
<1>4. QED
  BY <1>1, <1>2, <1>3 DEF Distinct, Occurs

\* A receive from a buffer of distinct elements removes its head, nothing else.
LEMMA ReceiveRemovesHead ==
  ASSUME NEW S, NEW s \in Seq(S), s # <<>>, Distinct(s)
  PROVE  /\ Distinct(Tail(s))
         /\ Occurs(Head(s), s)
         /\ \A b : Occurs(b, Tail(s)) <=> Occurs(b, s) /\ b # Head(s)
<1> DEFINE t == Tail(s)
<1>1. /\ Len(s) \in Nat \ {0} /\ Len(t) = Len(s) - 1
      /\ Head(s) = s[1]
      /\ \A i \in 1 .. Len(t) : t[i] = s[i + 1]
  OBVIOUS
<1> HIDE DEF t
<1>2. Distinct(t)
  <2> SUFFICES ASSUME NEW i \in 1 .. Len(t), NEW j \in 1 .. Len(t),
                      t[i] = t[j]
               PROVE  i = j
    BY DEF Distinct
  <2>1. i + 1 \in 1 .. Len(s) /\ j + 1 \in 1 .. Len(s)
    BY <1>1
  <2>2. s[i + 1] = s[j + 1]
    BY <1>1
  <2>3. QED
    BY <2>1, <2>2 DEF Distinct
<1>3. Occurs(Head(s), s)
  BY <1>1 DEF Occurs
<1>4. ASSUME NEW b, Occurs(b, t) PROVE Occurs(b, s) /\ b # Head(s)
  <2>1. PICK i \in 1 .. Len(t) : t[i] = b
    BY <1>4 DEF Occurs
  <2>2. i + 1 \in 1 .. Len(s) /\ s[i + 1] = b /\ i + 1 # 1
    BY <1>1, <2>1
  <2>3. 1 \in 1 .. Len(s)
    BY <1>1
  <2>4. QED
    BY <1>1, <2>2, <2>3 DEF Distinct, Occurs
<1>5. ASSUME NEW b, Occurs(b, s), b # Head(s) PROVE Occurs(b, t)
  <2>1. PICK i \in 1 .. Len(s) : s[i] = b
    BY <1>5 DEF Occurs
  <2>2. i # 1
    BY <1>1, <1>5, <2>1
  <2>3. i - 1 \in 1 .. Len(t) /\ t[i - 1] = b
    BY <1>1, <2>1, <2>2
  <2>4. QED
    BY <2>3 DEF Occurs
<1>6. QED
  BY <1>2, <1>3, <1>4, <1>5 DEF t
=============================================================================
