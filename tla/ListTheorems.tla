---------------------------- MODULE ListTheorems ----------------------------
(***************************************************************************)
(* What the proofs of several components use of lists: induction over the  *)
(* rounds of a loop, for the functions that are defined by recursion on    *)
(* them (Dispatcher::remove, list::remove), and what appending to a        *)
(* sequence of numbers and taking its head do to the set of its elements.  *)
(***************************************************************************)
EXTENDS Integers, Sequences, Functions, WellFoundedInduction, TLAPS

\* A claim about the rounds 0 to N holds for all of them if it holds at first
\* and no round is the first one at which it fails.
LEMMA FirstFailure ==
    ASSUME NEW N \in Nat, NEW G, 0 \in G, \A n \in 1 .. N : n - 1 \in G => n \in G
    PROVE  \A n \in 0 .. N : n \in G
<1> SUFFICES ASSUME ~(0 .. N \subseteq G) PROVE FALSE
  OBVIOUS
<1> DEFINE T == {n \in 0 .. N : n \notin G}
<1>1. T \subseteq Nat /\ T # {}
  OBVIOUS
<1>2. PICK R : R = OpToRel(<, Nat)
  OBVIOUS
<1>3. \A x, y \in Nat : <<x, y>> \in R <=> x < y
  BY <1>2 DEF OpToRel
<1>4. IsWellFoundedOn(R, Nat)
  BY <1>2, NatLessThanWellFounded
<1>5. PICK n \in T : \A k \in T : ~(<<k, n>> \in R)
  BY <1>1, <1>4, WFMin
<1>6. n \in 1 .. N /\ n - 1 \in 0 .. N /\ n - 1 < n
  BY <1>5
<1>7. n - 1 \in G
  <2>1. CASE n - 1 \in T
    <3>1. n - 1 \in Nat /\ n \in Nat
      BY <1>6
    <3>2. <<n - 1, n>> \in R
      BY <1>3, <1>6, <3>1
    <3> QED BY <1>5, <2>1, <3>2
  <2>2. CASE n - 1 \notin T
    BY <1>6, <2>2
  <2> QED BY <2>1, <2>2
<1> QED BY <1>5, <1>6, <1>7

\* A sequence has its elements at the positions 1 to Len.
LEMMA InRange ==
    ASSUME NEW s \in Seq(Nat)
    PROVE  /\ DOMAIN s = 1 .. Len(s)
           /\ \A n \in 1 .. Len(s) : s[n] \in Range(s) /\ s[n] \in Nat
           /\ \A x \in Range(s) : x \in Nat /\ \E n \in 1 .. Len(s) : x = s[n]
           /\ Len(s) = 0 <=> Range(s) = {}
           /\ Len(s) \in Nat
<1>1. DOMAIN s = 1 .. Len(s) /\ Len(s) \in Nat
  OBVIOUS
<1>2. \A n \in 1 .. Len(s) : s[n] \in Range(s) /\ s[n] \in Nat
  BY <1>1 DEF Range
<1>3. \A x \in Range(s) : x \in Nat /\ \E n \in 1 .. Len(s) : x = s[n]
  BY <1>1 DEF Range
<1>4. Len(s) = 0 => Range(s) = {}
  BY <1>1, <1>3
<1>5. Len(s) # 0 => 1 \in 1 .. Len(s)
  BY <1>1
<1> QED BY <1>1, <1>2, <1>3, <1>4, <1>5

\* A sequence whose elements are all in S is a sequence over S.
LEMMA Over ==
    ASSUME NEW s \in Seq(Nat), NEW S, Range(s) \subseteq S
    PROVE  s \in Seq(S)
<1>1. DOMAIN s = 1 .. Len(s) /\ Len(s) \in Nat /\ \A n \in 1 .. Len(s) : s[n] \in S
  BY InRange
<1>2. s = [n \in 1 .. Len(s) |-> s[n]]
  BY <1>1
<1> QED BY <1>1, <1>2

\* What Append does.
LEMMA Appended ==
    ASSUME NEW s \in Seq(Nat), NEW e \in Nat
    PROVE  /\ Append(s, e) \in Seq(Nat) /\ Len(Append(s, e)) = Len(s) + 1
           /\ \A n \in 1 .. Len(s) + 1 : Append(s, e)[n] = IF n = Len(s) + 1 THEN e ELSE s[n]
           /\ Range(Append(s, e)) = Range(s) \cup {e}
<1> DEFINE a == Append(s, e)
           N == Len(s)
<1>1. N \in Nat /\ a \in Seq(Nat) /\ Len(a) = N + 1
  OBVIOUS
<1>2. \A n \in 1 .. N + 1 : a[n] = IF n = N + 1 THEN e ELSE s[n]
  OBVIOUS
<1> HIDE DEF a
<1>3. ASSUME NEW x \in Range(a) PROVE x \in Range(s) \cup {e}
  <2>1. PICK n \in 1 .. N + 1 : x = a[n]
    BY <1>1, InRange
  <2>2. n = N + 1 \/ n \in 1 .. N
    BY <1>1
  <2> QED BY <1>2, <2>1, <2>2, InRange
<1>4. ASSUME NEW x \in Range(s) PROVE x \in Range(a)
  <2>1. PICK n \in 1 .. N : x = s[n]
    BY InRange
  <2>2. n \in 1 .. N + 1 /\ n # N + 1
    BY <1>1
  <2> QED BY <1>1, <1>2, <2>1, <2>2, InRange
<1>5. e \in Range(a)
  <2>1. N + 1 \in 1 .. N + 1
    BY <1>1
  <2> QED BY <1>1, <1>2, <2>1, InRange
<1>6. Range(a) = Range(s) \cup {e}
  BY <1>3, <1>4, <1>5
<1> QED BY <1>1, <1>2, <1>6 DEF a

\* What Head and Tail do.
LEMMA HeadAndTail ==
    ASSUME NEW s \in Seq(Nat), Len(s) # 0
    PROVE  /\ Tail(s) \in Seq(Nat) /\ Len(Tail(s)) = Len(s) - 1
           /\ \A n \in 1 .. Len(s) - 1 : Tail(s)[n] = s[n + 1]
           /\ Head(s) = s[1] /\ Head(s) \in Range(s)
           /\ Range(s) = Range(Tail(s)) \cup {Head(s)}
<1> DEFINE a == Tail(s)
           N == Len(s)
           e == Head(s)
<1>1. N \in Nat /\ N >= 1 /\ a \in Seq(Nat) /\ Len(a) = N - 1 /\ 1 \in 1 .. N
  OBVIOUS
<1>2. e = s[1]
  BY <1>1
<1>3. \A n \in 1 .. N - 1 : a[n] = s[n + 1]
  BY <1>1
<1> HIDE DEF a, e
<1>4. e \in Range(s)
  BY <1>1, <1>2, InRange
<1>5. ASSUME NEW x \in Range(a) PROVE x \in Range(s)
  <2>1. PICK n \in 1 .. N - 1 : x = a[n]
    BY <1>1, InRange
  <2>2. n + 1 \in 1 .. N /\ x = s[n + 1]
    BY <1>1, <1>3, <2>1
  <2> QED BY <2>2, InRange
<1>6. ASSUME NEW x \in Range(s), x # e PROVE x \in Range(a)
  <2>1. PICK n \in 1 .. N : x = s[n]
    BY InRange
  <2>2. n - 1 \in 1 .. N - 1 /\ (n - 1) + 1 = n
    BY <1>1, <1>2, <1>6, <2>1
  <2>3. a[n - 1] = x
    BY <1>3, <2>1, <2>2
  <2> QED BY <1>1, <2>2, <2>3, InRange
<1>7. Range(s) = Range(a) \cup {e}
  BY <1>4, <1>5, <1>6
<1> QED BY <1>1, <1>2, <1>3, <1>4, <1>7 DEF a, e
=============================================================================
