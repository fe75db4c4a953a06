---------------------------- MODULE SignatureLemmas ----------------------------
(***************************************************************************)
(* Facts about lists of signatures: both multi-sig mechanisms (the token's *)
(* admin rotation and the campaign contract's upgrade) keep a Vec of       *)
(* addresses, refuse a repeated one, and compare its length with the       *)
(* threshold.                                                              *)
(***************************************************************************)
EXTENDS Integers, Sequences, FiniteSets, Functions, FiniteSetTheorems, TLAPS

\* A list of one signature.
LEMMA OneSigner ==
  ASSUME NEW s
  PROVE  IsInjective(<<s>>) /\ Range(<<s>>) = {s}
  BY DEF IsInjective, Range

\* A new, different signer extends a duplicate-free signature list to one.
LEMMA AppendSigner ==
  ASSUME NEW A, NEW sigs \in Seq(A), NEW s \in A, IsInjective(sigs),
         s \notin Range(sigs)
  PROVE  /\ IsInjective(Append(sigs, s))
         /\ Range(Append(sigs, s)) = Range(sigs) \cup {s}
<1>1. DOMAIN sigs = 1..Len(sigs) /\ Len(sigs) \in Nat
  OBVIOUS
<1>2. DOMAIN Append(sigs, s) = 1..(Len(sigs) + 1)
  OBVIOUS
<1>3. /\ \A i \in 1..Len(sigs) : Append(sigs, s)[i] = sigs[i]
      /\ Append(sigs, s)[Len(sigs) + 1] = s
  OBVIOUS
<1>4. \A i \in 1..(Len(sigs) + 1) : i \in 1..Len(sigs) \/ i = Len(sigs) + 1
  BY <1>1
<1>5. IsInjective(Append(sigs, s))
  BY <1>1, <1>2, <1>3, <1>4 DEF IsInjective, Range
<1>6. Range(Append(sigs, s)) \subseteq Range(sigs) \cup {s}
  BY <1>1, <1>2, <1>3, <1>4 DEF Range
<1>7. Range(sigs) \cup {s} \subseteq Range(Append(sigs, s))
  BY <1>1, <1>2, <1>3 DEF Range
<1> QED
  BY <1>5, <1>6, <1>7

\* The set of signers behind a duplicate-free list has as many members as the
\* list has entries, so counting entries counts signers.
LEMMA SignersOfInjectiveList ==
  ASSUME NEW A, NEW sigs \in Seq(A), IsInjective(sigs)
  PROVE  IsFiniteSet(Range(sigs)) /\ Cardinality(Range(sigs)) = Len(sigs)
<1>1. IsFiniteSet(1..Len(sigs)) /\ Cardinality(1..Len(sigs)) = Len(sigs)
  BY FS_Interval, Len(sigs) \in Nat
<1>2. sigs \in [1..Len(sigs) -> Range(sigs)] /\ DOMAIN sigs = 1..Len(sigs)
  BY DEF Range
<1>3. sigs \in Injection(1..Len(sigs), Range(sigs))
  BY <1>2 DEF IsInjective, Injection
<1>4. sigs \in Surjection(1..Len(sigs), Range(sigs))
  BY <1>2 DEF Surjection, Range
<1> QED
  BY <1>1, <1>3, <1>4, FS_Surjection
=============================================================================
