--------------------------- MODULE SequenceLemmas ---------------------------
(* Facts about the lists of calls that the passes of both reconcilers work off. *)
EXTENDS Naturals, Sequences, SequenceTheorems, TLAPS

\* A concatenation ends as its second part does.
LEMMA ConcatEnds ==
  ASSUME NEW S, NEW s \in Seq(S), NEW t \in Seq(S), t # <<>>
  PROVE  s \o t \in Seq(S) /\ s \o t # <<>> /\ (s \o t)[Len(s \o t)] = t[Len(t)]
<1>1. Len(s) \in Nat /\ Len(t) \in Nat /\ Len(t) # 0
  BY EmptySeq, LenProperties
<1>2. s \o t \in Seq(S) /\ Len(s \o t) = Len(s) + Len(t)
  BY ConcatProperties
<1>3. (s \o t)[Len(s) + Len(t)] = t[Len(t)]
  BY <1>1, ConcatProperties
<1>4. Len(s \o t) # 0
  BY <1>1, <1>2
<1>5. s \o t # <<>>
  BY <1>2, <1>4, EmptySeq
<1> QED BY <1>2, <1>3, <1>5

\* What is left after a call that is not the last ends as before.
LEMMA TailEnds ==
  ASSUME NEW S, NEW s \in Seq(S), s # <<>>, Head(s) # s[Len(s)]
  PROVE  Tail(s) \in Seq(S) /\ Tail(s) # <<>> /\ Tail(s)[Len(Tail(s))] = s[Len(s)]
<1>1. Len(s) \in Nat /\ Len(s) # 0 /\ Head(s) = s[1]
  BY EmptySeq, LenProperties, HeadTailProperties
<1>2. Tail(s) \in Seq(S) /\ Len(Tail(s)) = Len(s) - 1
  BY HeadTailProperties
<1>3. Len(s) > 1
  BY <1>1
<1>4. Tail(s)[Len(s) - 1] = s[Len(s)]
  BY <1>1, <1>3, HeadTailProperties
<1>5. Len(Tail(s)) # 0
  BY <1>1, <1>2, <1>3
<1>6. Tail(s) # <<>>
  BY <1>2, <1>5, EmptySeq
<1>7. Tail(s)[Len(Tail(s))] = s[Len(s)]
  BY <1>2, <1>4
<1> QED BY <1>2, <1>6, <1>7

\* Taking the first call off a list loses no other.
LEMMA HeadAndTail ==
  ASSUME NEW S, NEW s \in Seq(S), s # <<>>
  PROVE  /\ Head(s) \in S /\ Tail(s) \in Seq(S)
         /\ \A n \in 1..Len(s) : s[n] = Head(s) \/ \E m \in 1..Len(Tail(s)) : s[n] = Tail(s)[m]
         /\ \A m \in 1..Len(Tail(s)) : \E n \in 1..Len(s) : Tail(s)[m] = s[n]
<1>1. Len(s) \in Nat /\ Len(s) # 0 /\ Head(s) = s[1]
  BY EmptySeq, LenProperties, HeadTailProperties
<1>2. /\ Tail(s) \in Seq(S) /\ Len(Tail(s)) = Len(s) - 1
      /\ \A m \in 1..Len(Tail(s)) : Tail(s)[m] = s[m + 1]
  BY HeadTailProperties
<1>3. Head(s) \in S
  BY <1>1, ElementOfSeq
<1>4. ASSUME NEW n \in 1..Len(s), n # 1
      PROVE  \E m \in 1..Len(Tail(s)) : s[n] = Tail(s)[m]
  <2>1. n - 1 \in 1..Len(Tail(s)) /\ Tail(s)[n - 1] = s[n]
    BY <1>1, <1>2, <1>4
  <2> QED BY <2>1
<1>5. ASSUME NEW m \in 1..Len(Tail(s))
      PROVE  \E n \in 1..Len(s) : Tail(s)[m] = s[n]
  <2>1. m + 1 \in 1..Len(s)
    BY <1>1, <1>2
  <2> QED BY <1>2, <2>1
<1> QED BY <1>1, <1>2, <1>3, <1>4, <1>5

\* u is s and then t; what a list holds.  Named, so that lemmas can be
\* instantiated for them.
Joins(u, s, t) == u = s \o t
Members(s) == {s[n] : n \in 1..Len(s)}

\* The calls of two lists, one after the other.
LEMMA ConcatMembers ==
  ASSUME NEW S, NEW s \in Seq(S), NEW t \in Seq(S), NEW u, Joins(u, s, t)
  PROVE  u \in Seq(S) /\ Members(u) = Members(s) \cup Members(t)
<1>1. /\ Len(s) \in Nat /\ Len(t) \in Nat
      /\ u \in Seq(S) /\ Len(u) = Len(s) + Len(t)
      /\ \A n \in 1..Len(s) : u[n] = s[n]
      /\ \A n \in Len(s) + 1..Len(s) + Len(t) : u[n] = t[n - Len(s)]
  BY LenProperties, ConcatProperties DEF Joins
<1>2. ASSUME NEW n \in 1..Len(u)
      PROVE  u[n] \in Members(s) \cup Members(t)
  <2>1. n <= Len(s) \/ (n \in Len(s) + 1..Len(s) + Len(t) /\ n - Len(s) \in 1..Len(t))
    BY <1>1, <1>2
  <2> QED BY <1>1, <2>1 DEF Members
<1>3. ASSUME NEW m \in 1..Len(s)
      PROVE  s[m] \in Members(u)
  BY <1>1 DEF Members
<1>4. ASSUME NEW m \in 1..Len(t)
      PROVE  t[m] \in Members(u)
  <2>1. /\ Len(s) + m \in 1..Len(u)
        /\ Len(s) + m \in Len(s) + 1..Len(s) + Len(t) /\ (Len(s) + m) - Len(s) = m
    BY <1>1, <1>4
  <2>2. u[Len(s) + m] = t[m]
    BY <1>1, <2>1
  <2> QED BY <2>1, <2>2 DEF Members
<1>5. /\ \A v \in Members(u) : v \in Members(s) \cup Members(t)
      /\ \A v \in Members(s) : v \in Members(u)
      /\ \A v \in Members(t) : v \in Members(u)
  BY <1>2, <1>3, <1>4 DEF Members
<1> QED BY <1>1, <1>5
=============================================================================
