--------------------------- MODULE Transcript_proofs ---------------------------
(***************************************************************************)
(* What the functions on a message log keep: nothing a user or a command    *)
(* said is left out of a safe prefix, a repaired log has no open call, and  *)
(* a compaction drops nothing it does not hand to the archive.              *)
(***************************************************************************)
EXTENDS Transcript, SequenceTheorems, FiniteSetTheorems, WellFoundedInduction, TLAPS

------------------------------------------------------------------------------
(* Choice of a smallest and of a greatest number *)

LEMMA LeastExists ==
  ASSUME NEW T \in SUBSET Nat, T # {}
  PROVE  \E n \in T : \A m \in T : n <= m
<1> DEFINE R == {ss \in Nat \X Nat : ss[1] < ss[2]}
<1>1. IsWellFoundedOn(R, Nat)
  BY NatLessThanWellFounded DEF OpToRel
<1>2. \E x \in T : \A y \in T : ~ (<<y, x>> \in R)
  <2> HIDE DEF R
  <2>1. QED
    BY <1>1, WFMin
<1>3. PICK x \in T : \A y \in T : ~ (<<y, x>> \in R)
  BY <1>2
<1>4. ASSUME NEW y \in T
      PROVE  x <= y
  <2>1. x \in Nat /\ y \in Nat /\ ~ (<<y, x>> \in R)
    BY <1>3
  <2>2. ~(y < x)
    BY <2>1
  <2>3. QED
    BY <2>1, <2>2
<1>5. QED
  BY <1>4

LEMMA GreatestExists ==
  ASSUME NEW N \in Nat, NEW T \in SUBSET (0..N), T # {}
  PROVE  \E n \in T : \A m \in T : m <= n
<1> DEFINE U == {N - m : m \in T}
<1>1. U \in SUBSET Nat /\ U # {}
  <2>1. \A m \in T : N - m \in Nat
    OBVIOUS
  <2>2. QED
    BY <2>1
<1>2. PICK k \in U : \A m \in U : k <= m
  BY <1>1, LeastExists
<1>3. PICK n \in T : k = N - n
  OBVIOUS
<1>4. \A m \in T : m <= n
  BY <1>2, <1>3
<1>5. QED
  BY <1>4

LEMMA InSeq ==
  ASSUME NEW S, NEW s \in Seq(S)
  PROVE  /\ Len(s) \in Nat
         /\ DOMAIN s = 1..Len(s)
         /\ \A i \in 1..Len(s) : s[i] \in S
         /\ ToSet(s) = {s[i] : i \in 1..Len(s)}
         /\ ToSet(s) \subseteq S
  BY DEF ToSet

LEMMA ToSetConcat ==
  ASSUME NEW S, NEW s \in Seq(S), NEW t \in Seq(S)
  PROVE  s \o t \in Seq(S) /\ ToSet(s \o t) = ToSet(s) \cup ToSet(t)
<1>1. /\ s \o t \in Seq(S)
      /\ Len(s \o t) = Len(s) + Len(t)
      /\ \A i \in 1 .. Len(s) + Len(t) :
           (s \o t)[i] = IF i <= Len(s) THEN s[i] ELSE t[i - Len(s)]
  BY ConcatProperties
<1>2. Len(s) \in Nat /\ Len(t) \in Nat
  BY InSeq
<1>3. /\ ToSet(s) = {s[i] : i \in 1..Len(s)}
      /\ ToSet(t) = {t[i] : i \in 1..Len(t)}
      /\ ToSet(s \o t) = {(s \o t)[i] : i \in 1 .. Len(s) + Len(t)}
  BY <1>1, InSeq
<1>4. ToSet(s \o t) \subseteq ToSet(s) \cup ToSet(t)
  <2>1. SUFFICES ASSUME NEW i \in 1 .. Len(s) + Len(t)
                 PROVE  (s \o t)[i] \in ToSet(s) \cup ToSet(t)
    BY <1>3
  <2>2. CASE i <= Len(s)
    <3>1. i \in 1..Len(s)
      BY <1>2, <2>2
    <3>2. QED
      BY <1>1, <1>3, <2>2, <3>1
  <2>3. CASE ~(i <= Len(s))
    <3>1. i - Len(s) \in 1..Len(t)
      BY <1>2, <2>3
    <3>2. QED
      BY <1>1, <1>3, <2>3, <3>1
  <2>4. QED
    BY <2>2, <2>3
<1>5. ToSet(s) \subseteq ToSet(s \o t)
  <2>1. SUFFICES ASSUME NEW i \in 1..Len(s)
                 PROVE  s[i] \in ToSet(s \o t)
    BY <1>3
  <2>2. i \in 1 .. Len(s) + Len(t) /\ i <= Len(s)
    BY <1>2
  <2>3. QED
    BY <1>1, <1>3, <2>2
<1>6. ToSet(t) \subseteq ToSet(s \o t)
  <2>1. SUFFICES ASSUME NEW i \in 1..Len(t)
                 PROVE  t[i] \in ToSet(s \o t)
    BY <1>3
  <2>2. /\ i + Len(s) \in 1 .. Len(s) + Len(t)
        /\ ~(i + Len(s) <= Len(s))
        /\ (i + Len(s)) - Len(s) = i
    BY <1>2
  <2>3. QED
    BY <1>1, <1>3, <2>2
<1>7. QED
  BY <1>1, <1>4, <1>5, <1>6

LEMMA ToSetAppend ==
  ASSUME NEW S, NEW s \in Seq(S), NEW e \in S
  PROVE  Append(s, e) \in Seq(S) /\ ToSet(Append(s, e)) = ToSet(s) \cup {e}
<1>1. <<e>> \in Seq(S) /\ ToSet(<<e>>) = {e}
  BY DEF ToSet
<1>2. Append(s, e) = s \o <<e>>
  BY AppendIsConcat
<1>3. s \o <<e>> \in Seq(S) /\ ToSet(s \o <<e>>) = ToSet(s) \cup ToSet(<<e>>)
  BY <1>1, ToSetConcat, ZenonT(60)
<1>4. QED
  BY <1>1, <1>2, <1>3

LEMMA ToSetSubSeq ==
  ASSUME NEW S, NEW s \in Seq(S), NEW m \in Nat, NEW n \in Nat, m >= 1, n <= Len(s)
  PROVE  /\ SubSeq(s, m, n) \in Seq(S)
         /\ \A i \in m..n : s[i] \in ToSet(SubSeq(s, m, n))
         /\ ToSet(SubSeq(s, m, n)) \subseteq ToSet(s)
<1>1. Len(s) \in Nat /\ \A i \in 1..Len(s) : s[i] \in S
  BY InSeq
<1>2. /\ SubSeq(s, m, n) \in Seq(S)
      /\ Len(SubSeq(s, m, n)) = IF m <= n THEN n - m + 1 ELSE 0
      /\ \A i \in 1 .. n - m + 1 : SubSeq(s, m, n)[i] = s[m + i - 1]
  <2>1. \A i \in m..n : s[i] \in S
    BY <1>1
  <2>2. QED
    BY <2>1, SubSeqProperties
<1>3. /\ ToSet(s) = {s[i] : i \in 1..Len(s)}
      /\ ToSet(SubSeq(s, m, n)) = {SubSeq(s, m, n)[i] : i \in 1..Len(SubSeq(s, m, n))}
  BY <1>2, InSeq
<1>4. ASSUME NEW i \in m..n
      PROVE  s[i] \in ToSet(SubSeq(s, m, n))
  <2>1. i - m + 1 \in 1 .. n - m + 1 /\ m + (i - m + 1) - 1 = i /\ m <= n
    BY <1>1
  <2>2. SubSeq(s, m, n)[i - m + 1] = s[i]
    BY <1>2, <2>1
  <2>3. i - m + 1 \in 1..Len(SubSeq(s, m, n))
    BY <1>2, <2>1
  <2>4. QED
    BY <1>3, <2>2, <2>3
<1>5. ASSUME NEW i \in 1..Len(SubSeq(s, m, n))
      PROVE  SubSeq(s, m, n)[i] \in ToSet(s)
  <2>1. i \in 1 .. n - m + 1 /\ m + i - 1 \in 1..Len(s)
    BY <1>1, <1>2
  <2>2. QED
    BY <1>2, <1>3, <2>1
<1>6. QED
  BY <1>2, <1>3, <1>4, <1>5

------------------------------------------------------------------------------
(* Safe prefixes *)

LEMMA LastInputIs ==
  ASSUME NEW S, NEW msgs \in Seq(S)
  PROVE  /\ LastInput(msgs) \in 0..Len(msgs)
         /\ LastInput(msgs) > 0 => IsInput(msgs[LastInput(msgs)])
         /\ \A i \in LastInput(msgs) + 1 .. Len(msgs) : ~IsInput(msgs[i])
<1> DEFINE N == Len(msgs)
           T == {n \in 0..N : n > 0 => IsInput(msgs[n])}
           P(n) == /\ n > 0 => IsInput(msgs[n])
                   /\ \A i \in n + 1 .. N : ~IsInput(msgs[i])
<1>1. N \in Nat
  BY InSeq
<1>2. 0 \in T /\ T \in SUBSET (0..N)
  BY <1>1
<1>3. PICK n \in T : \A m \in T : m <= n
  <2> HIDE DEF T, N
  <2>1. QED
    BY <1>1, <1>2, GreatestExists
<1>4. ASSUME NEW i \in n + 1 .. N
      PROVE  ~IsInput(msgs[i])
  <2>1. i \in 0..N /\ i > n /\ n \in Nat
    BY <1>1, <1>2, <1>3
  <2>2. i \notin T
    BY <1>3, <2>1
  <2>3. QED
    BY <2>1, <2>2
<1>5. n \in 0..N /\ P(n)
  BY <1>3, <1>4
<1>6. LastInput(msgs) = CHOOSE k \in 0..N : P(k)
  BY DEF LastInput
<1>7. LastInput(msgs) \in 0..N /\ P(LastInput(msgs))
  <2> HIDE DEF P, N
  <2>1. QED
    BY <1>5, <1>6
<1>8. QED
  BY <1>7

(* A message with user or system input at or after it is in the safe prefix. *)
LEMMA InSafePrefix ==
  ASSUME NEW S, NEW msgs \in Seq(S), NEW i \in 1..Len(msgs), NEW j \in i..Len(msgs),
         IsInput(msgs[j])
  PROVE  msgs[i] \in ToSet(safe_prefix(msgs))
<1>1. PICK n : n = LastInput(msgs)
  OBVIOUS
<1>2. Len(msgs) \in Nat
  BY InSeq
<1>3. n \in 0..Len(msgs) /\ \A k \in n + 1 .. Len(msgs) : ~IsInput(msgs[k])
  BY <1>1, LastInputIs
<1>4. j <= n
  BY <1>2, <1>3
<1>5. i \in 1..n /\ n \in Nat /\ n <= Len(msgs) /\ 1 \in Nat
  BY <1>2, <1>3, <1>4
<1>6. \A k \in 1..n : msgs[k] \in ToSet(SubSeq(msgs, 1, n))
  BY <1>5, ToSetSubSeq
<1>7. QED
  BY <1>1, <1>5, <1>6 DEF safe_prefix

LEMMA SafePrefixIs ==
  ASSUME NEW S, NEW msgs \in Seq(S)
  PROVE  /\ safe_prefix(msgs) \in Seq(S)
         /\ ToSet(safe_prefix(msgs)) \subseteq ToSet(msgs)
         /\ \A m \in ToSet(safe_prefix(msgs)) :
              \E i \in 1..Len(msgs) : \E j \in i..Len(msgs) : msgs[i] = m /\ IsInput(msgs[j])
<1>1. PICK n : n = LastInput(msgs)
  OBVIOUS
<1>2. Len(msgs) \in Nat /\ \A i \in 1..Len(msgs) : msgs[i] \in S
  BY InSeq
<1>3. n \in 0..Len(msgs) /\ (n > 0 => IsInput(msgs[n]))
  BY <1>1, LastInputIs
<1>4. n \in Nat /\ n <= Len(msgs)
  BY <1>2, <1>3
<1>5. /\ SubSeq(msgs, 1, n) \in Seq(S)
      /\ ToSet(SubSeq(msgs, 1, n)) \subseteq ToSet(msgs)
  BY <1>4, ToSetSubSeq
<1>6. ASSUME NEW m \in ToSet(SubSeq(msgs, 1, n))
      PROVE  \E i \in 1..Len(msgs) : \E j \in i..Len(msgs) : msgs[i] = m /\ IsInput(msgs[j])
  <2>1. /\ Len(SubSeq(msgs, 1, n)) = IF 1 <= n THEN n - 1 + 1 ELSE 0
        /\ \A k \in 1 .. n - 1 + 1 : SubSeq(msgs, 1, n)[k] = msgs[1 + k - 1]
    <3>1. \A k \in 1..n : msgs[k] \in S
      BY <1>2, <1>4
    <3>2. QED
      BY <1>4, <3>1, SubSeqProperties
  <2>2. PICK k \in 1..Len(SubSeq(msgs, 1, n)) : m = SubSeq(msgs, 1, n)[k]
    BY <1>5, InSeq
  <2>3. k \in 1..n /\ n > 0 /\ k - 1 + 1 = k /\ 1 + k - 1 = k /\ n - 1 + 1 = n
    BY <1>4, <2>1, <2>2
  <2>4. m = msgs[k]
    BY <2>1, <2>2, <2>3
  <2>5. k \in 1..Len(msgs) /\ n \in k..Len(msgs)
    BY <1>2, <1>4, <2>3
  <2>6. QED
    BY <1>3, <2>3, <2>4, <2>5
<1>7. QED
  BY <1>1, <1>5, <1>6 DEF safe_prefix

(* What a user, a hook or a command put into a log is in its safe prefix.   *)
THEOREM SafePrefixKeepsInput ==
  ASSUME NEW S, NEW msgs \in Seq(S), NEW m \in ToSet(msgs), IsInput(m)
  PROVE  m \in ToSet(safe_prefix(msgs))
<1>1. PICK i \in 1..Len(msgs) : m = msgs[i]
  BY InSeq
<1>2. i \in i..Len(msgs)
  BY <1>1, InSeq
<1>3. QED
  BY <1>1, <1>2, InSafePrefix

(* A log that is written as it stands is its own safe prefix.               *)
LEMMA SafeLogIsPrefix ==
  ASSUME NEW S, NEW msgs \in Seq(S), is_error_safe_log(msgs)
  PROVE  ToSet(safe_prefix(msgs)) = ToSet(msgs)
<1>1. Len(msgs) \in Nat /\ msgs # <<>> /\ IsInput(msgs[Len(msgs)])
  BY InSeq DEF is_error_safe_log, Last
<1>2. ASSUME NEW m \in ToSet(msgs)
      PROVE  m \in ToSet(safe_prefix(msgs))
  <2>1. PICK i \in 1..Len(msgs) : m = msgs[i]
    BY InSeq
  <2>2. Len(msgs) \in i..Len(msgs)
    BY <1>1
  <2>3. QED
    BY <1>1, <2>1, <2>2, InSafePrefix
<1>3. QED
  BY <1>2, SafePrefixIs

(* A safe prefix never shrinks while the log grows.                         *)
LEMMA SafePrefixGrows ==
  ASSUME NEW S, NEW msgs \in Seq(S), NEW e \in S
  PROVE  ToSet(safe_prefix(msgs)) \subseteq ToSet(safe_prefix(Append(msgs, e)))
<1>1. SUFFICES ASSUME NEW m \in ToSet(safe_prefix(msgs))
               PROVE  m \in ToSet(safe_prefix(Append(msgs, e)))
  OBVIOUS
<1>2. PICK i \in 1..Len(msgs) : \E j \in i..Len(msgs) : msgs[i] = m /\ IsInput(msgs[j])
  BY SafePrefixIs
<1>3. PICK j \in i..Len(msgs) : msgs[i] = m /\ IsInput(msgs[j])
  BY <1>2
<1>4. PICK grown : grown = Append(msgs, e)
  OBVIOUS
<1>5. /\ grown \in Seq(S) /\ Len(grown) = Len(msgs) + 1
      /\ \A k \in 1..Len(msgs) : grown[k] = msgs[k]
  BY <1>4, AppendProperties
<1>6. Len(msgs) \in Nat
  BY InSeq
<1>7. i \in 1..Len(grown) /\ j \in i..Len(grown) /\ j \in 1..Len(msgs)
  BY <1>3, <1>5, <1>6
<1>8. grown[i] = m /\ IsInput(grown[j])
  BY <1>3, <1>5, <1>7
<1>9. grown[i] \in ToSet(safe_prefix(grown))
  BY <1>5, <1>7, <1>8, InSafePrefix
<1>10. QED
  BY <1>4, <1>8, <1>9

------------------------------------------------------------------------------
(* The repair of a paused log *)

LEMMA FiniteRange ==
  ASSUME NEW S, NEW s \in Seq(S)
  PROVE  IsFiniteSet(ToSet(s))
<1>1. Len(s) \in Nat /\ ToSet(s) = {s[i] : i \in 1..Len(s)} /\ s \in [1..Len(s) -> S]
  BY InSeq, LenProperties
<1>2. IsFiniteSet(1..Len(s))
  BY <1>1, FS_Interval
<1>3. s \in Surjection(1..Len(s), ToSet(s))
  <2>1. s \in [1..Len(s) -> ToSet(s)]
    BY <1>1
  <2>2. \A t \in ToSet(s) : \E i \in 1..Len(s) : s[i] = t
    BY <1>1
  <2>3. QED
    BY <2>1, <2>2 DEF Surjection
<1>4. QED
  BY <1>2, <1>3, FS_Surjection

LEMMA FiniteCalls ==
  ASSUME NEW S, NEW C, NEW msgs \in Seq(S),
         \A m \in S : m.kind = "assistant" => m.calls \in Seq(C)
  PROVE  IsFiniteSet(CallsIn(msgs)) /\ CallsIn(msgs) \subseteq C
<1> DEFINE T == {CallsOf(m) : m \in ToSet(msgs)}
           g == [i \in 1..Len(msgs) |-> CallsOf(msgs[i])]
<1>1. /\ Len(msgs) \in Nat
      /\ \A i \in 1..Len(msgs) : msgs[i] \in S
      /\ ToSet(msgs) = {msgs[i] : i \in 1..Len(msgs)}
  BY InSeq
<1>2. IsFiniteSet(1..Len(msgs))
  BY <1>1, FS_Interval
<1>3. g \in Surjection(1..Len(msgs), T)
  <2>1. \A i \in 1..Len(msgs) : g[i] = CallsOf(msgs[i]) /\ g[i] \in T
    BY <1>1
  <2>2. g \in [1..Len(msgs) -> T]
    BY <2>1
  <2>3. \A t \in T : \E i \in 1..Len(msgs) : g[i] = t
    BY <1>1, <2>1
  <2>4. QED
    <3> HIDE DEF T, g
    <3>1. QED
      BY <2>2, <2>3 DEF Surjection
<1>4. IsFiniteSet(T)
  <2> HIDE DEF T, g
  <2>1. QED
    BY <1>2, <1>3, FS_Surjection
<1>5. ASSUME NEW t \in T
      PROVE  IsFiniteSet(t) /\ t \subseteq C
  <2>1. PICK m \in ToSet(msgs) : t = CallsOf(m)
    OBVIOUS
  <2>2. m \in S
    BY <1>1
  <2>3. CASE m.kind = "assistant"
    <3>1. m.calls \in Seq(C) /\ t = ToSet(m.calls)
      BY <2>1, <2>2, <2>3 DEF CallsOf
    <3>2. QED
      BY <3>1, FiniteRange, InSeq
  <2>4. CASE m.kind # "assistant"
    <3>1. t = {}
      BY <2>1, <2>4 DEF CallsOf
    <3>2. QED
      BY <3>1, FS_EmptySet
  <2>5. QED
    BY <2>3, <2>4
<1>6. CallsIn(msgs) = UNION T
  BY DEF CallsIn
<1>7. IsFiniteSet(UNION T) /\ (UNION T) \subseteq C
  <2> HIDE DEF T
  <2>1. QED
    BY <1>4, <1>5, FS_UNION
<1>8. QED
  BY <1>6, <1>7

LEMMA SetToSeqIs ==
  ASSUME NEW T, IsFiniteSet(T)
  PROVE  /\ SetToSeq(T) \in Seq(T) /\ ToSet(SetToSeq(T)) = T
         /\ \A i, j \in DOMAIN SetToSeq(T) : SetToSeq(T)[i] = SetToSeq(T)[j] => i = j
<1>1. PICK n : n = Cardinality(T)
  OBVIOUS
<1>2. n \in Nat /\ ExistsBijection(1..n, T)
  BY <1>1, FS_CardinalityType
<1>3. PICK f : f \in Bijection(1..n, T)
  BY <1>2 DEF ExistsBijection
<1>4. f \in [1..n -> T] /\ IsInjective(f)
  BY <1>3 DEF Bijection, Injection, Surjection, IsInjective
<1>5. PICK s : s = SetToSeq(T)
  OBVIOUS
<1>6. s \in [1..n -> T] /\ IsInjective(s)
  BY <1>1, <1>4, <1>5 DEF SetToSeq
<1>7. s \in Injection(1..n, T)
  BY <1>6 DEF Injection, IsInjective
<1>8. IsFiniteSet(1..n) /\ Cardinality(1..n) = n
  BY <1>2, FS_Interval
<1>9. s \in Surjection(1..n, T)
  BY <1>1, <1>7, <1>8, FS_Injection
<1>10. s \in Seq(T) /\ DOMAIN s = 1..n
  BY <1>2, <1>6
<1>11. ToSet(s) = T
  BY <1>9, <1>10 DEF Surjection, ToSet
<1>12. \A i, j \in DOMAIN s : s[i] = s[j] => i = j
  BY <1>6 DEF IsInjective
<1>13. QED
  BY <1>5, <1>10, <1>11, <1>12

(* The results a paused log gets: one for each dangling call.               *)
LEMMA RepairedTail ==
  ASSUME NEW S, NEW C, NEW msgs \in Seq(S),
         \A m \in S : m.kind = "assistant" => m.calls \in Seq(C),
         \A c \in C : Interrupted(c) \in S
  PROVE  \E rs \in Seq(S) :
           /\ repaired_paused_log(msgs) = msgs \o rs
           /\ ToSet(rs) = {Interrupted(c) : c \in Dangling(msgs)}
           /\ \A i, j \in DOMAIN rs : rs[i] = rs[j] => i = j
<1> DEFINE D == Dangling(msgs)
           I == {Interrupted(c) : c \in D}
           g == [c \in D |-> Interrupted(c)]
<1>1. IsFiniteSet(CallsIn(msgs)) /\ CallsIn(msgs) \subseteq C
  BY FiniteCalls
<1>2. D \in SUBSET CallsIn(msgs)
  BY DEF Dangling
<1>3. IsFiniteSet(D) /\ D \subseteq C
  <2> HIDE DEF D
  <2>1. QED
    BY <1>1, <1>2, FS_Subset
<1>4. g \in Surjection(D, I)
  <2> HIDE DEF D
  <2>1. g \in [D -> I] /\ \A t \in I : \E c \in D : g[c] = t
    OBVIOUS
  <2> HIDE DEF g, I
  <2>2. QED
    BY <2>1 DEF Surjection
<1>5. IsFiniteSet(I) /\ I \subseteq S
  <2>1. I \subseteq S
    BY <1>3
  <2>2. IsFiniteSet(I)
    <3> HIDE DEF D, I, g
    <3>1. QED
      BY <1>3, <1>4, FS_Surjection
  <2>3. QED
    BY <2>1, <2>2
<1>6. /\ SetToSeq(I) \in Seq(I) /\ ToSet(SetToSeq(I)) = I
      /\ \A i, j \in DOMAIN SetToSeq(I) : SetToSeq(I)[i] = SetToSeq(I)[j] => i = j
  <2> HIDE DEF I
  <2>1. QED
    BY <1>5, SetToSeqIs
<1>7. SetToSeq(I) \in Seq(S)
  <2> HIDE DEF I
  <2>1. QED
    BY <1>5, <1>6, SeqMonotonic
<1>8. repaired_paused_log(msgs) = msgs \o SetToSeq(I)
  BY DEF repaired_paused_log
<1>9. I = {Interrupted(c) : c \in Dangling(msgs)}
  OBVIOUS
<1>10. QED
  <2> HIDE DEF D, I, g
  <2>1. QED
    BY <1>6, <1>7, <1>8, <1>9

LEMMA RepairedLogIs ==
  ASSUME NEW S, NEW C, NEW msgs \in Seq(S),
         \A m \in S : m.kind = "assistant" => m.calls \in Seq(C),
         \A c \in C : Interrupted(c) \in S
  PROVE  /\ repaired_paused_log(msgs) \in Seq(S)
         /\ ToSet(repaired_paused_log(msgs)) =
              ToSet(msgs) \cup {Interrupted(c) : c \in Dangling(msgs)}
<1>1. PICK rs \in Seq(S) : /\ repaired_paused_log(msgs) = msgs \o rs
                           /\ ToSet(rs) = {Interrupted(c) : c \in Dangling(msgs)}
  BY RepairedTail
<1>2. msgs \o rs \in Seq(S) /\ ToSet(msgs \o rs) = ToSet(msgs) \cup ToSet(rs)
  BY ToSetConcat
<1>3. QED
  BY <1>1, <1>2

(* repair.rs: a paused log is stored with a result for every call in it, so *)
(* the run that resumes from it sends the provider no open call.            *)
THEOREM PausedLogIsRepaired ==
  ASSUME NEW S, NEW C, NEW msgs \in Seq(S),
         \A m \in S : m.kind = "assistant" => m.calls \in Seq(C),
         \A c \in C : Interrupted(c) \in S
  PROVE  Dangling(repaired_paused_log(msgs)) = {}
<1>1. PICK log : log = repaired_paused_log(msgs)
  OBVIOUS
<1>2. ToSet(log) = ToSet(msgs) \cup {Interrupted(c) : c \in Dangling(msgs)}
  BY <1>1, RepairedLogIs
<1>3. ASSUME NEW c \in CallsIn(log)
      PROVE  c \in ResolvedIn(log)
  <2>1. PICK m \in ToSet(log) : c \in CallsOf(m)
    BY <1>3 DEF CallsIn
  <2>2. m \in ToSet(msgs)
    <3>1. m.kind = "assistant"
      BY <2>1 DEF CallsOf
    <3>2. QED
      BY <1>2, <3>1 DEF Interrupted
  <2>3. c \in CallsIn(msgs)
    BY <2>1, <2>2 DEF CallsIn
  <2>4. CASE c \in ResolvedIn(msgs)
    BY <1>2, <2>4 DEF ResolvedIn
  <2>5. CASE c \notin ResolvedIn(msgs)
    <3>1. c \in Dangling(msgs)
      BY <2>3, <2>5 DEF Dangling
    <3>2. Interrupted(c) \in ToSet(log)
      BY <1>2, <3>1
    <3>3. IsResult(Interrupted(c)) /\ Interrupted(c).call = c
      BY DEF IsResult, Interrupted
    <3>4. QED
      BY <3>2, <3>3 DEF ResolvedIn
  <2>6. QED
    BY <2>4, <2>5
<1>4. QED
  BY <1>1, <1>3 DEF Dangling

------------------------------------------------------------------------------
(* Compaction *)

LEMMA GroupStartIn ==
  ASSUME NEW S, NEW msgs \in Seq(S), NEW p \in Nat
  PROVE  GroupStart(msgs, p) \in 0..p
<1> DEFINE P(n) == /\ \A i \in n + 1 .. p : IsResult(msgs[i + 1])
                   /\ n > 0 => ~IsResult(msgs[n + 1])
           T == {n \in 0..p : \A i \in n + 1 .. p : IsResult(msgs[i + 1])}
<1>1. p \in T /\ T \in SUBSET Nat
  OBVIOUS
<1>2. PICK n \in T : \A m \in T : n <= m
  <2> HIDE DEF T
  <2>1. QED
    BY <1>1, LeastExists
<1>3. n > 0 => ~IsResult(msgs[n + 1])
  <2>1. SUFFICES ASSUME n > 0, IsResult(msgs[n + 1])
                 PROVE  FALSE
    OBVIOUS
  <2>2. n \in 0..p /\ \A i \in n + 1 .. p : IsResult(msgs[i + 1])
    BY <1>2
  <2>3. n - 1 \in 0..p /\ (n - 1) + 1 = n
    BY <2>1, <2>2
  <2>4. \A i \in (n - 1) + 1 .. p : i = n \/ i \in n + 1 .. p
    BY <2>2
  <2>5. \A i \in (n - 1) + 1 .. p : IsResult(msgs[i + 1])
    BY <2>1, <2>2, <2>4
  <2>6. n - 1 \in T
    BY <2>3, <2>5
  <2>7. n <= n - 1
    BY <1>2, <2>6
  <2>8. QED
    BY <2>2, <2>7
<1>4. n \in 0..p /\ P(n)
  BY <1>2, <1>3
<1>5. GroupStart(msgs, p) = CHOOSE k \in 0..p : P(k)
  BY DEF GroupStart
<1>6. QED
  <2> HIDE DEF P
  <2>1. QED
    BY <1>4, <1>5

LEMMA LeadingIn ==
  ASSUME NEW S, NEW msgs \in Seq(S)
  PROVE  /\ leading_system_count(msgs) \in 0..Len(msgs)
         /\ \A i \in 1..leading_system_count(msgs) : msgs[i].kind = "system"
<1> DEFINE N == Len(msgs)
           P(n) == /\ \A i \in 1..n : msgs[i].kind = "system"
                   /\ n < N => msgs[n + 1].kind # "system"
           T == {n \in 0..N : \A i \in 1..n : msgs[i].kind = "system"}
<1>1. N \in Nat
  BY InSeq
<1>2. 0 \in T /\ T \in SUBSET (0..N)
  BY <1>1
<1>3. PICK n \in T : \A m \in T : m <= n
  <2> HIDE DEF T, N
  <2>1. QED
    BY <1>1, <1>2, GreatestExists
<1>4. n < N => msgs[n + 1].kind # "system"
  <2>1. SUFFICES ASSUME n < N, msgs[n + 1].kind = "system"
                 PROVE  FALSE
    OBVIOUS
  <2>2. n \in 0..N /\ \A i \in 1..n : msgs[i].kind = "system"
    BY <1>3
  <2>3. n + 1 \in 0..N /\ \A i \in 1 .. n + 1 : i = n + 1 \/ i \in 1..n
    BY <1>1, <2>1, <2>2
  <2>4. n + 1 \in T
    BY <2>1, <2>2, <2>3
  <2>5. n + 1 <= n
    BY <1>3, <2>4
  <2>6. QED
    BY <1>1, <2>2, <2>5
<1>5. n \in 0..N /\ P(n)
  BY <1>3, <1>4
<1>6. leading_system_count(msgs) = CHOOSE k \in 0..N : P(k)
  BY DEF leading_system_count
<1>7. QED
  <2> HIDE DEF P, N
  <2>1. leading_system_count(msgs) \in 0..N /\ P(leading_system_count(msgs))
    BY <1>5, <1>6
  <2>2. QED
    BY <2>1 DEF N, P

LEMMA PlanIn ==
  ASSUME NEW S, NEW msgs \in Seq(S), NEW keep \in Nat
  PROVE  PlanStart(msgs) \in 0..Len(msgs) /\ PlanEnd(msgs, keep) \in 0..Len(msgs)
<1>1. Len(msgs) \in Nat /\ leading_system_count(msgs) \in 0..Len(msgs)
  BY InSeq, LeadingIn
<1>2. PlanStart(msgs) \in 0..Len(msgs)
  BY <1>1 DEF PlanStart
<1>3. PICK recent \in 0..Len(msgs) :
        PlanEnd(msgs, keep) = tool_result_group_boundary(msgs, Len(msgs) - recent)
  <2>1. PICK c : c = Len(msgs) - leading_system_count(msgs)
    OBVIOUS
  <2>2. c \in 0..Len(msgs)
    BY <1>1, <2>1
  <2>3. (IF keep < c THEN keep ELSE c) \in 0..Len(msgs)
    BY <1>1, <2>2
  <2>4. PlanEnd(msgs, keep) =
          tool_result_group_boundary(msgs, Len(msgs) - (IF keep < c THEN keep ELSE c))
    BY <2>1 DEF PlanEnd
  <2>5. QED
    BY <2>3, <2>4
<1>4. PICK p : p = Len(msgs) - recent
  OBVIOUS
<1>5. p \in Nat /\ p <= Len(msgs)
  BY <1>1, <1>4
<1>6. GroupStart(msgs, p) \in 0..p
  BY <1>5, GroupStartIn
<1>7. tool_result_group_boundary(msgs, p) \in 0..p
  BY <1>5, <1>6 DEF tool_result_group_boundary
<1>8. QED
  BY <1>1, <1>2, <1>3, <1>4, <1>5, <1>7

(* Before the cut are system messages and an earlier summary.               *)
LEMMA PlanStartIs ==
  ASSUME NEW S, NEW msgs \in Seq(S)
  PROVE  \A i \in 1..PlanStart(msgs) : msgs[i].kind \in {"system", "summary"}
<1>1. PICK n : n = leading_system_count(msgs)
  OBVIOUS
<1>2. n \in 0..Len(msgs) /\ Len(msgs) \in Nat /\ \A i \in 1..n : msgs[i].kind = "system"
  BY <1>1, InSeq, LeadingIn
<1>3. CASE PlanStart(msgs) = n
  BY <1>2, <1>3
<1>4. CASE PlanStart(msgs) = n + 1 /\ msgs[n + 1].kind = "summary"
  <2>1. \A i \in 1 .. n + 1 : i \in 1..n \/ i = n + 1
    BY <1>2
  <2>2. QED
    BY <1>2, <1>4, <2>1
<1>5. QED
  BY <1>1, <1>3, <1>4 DEF PlanStart

(* Where the messages of a log are after a compaction. *)
LEMMA CompactedLogIs ==
  ASSUME NEW S, NEW msgs \in Seq(S), NEW keep \in Nat, Summary \in S
  PROVE  \E st, en, log :
         /\ log = CompactedLog(msgs, keep)
         /\ st \in 0..Len(msgs) /\ en \in 0..Len(msgs)
         /\ log \in Seq(S)
         /\ Len(log) = st + 1 + (Len(msgs) - en)
         /\ \A i \in 1..st : log[i] = msgs[i]
         /\ log[st + 1] = Summary
         /\ \A i \in en + 1 .. Len(msgs) : log[i - en + st + 1] = msgs[i]
         /\ \A i \in st + 1 .. en : msgs[i] \in ToSet(Compacted(msgs, keep))
         /\ Compacted(msgs, keep) \in Seq(S)
         /\ st = PlanStart(msgs)
<1>0. PICK st, en, log : /\ st = PlanStart(msgs) /\ en = PlanEnd(msgs, keep)
                         /\ log = CompactedLog(msgs, keep)
  OBVIOUS
<1>1. Len(msgs) \in Nat /\ \A i \in 1..Len(msgs) : msgs[i] \in S
  BY InSeq
<1>2. st \in 0..Len(msgs) /\ en \in 0..Len(msgs)
  BY <1>0, PlanIn
<1>3. PICK a, b, c : /\ a = SubSeq(msgs, 1, st)
                     /\ b = <<Summary>>
                     /\ c = SubSeq(msgs, en + 1, Len(msgs))
  OBVIOUS
<1>4. /\ a \in Seq(S) /\ Len(a) = st
      /\ \A i \in 1..st : a[i] = msgs[i]
  <2>1. \A i \in 1..st : msgs[i] \in S
    BY <1>1, <1>2
  <2>2. /\ SubSeq(msgs, 1, st) \in Seq(S)
        /\ Len(SubSeq(msgs, 1, st)) = IF 1 <= st THEN st - 1 + 1 ELSE 0
        /\ \A i \in 1 .. st - 1 + 1 : SubSeq(msgs, 1, st)[i] = msgs[1 + i - 1]
    BY <1>1, <1>2, <2>1, SubSeqProperties
  <2>3. st - 1 + 1 = st /\ \A i \in 1..st : 1 + i - 1 = i
    BY <1>1, <1>2
  <2>4. QED
    BY <1>1, <1>2, <1>3, <2>2, <2>3
<1>5. b \in Seq(S) /\ Len(b) = 1 /\ b[1] = Summary
  BY <1>3
<1>6. /\ c \in Seq(S) /\ Len(c) = Len(msgs) - en
      /\ \A i \in 1 .. Len(msgs) - en : c[i] = msgs[en + i]
  <2>1. \A i \in en + 1 .. Len(msgs) : msgs[i] \in S
    BY <1>1, <1>2
  <2>2. /\ SubSeq(msgs, en + 1, Len(msgs)) \in Seq(S)
        /\ Len(SubSeq(msgs, en + 1, Len(msgs))) =
             IF en + 1 <= Len(msgs) THEN Len(msgs) - (en + 1) + 1 ELSE 0
        /\ \A i \in 1 .. Len(msgs) - (en + 1) + 1 :
             SubSeq(msgs, en + 1, Len(msgs))[i] = msgs[(en + 1) + i - 1]
    BY <1>1, <1>2, <2>1, SubSeqProperties
  <2>3. /\ Len(msgs) - (en + 1) + 1 = Len(msgs) - en
        /\ \A i \in 1 .. Len(msgs) - en : (en + 1) + i - 1 = en + i
    BY <1>1, <1>2
  <2>4. /\ c \in Seq(S) /\ Len(c) = Len(msgs) - en
        /\ \A i \in 1 .. Len(msgs) - (en + 1) + 1 : c[i] = msgs[(en + 1) + i - 1]
    BY <1>1, <1>2, <1>3, <2>2
  <2>5. ASSUME NEW i \in 1 .. Len(msgs) - en
        PROVE  c[i] = msgs[en + i]
    <3>1. i \in 1 .. Len(msgs) - (en + 1) + 1 /\ (en + 1) + i - 1 = en + i
      BY <1>1, <1>2
    <3>2. c[i] = msgs[(en + 1) + i - 1]
      BY <2>4, <3>1
    <3>3. QED
      BY <3>1, <3>2
  <2>6. QED
    BY <2>4, <2>5
<1>7. /\ a \o b \in Seq(S) /\ Len(a \o b) = st + 1
      /\ \A i \in 1 .. st + 1 : (a \o b)[i] = IF i <= st THEN a[i] ELSE b[i - st]
  <2>1. /\ a \o b \in Seq(S)
        /\ Len(a \o b) = Len(a) + Len(b)
        /\ \A i \in 1 .. Len(a) + Len(b) :
             (a \o b)[i] = IF i <= Len(a) THEN a[i] ELSE b[i - Len(a)]
    BY <1>4, <1>5, ConcatProperties
  <2>2. QED
    BY <1>4, <1>5, <2>1
<1>8. PICK ab : ab = a \o b
  OBVIOUS
<1>9. /\ ab \in Seq(S) /\ Len(ab) = st + 1
      /\ \A i \in 1..st : ab[i] = msgs[i]
      /\ ab[st + 1] = Summary
  BY <1>1, <1>2, <1>4, <1>5, <1>7, <1>8
<1>10. /\ ab \o c \in Seq(S) /\ Len(ab \o c) = st + 1 + (Len(msgs) - en)
       /\ \A i \in 1 .. st + 1 + (Len(msgs) - en) :
            (ab \o c)[i] = IF i <= st + 1 THEN ab[i] ELSE c[i - (st + 1)]
  <2>1. /\ ab \o c \in Seq(S)
        /\ Len(ab \o c) = Len(ab) + Len(c)
        /\ \A i \in 1 .. Len(ab) + Len(c) :
             (ab \o c)[i] = IF i <= Len(ab) THEN ab[i] ELSE c[i - Len(ab)]
    BY <1>6, <1>9, ConcatProperties
  <2>2. QED
    BY <1>6, <1>9, <2>1
<1>11. log = ab \o c
  BY <1>0, <1>3, <1>8 DEF CompactedLog
<1>12. \A i \in 1..st : log[i] = msgs[i]
  <2>1. \A i \in 1..st : i \in 1 .. st + 1 + (Len(msgs) - en) /\ i <= st + 1
    BY <1>1, <1>2
  <2>2. QED
    BY <1>9, <1>10, <1>11, <2>1
<1>13. log[st + 1] = Summary
  <2>1. st + 1 \in 1 .. st + 1 + (Len(msgs) - en) /\ st + 1 <= st + 1
    BY <1>1, <1>2
  <2>2. QED
    BY <1>9, <1>10, <1>11, <2>1
<1>14. ASSUME NEW i \in en + 1 .. Len(msgs)
       PROVE  log[i - en + st + 1] = msgs[i]
  <2>0. i \in Nat /\ en + 1 <= i /\ i <= Len(msgs) /\ en \in Nat /\ st \in Nat
    BY <1>1, <1>2
  <2>1. PICK k : k = i - en + st + 1
    OBVIOUS
  <2>2. /\ k \in 1 .. st + 1 + (Len(msgs) - en) /\ ~(k <= st + 1)
        /\ k - (st + 1) = i - en /\ i - en \in 1 .. Len(msgs) - en /\ en + (i - en) = i
    BY <1>1, <2>0, <2>1
  <2>3. log[k] = c[k - (st + 1)]
    BY <1>10, <1>11, <2>2
  <2>4. c[i - en] = msgs[en + (i - en)]
    BY <1>6, <2>2
  <2>5. QED
    BY <2>1, <2>2, <2>3, <2>4
<1>15. /\ Compacted(msgs, keep) \in Seq(S)
       /\ \A i \in st + 1 .. en : msgs[i] \in ToSet(Compacted(msgs, keep))
  <2>1. st + 1 \in Nat /\ en \in Nat /\ st + 1 >= 1 /\ en <= Len(msgs)
    BY <1>1, <1>2
  <2>2. Compacted(msgs, keep) = SubSeq(msgs, st + 1, en)
    BY <1>0 DEF Compacted
  <2>3. /\ SubSeq(msgs, st + 1, en) \in Seq(S)
        /\ \A i \in st + 1 .. en : msgs[i] \in ToSet(SubSeq(msgs, st + 1, en))
    BY <2>1, ToSetSubSeq
  <2>4. QED
    BY <2>2, <2>3
<1>16. QED
  BY <1>0, <1>2, <1>10, <1>11, <1>12, <1>13, <1>14, <1>15, ZenonT(60)

(* What a compaction takes out of a log is what it hands to the archive,    *)
(* and what was in the safe prefix and is not handed over stays in it.      *)
THEOREM CompactionKeepsSafePrefix ==
  ASSUME NEW S, NEW msgs \in Seq(S), NEW keep \in Nat, Summary \in S
  PROVE  /\ CompactedLog(msgs, keep) \in Seq(S)
         /\ Compacted(msgs, keep) \in Seq(S)
         /\ ToSet(msgs) \subseteq
              ToSet(CompactedLog(msgs, keep)) \cup ToSet(Compacted(msgs, keep))
         /\ ToSet(safe_prefix(msgs)) \subseteq
              ToSet(safe_prefix(CompactedLog(msgs, keep))) \cup ToSet(Compacted(msgs, keep))
<1>1. PICK st, en, log :
      /\ log = CompactedLog(msgs, keep)
      /\ st \in 0..Len(msgs) /\ en \in 0..Len(msgs)
      /\ log \in Seq(S)
      /\ Len(log) = st + 1 + (Len(msgs) - en)
      /\ \A i \in 1..st : log[i] = msgs[i]
      /\ log[st + 1] = Summary
      /\ \A i \in en + 1 .. Len(msgs) : log[i - en + st + 1] = msgs[i]
      /\ \A i \in st + 1 .. en : msgs[i] \in ToSet(Compacted(msgs, keep))
      /\ Compacted(msgs, keep) \in Seq(S)
  BY CompactedLogIs
<1>2. /\ st \in 0..Len(msgs) /\ en \in 0..Len(msgs)
      /\ log \in Seq(S)
      /\ Len(log) = st + 1 + (Len(msgs) - en)
      /\ \A i \in 1..st : log[i] = msgs[i]
      /\ log[st + 1] = Summary
      /\ \A i \in en + 1 .. Len(msgs) : log[i - en + st + 1] = msgs[i]
      /\ \A i \in st + 1 .. en : msgs[i] \in ToSet(Compacted(msgs, keep))
      /\ Compacted(msgs, keep) \in Seq(S)
  BY <1>1
<1>3. Len(msgs) \in Nat
  BY InSeq
<1>4. \A i \in 1..Len(msgs) : i \in 1..st \/ i \in st + 1 .. en \/ i \in en + 1 .. Len(msgs)
  BY <1>2, <1>3
<1>5. ToSet(log) = {log[i] : i \in 1..Len(log)}
  BY <1>2, InSeq
<1>6. \A i \in 1..st : i \in 1..Len(log) /\ i <= st + 1
  BY <1>2, <1>3
<1>7. \A i \in en + 1 .. Len(msgs) : i - en + st + 1 \in 1..Len(log)
  BY <1>2, <1>3
<1>8. ASSUME NEW m \in ToSet(msgs)
      PROVE  m \in ToSet(log) \cup ToSet(Compacted(msgs, keep))
  <2>1. PICK i \in 1..Len(msgs) : m = msgs[i]
    BY InSeq
  <2>2. CASE i \in 1..st
    BY <1>2, <1>5, <1>6, <2>1, <2>2
  <2>3. CASE i \in st + 1 .. en
    BY <1>2, <2>1, <2>3
  <2>4. CASE i \in en + 1 .. Len(msgs)
    BY <1>2, <1>5, <1>7, <2>1, <2>4
  <2>5. QED
    BY <1>4, <2>2, <2>3, <2>4
<1>9. ASSUME NEW m \in ToSet(safe_prefix(msgs))
      PROVE  m \in ToSet(safe_prefix(log)) \cup ToSet(Compacted(msgs, keep))
  <2>1. PICK i \in 1..Len(msgs) : \E j \in i..Len(msgs) : msgs[i] = m /\ IsInput(msgs[j])
    BY SafePrefixIs
  <2>2. PICK j \in i..Len(msgs) : msgs[i] = m /\ IsInput(msgs[j])
    BY <2>1
  <2>3. CASE i \in 1..st
    <3>1. st + 1 \in i..Len(log) /\ i \in 1..Len(log)
      BY <1>2, <1>3, <2>3
    <3>2. IsInput(log[st + 1]) /\ log[i] = m
      BY <1>2, <2>2, <2>3 DEF IsInput, IsUser, Summary
    <3>3. QED
      BY <1>2, <3>1, <3>2, InSafePrefix
  <2>4. CASE i \in st + 1 .. en
    BY <1>2, <2>2, <2>4
  <2>5. CASE i \in en + 1 .. Len(msgs)
    <3>1. j \in en + 1 .. Len(msgs)
      BY <1>2, <1>3, <2>2, <2>5
    <3>2. PICK x, y : x = i - en + st + 1 /\ y = j - en + st + 1
      OBVIOUS
    <3>3. x \in 1..Len(log) /\ y \in x..Len(log)
      BY <1>2, <1>3, <2>2, <2>5, <3>1, <3>2
    <3>4. log[x] = m /\ IsInput(log[y])
      BY <1>2, <2>2, <2>5, <3>1, <3>2
    <3>5. log[x] \in ToSet(safe_prefix(log))
      BY <1>2, <3>3, <3>4, InSafePrefix
    <3>6. QED
      BY <3>4, <3>5
  <2>6. QED
    BY <1>4, <2>3, <2>4, <2>5
<1>10. QED
  BY <1>1, <1>2, <1>8, <1>9
==============================================================================
