----------------------------- MODULE EdgeProofs -----------------------------
(***************************************************************************)
(* Proofs about NameEdge, and about DaemonRun, which serves what NameEdge  *)
(* routes, for all constants that meet the assumptions.                    *)
(*                                                                         *)
(* NameEdge.  Whether a stream is told of once and for all is not a matter *)
(* of states but of the parsers: ToldOnce says that what a prefix has told *)
(* every longer prefix tells too, and that what it has refused none tells. *)
(* For a request that is because the header ends at its first empty line   *)
(* (HeaderStays); for a greeting because records are read in order up to   *)
(* one that completes the message or must be refused (LastReadIs,          *)
(* CompleteIsLast).  With it the invariant needs to remember no more than  *)
(* on what a connection was decided (Decided) and that no more was read    *)
(* than was sent (Read).  Honest and Asked carry what the responder said   *)
(* from the lookup to the decision; Latched says whose labels are in the   *)
(* latch, which the verdict of a run is read from.                         *)
(*                                                                         *)
(* DaemonRun.  A closed edge stays quiet because its listeners were closed *)
(* before it was joined (Closing) and because only a loop that runs starts *)
(* handlers; the slots are counted by the handlers there are, so a handler *)
(* must belong to a connection that was accepted (Handled).                *)
(***************************************************************************)
EXTENDS NameEdge, DaemonRun, FiniteSetTheorems, SequenceTheorems, WellFoundedInduction, TLAPS

-----------------------------------------------------------------------------
(* Sequences and numbers. *)

\* A sequence read from its end.
LEMMA Reversed ==
  ASSUME NEW S, NEW s \in Seq(S)
  PROVE  /\ Reverse(s) \in Seq(S) /\ Len(Reverse(s)) = Len(s)
         /\ \A i \in 1..Len(s) : Reverse(s)[i] = s[Len(s) - i + 1]
<1>1. Len(s) \in Nat /\ \A i \in 1..Len(s) : s[i] \in S BY LenProperties, ElementOfSeq
<1>2. \A i \in 1..Len(s) : Len(s) - i + 1 \in 1..Len(s) BY <1>1
<1>3. Reverse(s) \in [1..Len(s) -> S] BY <1>1, <1>2 DEF Reverse
<1>4. Reverse(s) \in Seq(S) BY <1>1, <1>3, SeqDef
<1> QED BY <1>1, <1>2, <1>3, <1>4, LenProperties DEF Reverse

\* A pair is a sequence.
LEMMA PairIs ==
  ASSUME NEW S, NEW x \in S, NEW y \in S
  PROVE  <<x, y>> \in Seq(S) /\ Len(<<x, y>>) = 2 /\ <<x, y>>[1] = x /\ <<x, y>>[2] = y
<1>1. <<x, y>> \in [1..2 -> S] OBVIOUS
<1>2. <<x, y>> \in Seq(S) BY <1>1, SeqDef
<1> QED BY <1>2

\* A suffix, label by label.
LEMMA SuffixMeans ==
  ASSUME NEW S, NEW s \in Seq(S), NEW t \in Seq(S)
  PROVE  IsSuffix(s, t) <=> /\ Len(s) <= Len(t)
                            /\ \A i \in 1..Len(s) : s[i] = t[Len(t) - Len(s) + i]
<1> DEFINE r == Reverse(s)
           q == Reverse(t)
           n == Len(s)
<1>1. /\ r \in Seq(S) /\ Len(r) = n /\ \A i \in 1..n : r[i] = s[n - i + 1]
      /\ q \in Seq(S) /\ Len(q) = Len(t) /\ \A i \in 1..Len(t) : q[i] = t[Len(t) - i + 1]
      /\ n \in Nat /\ Len(t) \in Nat
  BY Reversed, LenProperties
<1> HIDE DEF r, q, n
<1>2. IsSuffix(s, t) <=> n <= Len(t) /\ SubSeq(r, 1, n) = SubSeq(q, 1, n)
  BY <1>1 DEF IsSuffix, IsPrefix, r, q
<1>3. ASSUME n <= Len(t)
      PROVE  SubSeq(r, 1, n) = SubSeq(q, 1, n) <=> \A i \in 1..n : r[i] = q[i]
  <2>1. (\A i \in 1..n : r[i] \in S) /\ (\A i \in 1..n : q[i] \in S) BY <1>1, <1>3, ElementOfSeq
  <2>2. /\ SubSeq(r, 1, n) \in Seq(S) /\ Len(SubSeq(r, 1, n)) = n
        /\ \A i \in 1..n : SubSeq(r, 1, n)[i] = r[i]
    <3>1. /\ SubSeq(r, 1, n) \in Seq(S) /\ Len(SubSeq(r, 1, n)) = IF 1 <= n THEN n - 1 + 1 ELSE 0
          /\ \A i \in 1..(n - 1 + 1) : SubSeq(r, 1, n)[i] = r[1 + i - 1]
      BY <1>1, <2>1, SubSeqProperties
    <3> QED BY <1>1, <3>1
  <2>3. /\ SubSeq(q, 1, n) \in Seq(S) /\ Len(SubSeq(q, 1, n)) = n
        /\ \A i \in 1..n : SubSeq(q, 1, n)[i] = q[i]
    <3>1. /\ SubSeq(q, 1, n) \in Seq(S) /\ Len(SubSeq(q, 1, n)) = IF 1 <= n THEN n - 1 + 1 ELSE 0
          /\ \A i \in 1..(n - 1 + 1) : SubSeq(q, 1, n)[i] = q[1 + i - 1]
      BY <1>1, <2>1, SubSeqProperties
    <3> QED BY <1>1, <3>1
  <2>4. (\A i \in 1..n : r[i] = q[i]) => SubSeq(r, 1, n) = SubSeq(q, 1, n)
    BY <2>2, <2>3, SeqEqual
  <2> QED BY <2>2, <2>3, <2>4
<1>4. ASSUME n <= Len(t)
      PROVE  (\A i \in 1..n : r[i] = q[i]) <=> \A i \in 1..n : s[i] = t[Len(t) - n + i]
  <2>1. ASSUME \A i \in 1..n : r[i] = q[i], NEW i \in 1..n PROVE s[i] = t[Len(t) - n + i]
    <3>1. n - i + 1 \in 1..n /\ n - (n - i + 1) + 1 = i /\ Len(t) - (n - i + 1) + 1 = Len(t) - n + i
          /\ n - i + 1 \in 1..Len(t)
      BY <1>1, <1>4
    <3>2. r[n - i + 1] = s[i] /\ q[n - i + 1] = t[Len(t) - n + i] BY <1>1, <3>1
    <3> QED BY <2>1, <3>1, <3>2
  <2>2. ASSUME \A i \in 1..n : s[i] = t[Len(t) - n + i], NEW i \in 1..n PROVE r[i] = q[i]
    <3>1. n - i + 1 \in 1..n /\ Len(t) - n + (n - i + 1) = Len(t) - i + 1 /\ i \in 1..Len(t) BY <1>1, <1>4
    <3> QED BY <1>1, <2>2, <3>1
  <2> QED BY <2>1, <2>2
<1> QED BY <1>2, <1>3, <1>4 DEF n

\* A set of numbers that is not empty has a least one: what is minimal in a
\* relation that contains the order is least ...
LEMMA MinimalIsLeast ==
  ASSUME NEW R, \A m, n \in Nat : m < n => <<m, n>> \in R,
         NEW S \in SUBSET Nat, \E n \in S : \A m \in S : ~(<<m, n>> \in R)
  PROVE  \E n \in S : \A m \in S : n <= m
<1>1. PICK n \in S : \A m \in S : ~(<<m, n>> \in R) OBVIOUS
<1>2. \A m \in S : ~(m < n)
  <2>1. \A m \in S : m \in Nat OBVIOUS
  <2> QED BY <1>1, <2>1, Zenon
<1>3. n \in Nat /\ \A m \in S : m \in Nat OBVIOUS
<1> QED BY <1>2, <1>3

\* ... and the order is well-founded.
LEMMA LeastExists ==
  ASSUME NEW S \in SUBSET Nat, S # {}
  PROVE  \E n \in S : \A m \in S : n <= m
<1>1. \A m, n \in Nat : m < n => <<m, n>> \in OpToRel(<, Nat) BY DEF OpToRel
<1>2. \E n \in S : \A m \in S : ~(<<m, n>> \in OpToRel(<, Nat)) BY NatLessThanWellFounded, WFMin
<1> QED BY <1>1, <1>2, MinimalIsLeast

-----------------------------------------------------------------------------
(* How much of the handshake message the first records hold. *)

\* The sums of the sizes up to each record.
Sums(records, f, n) ==
  f \in [0..n -> Nat] /\ \A i \in 0..n : f[i] = IF i = 0 THEN 0 ELSE f[i - 1] + records[i].size

\* There are such sums: one cannot be the first that is missing.
LEMMA SumsExist ==
  ASSUME NEW records, NEW n \in Nat, \A i \in 1..n : records[i].size \in Nat
  PROVE  \E f : Sums(records, f, n)
<1> DEFINE Missing == {k \in 0..n : ~\E f : Sums(records, f, k)}
<1> SUFFICES ASSUME Missing # {} PROVE FALSE OBVIOUS
<1>1. Missing \in SUBSET Nat OBVIOUS
<1>2. PICK k \in Missing : \A m \in Missing : k <= m BY <1>1, LeastExists
<1>3. k \in 0..n /\ k \in Nat OBVIOUS
<1>4. CASE k = 0
  <2>1. Sums(records, [i \in 0..0 |-> 0], 0) BY DEF Sums
  <2> QED BY <1>2, <1>4, <2>1
<1>5. CASE k # 0
  <2>1. k - 1 \in 0..n /\ k - 1 \notin Missing BY <1>2, <1>3, <1>5
  <2>2. PICK f : Sums(records, f, k - 1) BY <2>1
  <2> DEFINE g == [i \in 0..k |-> IF i = k THEN f[k - 1] + records[k].size ELSE f[i]]
  <2>3. records[k].size \in Nat /\ f[k - 1] \in Nat BY <1>3, <1>5, <2>2 DEF Sums
  <2>4. \A i \in 0..k : i # k => i \in 0..(k - 1) BY <1>3
  <2>5. g \in [0..k -> Nat] BY <2>2, <2>3, <2>4 DEF Sums
  <2>6. \A i \in 0..k : g[i] = IF i = 0 THEN 0 ELSE g[i - 1] + records[i].size
    <3> SUFFICES ASSUME NEW i \in 0..k PROVE g[i] = IF i = 0 THEN 0 ELSE g[i - 1] + records[i].size OBVIOUS
    <3>1. CASE i = k BY <1>3, <1>5, <3>1
    <3>2. CASE i # k BY <1>3, <1>5, <2>2, <2>4, <3>2 DEF Sums
    <3> QED BY <3>1, <3>2
  <2>7. Sums(records, g, k) BY <2>5, <2>6 DEF Sums
  <2> QED BY <1>2, <2>7
<1> QED BY <1>4, <1>5

\* Gathered adds up the sizes.
LEMMA GatheredAdds ==
  ASSUME NEW records, Len(records) \in Nat, \A i \in 1..Len(records) : records[i].size \in Nat
  PROVE  /\ Gathered(records, 0) = 0
         /\ \A i \in 0..Len(records) : Gathered(records, i) \in Nat
         /\ \A i \in 1..Len(records) : Gathered(records, i) = Gathered(records, i - 1) + records[i].size
<1> DEFINE N == 0..Len(records)
           F(f) == [i \in N |-> IF i = 0 THEN 0 ELSE f[i - 1] + records[i].size]
           sum == CHOOSE f : f = F(f)
<1>1. \E f : f = F(f)
  <2>1. PICK f : Sums(records, f, Len(records)) BY SumsExist
  <2>2. f = F(f) BY <2>1 DEF Sums
  <2> QED BY <2>2
<1>2. sum = F(sum) BY <1>1
<1>3. \A k : Gathered(records, k) = sum[k] BY DEF Gathered
<1> HIDE DEF sum
<1>4. sum[0] = 0 /\ \A i \in 1..Len(records) : sum[i] = sum[i - 1] + records[i].size BY <1>2
<1>5. \A i \in N : sum[i] \in Nat
  <2> DEFINE Odd == {i \in N : sum[i] \notin Nat}
  <2> SUFFICES ASSUME Odd # {} PROVE FALSE OBVIOUS
  <2>1. Odd \in SUBSET Nat OBVIOUS
  <2>2. PICK k \in Odd : \A m \in Odd : k <= m BY <2>1, LeastExists
  <2>3. k # 0 /\ k \in N BY <1>4, <2>2
  <2>4. k - 1 \in N /\ k - 1 \notin Odd BY <2>2, <2>3
  <2> QED BY <1>4, <2>2, <2>3, <2>4
<1> QED BY <1>3, <1>4, <1>5

\* The records of a greeting.
LEMMA GreetingFacts ==
  ASSUME NEW tls, IsGreeting(tls)
  PROVE  /\ Len(tls.records) \in Nat /\ DOMAIN tls.records = 1..Len(tls.records)
         /\ \A i \in 1..Len(tls.records) : tls.records[i].size \in Nat
         /\ tls.want \in Nat /\ tls.extensions \in Seq(Extensions)
<1>1. /\ tls.records \in Seq([type : {"handshake", "alert"}, size : Nat]) /\ tls.want \in Nat
      /\ tls.extensions \in Seq(Extensions)
  BY DEF IsGreeting
<1>2. /\ Len(tls.records) \in Nat /\ DOMAIN tls.records = 1..Len(tls.records)
      /\ \A i \in 1..Len(tls.records) : tls.records[i] \in [type : {"handshake", "alert"}, size : Nat]
  BY <1>1, LenProperties, ElementOfSeq
<1> QED BY <1>1, <1>2

\* What has arrived stays, and a record has begun before it is whole.
LEMMA ArrivalsStay ==
  ASSUME NEW tls, IsGreeting(tls), NEW a \in Nat, NEW b \in Nat, a <= b, NEW i \in Nat
  PROVE  /\ Begun(tls, a, i) => Begun(tls, b, i)
         /\ Whole(tls, a, i) => Whole(tls, b, i) /\ Begun(tls, a, i)
         /\ Bad(tls, a, i) => Bad(tls, b, i)
         /\ Over(tls, a, i) => Over(tls, b, i)
<1> DEFINE r == tls.records
<1>1. /\ Len(r) \in Nat /\ DOMAIN r = 1..Len(r)
      /\ \A k \in 0..Len(r) : Gathered(r, k) \in Nat
      /\ \A k \in 1..Len(r) : Gathered(r, k) = Gathered(r, k - 1) + r[k].size /\ r[k].size \in Nat
  BY GreetingFacts, GatheredAdds
<1> HIDE DEF r
<1> SUFFICES ASSUME i \in DOMAIN r PROVE /\ Begun(tls, a, i) => Begun(tls, b, i)
                                         /\ Whole(tls, a, i) => Whole(tls, b, i) /\ Begun(tls, a, i)
                                         /\ Bad(tls, a, i) => Bad(tls, b, i)
                                         /\ Over(tls, a, i) => Over(tls, b, i)
  BY DEF Begun, Whole, Bad, Over, r
<1>2. /\ Start(r, i) = Gathered(r, i - 1) + (i - 1) /\ Start(r, i + 1) = Gathered(r, i) + i
      /\ Start(r, i) \in Nat /\ Start(r, i + 1) \in Nat /\ Start(r, i) + 1 <= Start(r, i + 1)
  <2>1. i - 1 \in 0..Len(r) /\ i \in 0..Len(r) /\ i \in 1..Len(r) /\ i + 1 - 1 = i BY <1>1
  <2>2. Start(r, i + 1) = Gathered(r, i + 1 - 1) + (i + 1 - 1) BY DEF Start
  <2>3. Start(r, i + 1) = Gathered(r, i) + i BY <2>1, <2>2
  <2>4. Start(r, i) = Gathered(r, i - 1) + (i - 1) BY DEF Start
  <2>5. /\ Gathered(r, i) \in Nat /\ Gathered(r, i - 1) \in Nat
        /\ Gathered(r, i) = Gathered(r, i - 1) + r[i].size /\ r[i].size \in Nat BY <1>1, <2>1
  <2>6. \A g, z \in Nat : /\ g + (i - 1) \in Nat /\ (g + z) + i \in Nat
                          /\ g + (i - 1) + 1 <= (g + z) + i
    BY <2>1
  <2> QED BY <2>3, <2>4, <2>5, <2>6
<1>3. Begun(tls, a, i) => Begun(tls, b, i) BY <1>2 DEF Begun, r
<1>4. Whole(tls, a, i) => Whole(tls, b, i) /\ Begun(tls, a, i) BY <1>2 DEF Begun, Whole, r
<1> QED BY <1>3, <1>4 DEF Bad, Over

\* What has been read stays read, and what has been refused stays refused.
LEMMA ReadingStays ==
  ASSUME NEW tls, IsGreeting(tls), NEW a \in Nat, NEW b \in Nat, a <= b, NEW i \in Nat,
         ReadTo(tls, a, i)
  PROVE  ReadTo(tls, b, i)
<1> SUFFICES ASSUME NEW j \in 1..i
             PROVE  /\ Whole(tls, b, j) /\ ~Bad(tls, b, j) /\ ~Over(tls, b, j)
                    /\ j < i => Gathered(tls.records, j) < tls.want
  BY DEF ReadTo
<1>1. /\ Whole(tls, a, j) /\ ~Bad(tls, a, j) /\ ~Over(tls, a, j)
      /\ j < i => Gathered(tls.records, j) < tls.want
  BY DEF ReadTo
<1>2. j \in Nat OBVIOUS
<1>3. Whole(tls, b, j) /\ Begun(tls, a, j) BY <1>1, <1>2, ArrivalsStay
<1>4. ~Bad(tls, b, j) BY <1>1, <1>3 DEF Bad
<1>5. ~Over(tls, b, j) BY <1>1 DEF Over
<1> QED BY <1>1, <1>3, <1>4, <1>5

\* The records are read in order, up to one that is the last.
LEMMA LastReadIs ==
  ASSUME NEW tls, IsGreeting(tls), NEW a \in Nat
  PROVE  /\ LastRead(tls, a) \in 0..Len(tls.records)
         /\ ReadTo(tls, a, LastRead(tls, a)) /\ ~ReadTo(tls, a, LastRead(tls, a) + 1)
         /\ \A i \in 0..Len(tls.records) :
              ReadTo(tls, a, i) /\ ~ReadTo(tls, a, i + 1) => LastRead(tls, a) = i
<1> DEFINE n == Len(tls.records)
           Stops == {i \in 0..n : ~ReadTo(tls, a, i + 1)}
<1>1. n \in Nat /\ DOMAIN tls.records = 1..n BY GreetingFacts
<1> HIDE DEF n
<1>2. ~ReadTo(tls, a, n + 1)
  <2>1. ~Whole(tls, a, n + 1) BY <1>1 DEF Whole
  <2> QED BY <1>1, <2>1 DEF ReadTo
<1>3. n \in Stops /\ Stops \in SUBSET Nat BY <1>1, <1>2
<1>4. PICK l \in Stops : \A i \in Stops : l <= i BY <1>3, LeastExists
<1>5. ReadTo(tls, a, l)
  <2>1. CASE l = 0 BY <2>1 DEF ReadTo
  <2>2. CASE l # 0
    <3>1. l - 1 \in 0..n /\ l - 1 \notin Stops /\ l - 1 + 1 = l BY <1>1, <1>4, <2>2
    <3> QED BY <3>1
  <2> QED BY <2>1, <2>2
<1>6. \A i, j \in 0..n : i < j /\ ReadTo(tls, a, j) => ReadTo(tls, a, i + 1)
  <2> SUFFICES ASSUME NEW i \in 0..n, NEW j \in 0..n, i < j, ReadTo(tls, a, j), NEW k \in 1..(i + 1)
               PROVE  /\ Whole(tls, a, k) /\ ~Bad(tls, a, k) /\ ~Over(tls, a, k)
                      /\ k < i + 1 => Gathered(tls.records, k) < tls.want
    BY DEF ReadTo
  <2>1. k \in 1..j /\ (k < i + 1 => k < j) BY <1>1
  <2> QED BY <2>1 DEF ReadTo
<1>7. \A i, j \in 0..n : ReadTo(tls, a, i) /\ ~ReadTo(tls, a, i + 1) /\ ReadTo(tls, a, j) /\ ~ReadTo(tls, a, j + 1) => i = j
  BY <1>1, <1>6
<1>8. LastRead(tls, a) \in 0..n /\ ReadTo(tls, a, LastRead(tls, a)) /\ ~ReadTo(tls, a, LastRead(tls, a) + 1)
  BY <1>4, <1>5 DEF LastRead, n
<1> QED BY <1>7, <1>8 DEF n

\* A greeting tells its host once the message is complete, and its extensions tell it.
LEMMA GreetingTells ==
  ASSUME NEW tls, IsGreeting(tls), NEW a \in Nat
  PROVE  LET hs == Gathered(tls.records, LastRead(tls, a))
             tells == /\ hs >= tls.want /\ hs # 0 /\ tls.hello = "client"
                      /\ NameOf(tls.extensions).ok IN
         /\ SNIFromClientHello(tls, a).ok <=> tells
         /\ tells => SNIFromClientHello(tls, a) = NameOf(tls.extensions)
<1> DEFINE hs == Gathered(tls.records, LastRead(tls, a))
<1>1. hs \in Nat /\ tls.want \in Nat /\ tls.hello \in {"client", "other", "short"}
  BY LastReadIs, GatheredAdds, GreetingFacts DEF IsGreeting
<1>2. \A e : ~Err(e).ok BY DEF Err
<1>4. SNIFromClientHello(tls, a) =
        IF hs < tls.want /\ (Bad(tls, a, LastRead(tls, a) + 1) \/ Over(tls, a, LastRead(tls, a) + 1)) THEN Err("malformed")
        ELSE IF hs = 0 \/ (hs < tls.want /\ Begun(tls, a, LastRead(tls, a) + 1)) THEN Err("more")
        ELSE IF tls.hello = "other" THEN Err("malformed")
        ELSE IF hs < tls.want \/ tls.hello = "short" THEN Err("more")
        ELSE NameOf(tls.extensions)
  BY DEF SNIFromClientHello
<1> HIDE DEF hs
<1> DEFINE tells == /\ hs >= tls.want /\ hs # 0 /\ tls.hello = "client"
                    /\ NameOf(tls.extensions).ok
<1>5. tells => SNIFromClientHello(tls, a) = NameOf(tls.extensions) BY <1>1, <1>4
<1>6. ~tells => ~SNIFromClientHello(tls, a).ok
  <2>1. ~(hs >= tls.want) <=> hs < tls.want BY <1>1
  <2> HIDE DEF hs
  <2> QED BY <1>1, <1>2, <1>4, <2>1
<1> QED BY <1>5, <1>6 DEF hs

\* Reading ends where the message is complete, however much more has arrived.
LEMMA CompleteIsLast ==
  ASSUME NEW tls, IsGreeting(tls), NEW a \in Nat, NEW b \in Nat, a <= b,
         Gathered(tls.records, LastRead(tls, a)) >= tls.want, Gathered(tls.records, LastRead(tls, a)) # 0
  PROVE  LastRead(tls, b) = LastRead(tls, a)
<1> DEFINE l == LastRead(tls, a)
<1>1. l \in 0..Len(tls.records) /\ ReadTo(tls, a, l) /\ Len(tls.records) \in Nat /\ tls.want \in Nat
  BY LastReadIs, GreetingFacts
<1>2. l # 0 /\ Gathered(tls.records, l) \in Nat BY <1>1, GatheredAdds, GreetingFacts
<1> HIDE DEF l
<1>3. ReadTo(tls, b, l) BY <1>1, ReadingStays
<1>4. ~ReadTo(tls, b, l + 1)
  <2>1. l \in 1..(l + 1) /\ l < l + 1 /\ ~(Gathered(tls.records, l) < tls.want) BY <1>1, <1>2 DEF l
  <2> QED BY <2>1 DEF ReadTo
<1> QED BY <1>1, <1>3, <1>4, LastReadIs DEF l

\* A greeting that has told its host tells no other when more arrives.
LEMMA GreetingStays ==
  ASSUME NEW tls, IsGreeting(tls), NEW a \in Nat, NEW b \in Nat, a <= b,
         SNIFromClientHello(tls, a).ok
  PROVE  SNIFromClientHello(tls, b) = SNIFromClientHello(tls, a)
<1>1. LastRead(tls, b) = LastRead(tls, a) BY GreetingTells, CompleteIsLast
<1> QED BY <1>1, GreetingTells

\* A greeting that has been refused tells no host when more arrives.
LEMMA GreetingRefused ==
  ASSUME NEW tls, IsGreeting(tls), NEW a \in Nat, NEW b \in Nat, a <= b,
         ~SNIFromClientHello(tls, a).ok, SNIFromClientHello(tls, a).value # "more"
  PROVE  ~SNIFromClientHello(tls, b).ok
<1> DEFINE l == LastRead(tls, a)
           hs == Gathered(tls.records, l)
<1> SUFFICES ASSUME SNIFromClientHello(tls, b).ok PROVE FALSE OBVIOUS
<1>1. /\ Gathered(tls.records, LastRead(tls, b)) >= tls.want /\ tls.hello = "client"
      /\ NameOf(tls.extensions).ok
  BY GreetingTells
<1>2. l \in 0..Len(tls.records) /\ Len(tls.records) \in Nat /\ hs \in Nat /\ tls.want \in Nat
  BY LastReadIs, GatheredAdds, GreetingFacts
<1>3. ~(hs >= tls.want /\ hs # 0) BY <1>1, GreetingTells
<1>4. SNIFromClientHello(tls, a) # Err("more") BY DEF Err
<1>5. hs < tls.want /\ (Bad(tls, a, l + 1) \/ Over(tls, a, l + 1))
  BY <1>1, <1>2, <1>3, <1>4 DEF SNIFromClientHello
<1> HIDE DEF l
<1>6. Bad(tls, b, l + 1) \/ Over(tls, b, l + 1) BY <1>2, <1>5, ArrivalsStay
<1>7. ~ReadTo(tls, b, l + 1)
  <2>1. l + 1 \in 1..(l + 1) BY <1>2
  <2> QED BY <1>6, <2>1 DEF ReadTo
<1>8. ReadTo(tls, b, l) BY <1>2, LastReadIs, ReadingStays DEF l
<1>9. LastRead(tls, b) = l BY <1>2, <1>7, <1>8, LastReadIs
<1> QED BY <1>1, <1>2, <1>5, <1>9

-----------------------------------------------------------------------------
(* The header of a request. *)

\* The beginning of a sequence.
LEMMA PrefixIs ==
  ASSUME NEW S, NEW s \in Seq(S), NEW n \in 0..Len(s)
  PROVE  /\ SubSeq(s, 1, n) \in Seq(S) /\ Len(SubSeq(s, 1, n)) = n /\ DOMAIN SubSeq(s, 1, n) = 1..n
         /\ \A i \in 1..n : SubSeq(s, 1, n)[i] = s[i]
<1>1. Len(s) \in Nat /\ n \in Nat BY LenProperties
<1>2. \A i \in 1..n : s[i] \in S BY <1>1, ElementOfSeq
<1>3. /\ SubSeq(s, 1, n) \in Seq(S) /\ Len(SubSeq(s, 1, n)) = IF 1 <= n THEN n - 1 + 1 ELSE 0
      /\ \A i \in 1..(n - 1 + 1) : SubSeq(s, 1, n)[i] = s[1 + i - 1]
  BY <1>1, <1>2, SubSeqProperties
<1>4. SubSeq(s, 1, n) \in Seq(S) /\ Len(SubSeq(s, 1, n)) = n BY <1>1, <1>3
<1>5. \A i \in 1..n : SubSeq(s, 1, n)[i] = s[i] BY <1>1, <1>3
<1> QED BY <1>4, <1>5, LenProperties

\* The header ends at the first line that says so.
LEMMA HeaderEndIs ==
  ASSUME NEW lines \in Seq(Lines)
  PROVE  /\ HeaderEnd(lines) \in 0..Len(lines)
         /\ HeaderEnd(lines) = 0 => \A i \in 1..Len(lines) : lines[i].is # "end"
         /\ HeaderEnd(lines) # 0 => /\ lines[HeaderEnd(lines)].is = "end"
                                    /\ \A i \in 1..Len(lines) : lines[i].is = "end" => HeaderEnd(lines) <= i
<1> DEFINE ends == {i \in DOMAIN lines : lines[i].is = "end"}
<1>1. Len(lines) \in Nat /\ DOMAIN lines = 1..Len(lines) BY LenProperties
<1>2. HeaderEnd(lines) = IF ends = {} THEN 0 ELSE CHOOSE i \in ends : \A j \in ends : i <= j BY DEF HeaderEnd
<1>3. CASE ends = {} BY <1>1, <1>2, <1>3
<1>4. CASE ends # {}
  <2>1. ends \in SUBSET Nat BY <1>1
  <2>2. \E i \in ends : \A j \in ends : i <= j BY <1>4, <2>1, LeastExists
  <2>3. HeaderEnd(lines) \in ends /\ \A j \in ends : HeaderEnd(lines) <= j BY <1>2, <1>4, <2>2
  <2> QED BY <1>1, <2>3
<1> QED BY <1>3, <1>4

\* A header that has ended is the same header when more arrives.
LEMMA HeaderStays ==
  ASSUME NEW lines \in Seq(Lines), NEW a \in Nat, NEW b \in 0..Len(lines), a <= b,
         HeaderEnd(SubSeq(lines, 1, a)) # 0
  PROVE  LET e == HeaderEnd(SubSeq(lines, 1, a)) IN
         /\ e \in 1..a /\ HeaderEnd(SubSeq(lines, 1, b)) = e
         /\ SubSeq(SubSeq(lines, 1, a), 1, e) = SubSeq(lines, 1, e)
         /\ SubSeq(SubSeq(lines, 1, b), 1, e) = SubSeq(lines, 1, e)
<1> DEFINE A == SubSeq(lines, 1, a)
           B == SubSeq(lines, 1, b)
           e == HeaderEnd(A)
<1>1. Len(lines) \in Nat /\ a \in 0..Len(lines) BY LenProperties
<1>2. A \in Seq(Lines) /\ Len(A) = a /\ \A i \in 1..a : A[i] = lines[i] BY <1>1, PrefixIs
<1>3. B \in Seq(Lines) /\ Len(B) = b /\ \A i \in 1..b : B[i] = lines[i] BY <1>1, PrefixIs
<1> HIDE DEF A, B
<1>4. e \in 1..a /\ A[e].is = "end" /\ \A i \in 1..a : A[i].is = "end" => e <= i
  <2>1. HeaderEnd(A) # 0 BY DEF A
  <2>2. /\ HeaderEnd(A) \in 0..a /\ A[HeaderEnd(A)].is = "end"
        /\ \A i \in 1..a : A[i].is = "end" => HeaderEnd(A) <= i
    BY <1>2, <2>1, HeaderEndIs
  <2> QED BY <2>1, <2>2
<1> HIDE DEF e
<1>5. e \in 1..b /\ B[e].is = "end" /\ \A i \in 1..b : B[i].is = "end" => e <= i
  <2>1. \A i \in 1..b : i \in 1..a \/ i > a BY <1>1
  <2> QED BY <1>1, <1>2, <1>3, <1>4, <2>1
<1>6. HeaderEnd(B) = e
  <2>1. HeaderEnd(B) # 0 BY <1>3, <1>5, HeaderEndIs
  <2>2. HeaderEnd(B) \in 1..b /\ B[HeaderEnd(B)].is = "end" /\ HeaderEnd(B) <= e
    BY <1>1, <1>3, <1>5, <2>1, HeaderEndIs
  <2> QED BY <1>5, <2>2
<1>7. e \in 0..Len(lines) /\ e \in 0..Len(A) /\ e \in 0..Len(B) BY <1>1, <1>2, <1>3, <1>4, <1>5
<1>8. ASSUME NEW s \in Seq(Lines), e \in 0..Len(s), \A i \in 1..e : s[i] = lines[i]
      PROVE  SubSeq(s, 1, e) = SubSeq(lines, 1, e)
  <2>1. /\ SubSeq(s, 1, e) \in Seq(Lines) /\ Len(SubSeq(s, 1, e)) = e
        /\ \A i \in 1..e : SubSeq(s, 1, e)[i] = s[i]
    BY <1>8, PrefixIs
  <2>2. /\ SubSeq(lines, 1, e) \in Seq(Lines) /\ Len(SubSeq(lines, 1, e)) = e
        /\ \A i \in 1..e : SubSeq(lines, 1, e)[i] = lines[i]
    BY <1>7, PrefixIs
  <2> QED BY <1>8, <2>1, <2>2, SeqEqual
<1>9. (\A i \in 1..e : A[i] = lines[i]) /\ (\A i \in 1..e : B[i] = lines[i]) BY <1>1, <1>2, <1>3, <1>4, <1>5
<1> QED BY <1>2, <1>3, <1>4, <1>6, <1>7, <1>8, <1>9 DEF A, B, e

-----------------------------------------------------------------------------
(* Both kinds of stream. *)

\* The length of a stream is a number, and of a request the number of its lines.
LEMMA LengthIs ==
  ASSUME NEW s, IsStream(s)
  PROVE  Length(s) \in Nat /\ (s.kind # "https" => s.lines \in Seq(Lines) /\ Length(s) = Len(s.lines))
<1>1. CASE s.kind = "https"
  <2> DEFINE r == s.tls.records
  <2>1. IsGreeting(s.tls) BY <1>1 DEF IsStream
  <2>2. Len(r) \in Nat /\ Gathered(r, Len(r)) \in Nat BY <2>1, GreetingFacts, GatheredAdds
  <2>3. Length(s) = Gathered(r, Len(r) + 1 - 1) + (Len(r) + 1 - 1) BY <1>1 DEF Length, Start
  <2>4. Len(r) + 1 - 1 = Len(r) BY <2>2
  <2> QED BY <1>1, <2>2, <2>3, <2>4
<1>2. CASE s.kind # "https"
  <2>1. s.lines \in Seq(Lines) BY <1>2 DEF IsStream, IsRequest
  <2> QED BY <1>2, <2>1, LenProperties DEF Length
<1> QED BY <1>1, <1>2

\* What a stream has told it does not take back, and what was refused stays so.
LEMMA ToldOnce ==
  ASSUME NEW s, IsStream(s), NEW a \in Nat, NEW b \in Nat, a <= b, b <= Length(s),
         name(s, a).ok \/ name(s, a).value # "more"
  PROVE  /\ name(s, a).ok => name(s, b) = name(s, a)
         /\ ~name(s, a).ok => ~name(s, b).ok
<1>1. CASE s.kind = "https"
  <2>1. IsGreeting(s.tls) BY <1>1 DEF IsStream
  <2>2. name(s, a) = SNIFromClientHello(s.tls, a) /\ name(s, b) = SNIFromClientHello(s.tls, b) BY <1>1 DEF name
  <2> QED BY <2>1, <2>2, GreetingStays, GreetingRefused
<1>2. CASE s.kind # "https"
  <2> DEFINE A == SubSeq(s.lines, 1, a)
             B == SubSeq(s.lines, 1, b)
  <2>1. s.lines \in Seq(Lines) /\ b \in 0..Len(s.lines) BY <1>2, LengthIs
  <2>2. /\ name(s, a) = IF HeaderEnd(A) = 0 THEN Err("more") ELSE HostFromRequest(SubSeq(A, 1, HeaderEnd(A)))
        /\ name(s, b) = IF HeaderEnd(B) = 0 THEN Err("more") ELSE HostFromRequest(SubSeq(B, 1, HeaderEnd(B)))
    BY <1>2 DEF name
  <2>3. HeaderEnd(A) # 0 BY <2>2 DEF Err
  <2>4. /\ HeaderEnd(A) \in 1..a /\ HeaderEnd(B) = HeaderEnd(A)
        /\ SubSeq(A, 1, HeaderEnd(A)) = SubSeq(B, 1, HeaderEnd(A))
    BY <2>1, <2>3, HeaderStays
  <2> HIDE DEF A, B
  <2>5. HeaderEnd(B) # 0 BY <2>4
  <2>6. name(s, b) = name(s, a) BY <2>2, <2>3, <2>4, <2>5
  <2> QED BY <2>6
<1> QED BY <1>1, <1>2

-----------------------------------------------------------------------------
(* Names and what is said of them. *)

\* Two labels before the suffix: a name with the suffix at its end.
LEMMA ProbeNameIs ==
  ASSUME NEW d \in STRING
  PROVE  IsProbe(ProbeName(d)) /\ ProbeName(d)[1] = d
<1> DEFINE p == <<d, ProbeLabel>>
           n == p \o Suffix
           k == Len(Suffix)
           S == STRING \cup {ProbeLabel}
<1>1. p \in Seq(S) /\ Len(p) = 2 /\ p[1] = d /\ p[2] = ProbeLabel
  <2>1. d \in S /\ ProbeLabel \in S OBVIOUS
  <2> QED BY <2>1, PairIs
<1>2. Suffix \in Seq(S) /\ k \in Nat
  <2>1. Suffix \in [1..k -> STRING] /\ k \in Nat BY NamesAssumption, LenProperties
  <2>2. Suffix \in [1..k -> S] BY <2>1
  <2> QED BY <2>1, <2>2, SeqDef
<1> HIDE DEF p, S
<1>3. /\ n \in Seq(S) /\ Len(n) = 2 + k
      /\ \A i \in 1..(2 + k) : n[i] = IF i <= 2 THEN p[i] ELSE Suffix[i - 2]
  <2>1. /\ p \o Suffix \in Seq(S) /\ Len(p \o Suffix) = Len(p) + Len(Suffix)
        /\ \A i \in 1..(Len(p) + Len(Suffix)) : (p \o Suffix)[i] = IF i <= Len(p) THEN p[i] ELSE Suffix[i - Len(p)]
    BY <1>1, <1>2, ConcatProperties
  <2> QED BY <1>1, <2>1
<1> HIDE DEF n, k
<1>4. 1 \in 1..(2 + k) /\ 2 \in 1..(2 + k) /\ k <= 2 + k BY <1>2
<1>5. n[1] = d /\ n[2] = ProbeLabel
  <2>1. n[1] = p[1] /\ n[2] = p[2] BY <1>3, <1>4
  <2> QED BY <1>1, <2>1
<1>6. \A i \in 1..k : Suffix[i] = n[Len(n) - k + i]
  <2> SUFFICES ASSUME NEW i \in 1..k PROVE Suffix[i] = n[Len(n) - k + i] OBVIOUS
  <2>1. Len(n) - k + i = i + 2 /\ i + 2 \in 1..(2 + k) /\ ~(i + 2 <= 2) /\ i + 2 - 2 = i BY <1>2, <1>3
  <2> QED BY <1>3, <2>1
<1>7. IsSuffix(Suffix, n) BY <1>2, <1>3, <1>4, <1>6, SuffixMeans DEF k
<1>8. Len(n) = k + 2 BY <1>2, <1>3
<1> QED BY <1>5, <1>7, <1>8 DEF IsProbe, InSuffix, ProbeName, n, k, p

\* The responder says one of six things ...
LEMMA RespondIs ==
  ASSUME NEW q
  PROVE  Respond(q) \in {"loopback", "empty", "refused", "nameError", "formatError", "dropped"}
BY DEF Respond, AnswerTo

\* ... and to a run's own query one that makes it note the label.
LEMMA ProbeIsServed ==
  ASSUME NEW d \in STRING, NEW t \in {"A", "AAAA"}
  PROVE  LET q == [kind |-> "query", questions |-> <<[name |-> ProbeName(d), type |-> t]>>] IN
         /\ Respond(q) \in {"loopback", "empty"} /\ IsProbe(q.questions[1].name)
         /\ q.questions[1].name[1] = d
<1> DEFINE q == [kind |-> "query", questions |-> <<[name |-> ProbeName(d), type |-> t]>>]
<1>1. q.kind = "query" /\ Len(q.questions) = 1 /\ q.questions[1].name = ProbeName(d) OBVIOUS
<1>2. Respond(q) = AnswerTo(ProbeName(d), q.questions[1].type) BY <1>1 DEF Respond
<1>3. IsProbe(ProbeName(d)) /\ InSuffix(ProbeName(d)) /\ ProbeName(d)[1] = d BY ProbeNameIs DEF IsProbe
<1>4. Respond(q) \in {"loopback", "empty"} BY <1>2, <1>3 DEF AnswerTo
<1> QED BY <1>1, <1>3, <1>4

\* What a client asks, when it is answered: one name.
LEMMA AnsweredQuestion ==
  ASSUME NEW q \in Lookups, Respond(q) \in {"loopback", "empty"}
  PROVE  /\ q.questions[1].name \in Seq(STRING)
         /\ \A i \in 1..Len(q.questions[1].name) : q.questions[1].name[i] \in STRING \ Doctors
<1>1. /\ q \in [kind : STRING, questions : Seq([name : Seq(STRING), type : STRING])]
      /\ \A i \in DOMAIN q.questions : ToSet(q.questions[i].name) \cap Doctors = {}
  BY ClientsAssumption
<1>2. Len(q.questions) = 1 BY DEF Respond
<1>3. q.questions \in Seq([name : Seq(STRING), type : STRING]) BY <1>1
<1>4. 1 \in DOMAIN q.questions /\ q.questions[1] \in [name : Seq(STRING), type : STRING]
  <2>1. 1 \in 1..Len(q.questions) BY <1>2
  <2> QED BY <1>3, <2>1, LenProperties, ElementOfSeq
<1> DEFINE n == q.questions[1].name
<1>5. n \in Seq(STRING) /\ ToSet(n) \cap Doctors = {} BY <1>1, <1>4
<1> HIDE DEF n
<1>6. \A i \in 1..Len(n) : n[i] \in STRING /\ n[i] \in ToSet(n) BY <1>5, ElementOfSeq, LenProperties DEF ToSet
<1> QED BY <1>5, <1>6 DEF n

\* Four lines, and two records.
LEMMA PlainIsStream ==
  ASSUME NEW kind \in {"http", "https"}, NEW h \in Hosts
  PROVE  IsStream(Plain(kind, h))
<1>1. CASE kind = "http"
  <2> DEFINE l == <<[is |-> "target", host |-> None], [is |-> "other", host |-> None],
                    [is |-> "host", host |-> h], [is |-> "end", host |-> None]>>
  <2>1. Plain(kind, h) = [kind |-> "http", lines |-> l] BY <1>1 DEF Plain
  <2>2. l \in [1..4 -> Lines]
    <3>1. \A x \in {"target", "other", "end"} : [is |-> x, host |-> None] \in Lines BY DEF Lines
    <3>2. [is |-> "host", host |-> h] \in Lines BY DEF Lines
    <3> QED BY <3>1, <3>2
  <2>3. l \in Seq(Lines) BY <2>2, SeqDef
  <2>4. \A i \in DOMAIN l : /\ l[i].is = "target" => i = 1
                            /\ l[i].is = "host" => l[i].host # None
    BY EdgeAssumption
  <2> HIDE DEF l
  <2> QED BY <2>1, <2>3, <2>4 DEF IsStream, IsRequest
<1>2. CASE kind = "https"
  <2> DEFINE r == <<[type |-> "handshake", size |-> 1], [type |-> "handshake", size |-> 1]>>
             n == <<h>>
             e == <<[is |-> "serverName", names |-> n]>>
  <2>1. Plain(kind, h) = [kind |-> "https", tls |-> [records |-> r, want |-> 2, hello |-> "client", extensions |-> e]]
    BY <1>2 DEF Plain
  <2>2. r \in Seq([type : {"handshake", "alert"}, size : Nat])
    <3>1. [type |-> "handshake", size |-> 1] \in [type : {"handshake", "alert"}, size : Nat] OBVIOUS
    <3> QED BY <3>1, PairIs
  <2>3. n \in [1..1 -> Hosts] OBVIOUS
  <2>4. n \in Seq(Hosts) BY <2>3, SeqDef
  <2> HIDE DEF n
  <2>5. [is |-> "serverName", names |-> n] \in Extensions BY <2>4 DEF Extensions
  <2>6. e \in [1..1 -> Extensions] BY <2>5
  <2>7. e \in Seq(Extensions) BY <2>6, SeqDef
  <2> HIDE DEF r, e
  <2>8. IsGreeting([records |-> r, want |-> 2, hello |-> "client", extensions |-> e]) BY <2>2, <2>7 DEF IsGreeting
  <2> QED BY <2>1, <2>8 DEF IsStream
<1> QED BY <1>1, <1>2

-----------------------------------------------------------------------------
(* Types, and what the probes and the answers keep. *)

\* A connection may be for a name only if its client was told of the name.
Asked ==
  \A c \in Conns : answer[c] = "loopback" => looked[c] \in Lookups /\ Respond(looked[c]) = "loopback"

\* A label is in the latch only on its run's behalf, and if it is no longer
\* there while the run waits then it was dropped.
Latched ==
  \A d \in Doctors :
    /\ doctor[d] = "idle" => d \notin probes /\ d \notin reached
    /\ doctor[d] = "asking" /\ d \in probes => d \in reached
    /\ doctor[d] = "asking" /\ d \in reached /\ d \notin forgotten => d \in probes

Base == TypeOK /\ Asked /\ Latched /\ ProbeTellsTheTruth

\* At the start nobody has asked, and nothing has arrived.
LEMMA BaseInit == Init => Base
<1> SUFFICES ASSUME Init PROVE Base OBVIOUS
<1>1. IsFiniteSet({}) /\ Cardinality({}) = 0 BY FS_EmptySet
<1>2. TypeOK BY <1>1, EdgeAssumption DEF Init, TypeOK
<1>3. Asked BY EdgeAssumption DEF Init, Asked
<1>4. Latched BY DEF Init, Latched
<1>5. ProbeTellsTheTruth BY <1>1, EdgeAssumption DEF Init, ProbeTellsTheTruth
<1> QED BY <1>2, <1>3, <1>4, <1>5 DEF Base

\* One more label: the latch stays finite and within its limit.
LEMMA LatchIsBounded ==
  ASSUME IsFiniteSet(probes), Cardinality(probes) <= MaxProbes + 1, NEW label, noteProbe(label)
  PROVE  IsFiniteSet(probes') /\ Cardinality(probes') <= MaxProbes + 1
<1> DEFINE kept == IF Cardinality(probes) > MaxProbes THEN {} ELSE probes
<1>1. probes' = kept \cup {label} BY DEF noteProbe
<1>2. Cardinality(probes) \in Nat /\ MaxProbes \in Nat BY FS_CardinalityType, EdgeAssumption
<1>3. IsFiniteSet(kept) /\ Cardinality(kept) <= MaxProbes
  <2>1. IsFiniteSet({}) /\ Cardinality({}) = 0 BY FS_EmptySet
  <2>2. CASE Cardinality(probes) > MaxProbes
    <3>1. kept = {} BY <2>2
    <3> QED BY <1>2, <2>1, <3>1
  <2>3. CASE ~(Cardinality(probes) > MaxProbes)
    <3>1. kept = probes BY <2>3
    <3> QED BY <1>2, <2>3, <3>1
  <2> QED BY <2>2, <2>3
<1> HIDE DEF kept
<1>4. /\ IsFiniteSet(kept \cup {label}) /\ Cardinality(kept) \in Nat
      /\ Cardinality(kept \cup {label}) = IF label \in kept THEN Cardinality(kept) ELSE Cardinality(kept) + 1
  BY <1>3, FS_AddElement, FS_CardinalityType
<1>5. Cardinality(kept \cup {label}) <= MaxProbes + 1 BY <1>2, <1>3, <1>4
<1> QED BY <1>1, <1>4, <1>5

\* What is served to one who is no run leaves what runs rely on alone.
LEMMA OthersAreServed ==
  ASSUME Base, NEW q \in Lookups, Serve(q), UNCHANGED <<doctor, reached>>
  PROVE  /\ Latched' /\ ProbeTellsTheTruth' /\ probes' \subseteq STRING /\ IsFiniteSet(probes')
         /\ forgotten' \subseteq STRING
<1> DEFINE n == q.questions[1].name
<1> USE DEF Base
<1>1. CASE UNCHANGED <<probes, forgotten>>
  BY <1>1 DEF TypeOK, Latched, ProbeTellsTheTruth
<1>2. CASE Respond(q) \in {"loopback", "empty"} /\ IsProbe(n) /\ noteProbe(n[1])
  <2>1. n \in Seq(STRING) /\ \A i \in 1..Len(n) : n[i] \in STRING \ Doctors BY <1>2, AnsweredQuestion
  <2>2. 1 \in 1..Len(n)
    <3>1. Len(n) = Len(Suffix) + 2 /\ Len(Suffix) \in Nat BY <1>2, NamesAssumption, LenProperties DEF IsProbe
    <3> QED BY <3>1
  <2>3. n[1] \in STRING /\ n[1] \notin Doctors BY <2>1, <2>2
  <2> HIDE DEF n
  <2>4. IsFiniteSet(probes') /\ Cardinality(probes') <= MaxProbes + 1
    BY <1>2, LatchIsBounded DEF TypeOK, ProbeTellsTheTruth
  <2>5. /\ probes' \subseteq probes \cup {n[1]} /\ probes \ probes' \subseteq forgotten'
        /\ forgotten \subseteq forgotten' /\ forgotten' \subseteq forgotten \cup probes
    BY <1>2, <2>3 DEF noteProbe
  <2>6. Latched' BY <2>3, <2>5 DEF Latched
  <2>7. ProbeTellsTheTruth' BY <2>4, <2>5 DEF ProbeTellsTheTruth
  <2> QED BY <2>3, <2>4, <2>5, <2>6, <2>7 DEF TypeOK
<1> QED BY <1>1, <1>2 DEF Serve

\* The run's own query does what the run relies on.
LEMMA RunsAreServed ==
  ASSUME Base, NEW d \in Doctors, ProbeArrives(d)
  PROVE  /\ Latched' /\ ProbeTellsTheTruth' /\ probes' \subseteq STRING /\ IsFiniteSet(probes')
         /\ forgotten' \subseteq STRING /\ reached' \subseteq Doctors
<1> USE DEF Base
<1>1. d \in STRING BY EdgeAssumption
<1>2. noteProbe(d)
  <2>1. PICK t \in {"A", "AAAA"} : Serve([kind |-> "query", questions |-> <<[name |-> ProbeName(d), type |-> t]>>])
    BY DEF ProbeArrives
  <2> QED BY <1>1, <2>1, ProbeIsServed DEF Serve
<1>3. /\ reached' = IF doctor[d] = "asking" THEN reached \cup {d} ELSE reached
      /\ doctor' = doctor /\ doctor[d] # "idle"
  BY DEF ProbeArrives
<1>4. IsFiniteSet(probes') /\ Cardinality(probes') <= MaxProbes + 1
  BY <1>2, LatchIsBounded DEF TypeOK, ProbeTellsTheTruth
<1>5. /\ d \in probes' /\ probes' \subseteq probes \cup {d}
      /\ \A e \in Doctors : e # d => /\ e \in probes /\ e \notin probes' => e \in forgotten'
                                     /\ e \in forgotten => e \in forgotten'
      /\ doctor[d] # "asking" /\ d \in forgotten => d \in forgotten'
      /\ forgotten' \subseteq forgotten \cup probes
  BY <1>2 DEF noteProbe
<1>6. Latched' BY <1>3, <1>5 DEF Latched
<1>7. ProbeTellsTheTruth' BY <1>3, <1>4, <1>5 DEF ProbeTellsTheTruth
<1> QED BY <1>1, <1>3, <1>4, <1>5, <1>6, <1>7 DEF TypeOK

\* The verdict is what the latch says, and the latch is right.
LEMMA VerdictIsTrue ==
  ASSUME Base, NEW d \in Doctors, SawProbe(d)
  PROVE  Latched' /\ ProbeTellsTheTruth' /\ probes' \subseteq STRING /\ IsFiniteSet(probes')
<1> USE DEF Base
<1>1. IsFiniteSet(probes') /\ Cardinality(probes') <= MaxProbes + 1
  <2>1. IsFiniteSet(probes \ {d}) /\ Cardinality(probes \ {d}) \in Nat /\ Cardinality(probes) \in Nat
        /\ Cardinality(probes \ {d}) <= Cardinality(probes)
    <3>1. probes \ {d} \subseteq probes OBVIOUS
    <3>2. IsFiniteSet(probes) BY DEF TypeOK
    <3> QED BY <3>1, <3>2, FS_Subset, FS_CardinalityType
  <2>2. Cardinality(probes \ {d}) <= MaxProbes + 1 BY <2>1, EdgeAssumption DEF ProbeTellsTheTruth
  <2> QED BY <2>1, <2>2 DEF SawProbe
<1>2. doctor \in [Doctors -> {"idle", "asking", "reached", "missed"}] BY DEF TypeOK
<1>3. Latched' BY <1>2 DEF Latched, SawProbe
<1>4. ProbeTellsTheTruth' BY <1>1, <1>2 DEF Latched, ProbeTellsTheTruth, SawProbe
<1> QED BY <1>1, <1>3, <1>4 DEF TypeOK, SawProbe

-----------------------------------------------------------------------------
(* Every action keeps the types and what the probes and the answers keep.  *)

\* A server that a host is routed to is one the zone manages.
LEMMA RouteIsManaged ==
  ASSUME NEW h, Route(h).ok
  PROVE  Route(h).value.server \in Managed
<1>1. \A e : ~Err(e).ok BY DEF Err
<1> QED BY <1>1 DEF Route, Ok, Manages

\* A lookup is answered for this connection alone.
LEMMA LookupKeepsBase ==
  ASSUME Base, NEW c \in Conns, Lookup(c)
  PROVE  Base'
<1> USE DEF Base
<1>1. PICK q \in Lookups : /\ looked' = [looked EXCEPT ![c] = q]
                           /\ answer' = [answer EXCEPT ![c] = Respond(q)]
                           /\ Serve(q)
  BY DEF Lookup
<1>2. UNCHANGED <<stream, honest, arrived, state, server, reached, doctor, arrivals>> BY DEF Lookup
<1>3. /\ Latched' /\ ProbeTellsTheTruth' /\ probes' \subseteq STRING /\ IsFiniteSet(probes')
      /\ forgotten' \subseteq STRING
  BY <1>1, <1>2, OthersAreServed
<1>4. Asked' BY <1>1 DEF Asked, TypeOK
<1>5. TypeOK' BY <1>1, <1>2, <1>3, RespondIs DEF TypeOK
<1> QED BY <1>3, <1>4, <1>5

\* A client that was told of a name sends a plain request for it.
LEMMA PlainIsAsked ==
  ASSUME Base, NEW c \in Conns, answer[c] = "loopback", NEW w \in Written
  PROVE  /\ AskedName(c) \in Seq(STRING) /\ [w EXCEPT !.labels = AskedName(c)] \in Hosts
         /\ [w EXCEPT !.labels = AskedName(c)].labels = AskedName(c)
         /\ [w EXCEPT !.labels = AskedName(c)].form = "name" /\ [w EXCEPT !.labels = AskedName(c)].port # "junk"
<1>1. looked[c] \in Lookups /\ Respond(looked[c]) = "loopback" BY DEF Base, Asked
<1>2. AskedName(c) \in Seq(STRING) BY <1>1, AnsweredQuestion DEF AskedName
<1>3. w \in Hosts /\ w.form = "name" /\ w.port # "junk" BY ClientsAssumption
<1> QED BY <1>2, <1>3 DEF Hosts

\* A connection that begins sends a stream.
LEMMA ConnectKeepsBase ==
  ASSUME Base, NEW c \in Conns, Connect(c) \/ ConnectUnasked(c)
  PROVE  Base'
<1> USE DEF Base
<1>1. /\ state' = [state EXCEPT ![c] = "peeking"]
      /\ honest' = honest \/ honest' = [honest EXCEPT ![c] = TRUE]
      /\ \E s : IsStream(s) /\ stream' = [stream EXCEPT ![c] = s]
  <2>1. CASE Connect(c)
    <3>1. PICK kind \in {"http", "https"}, w \in Written :
            stream' = [stream EXCEPT ![c] = Plain(kind, [w EXCEPT !.labels = AskedName(c)])]
      BY <2>1 DEF Connect
    <3>2. IsStream(Plain(kind, [w EXCEPT !.labels = AskedName(c)])) BY <2>1, PlainIsAsked, PlainIsStream DEF Connect
    <3> QED BY <2>1, <3>1, <3>2 DEF Connect
  <2>2. CASE ConnectUnasked(c)
    <3>1. PICK s \in Streams : stream' = [stream EXCEPT ![c] = s] BY <2>2 DEF ConnectUnasked
    <3>2. IsStream(s) BY ClientsAssumption
    <3> QED BY <2>2, <3>1, <3>2 DEF ConnectUnasked
  <2> QED BY <2>1, <2>2
<1>2. PICK s : IsStream(s) /\ stream' = [stream EXCEPT ![c] = s] BY <1>1
<1>3. UNCHANGED <<looked, answer, arrived, server, latch, doctor, arrivals>> BY DEF Connect, ConnectUnasked
<1>4. Asked' /\ Latched' /\ ProbeTellsTheTruth' BY <1>3 DEF Asked, Latched, ProbeTellsTheTruth, latch
<1>5. DOMAIN stream' = Conns /\ \A d \in Conns : state'[d] # "idle" => IsStream(stream'[d])
  BY <1>1, <1>2 DEF TypeOK
<1>6. TypeOK' BY <1>1, <1>3, <1>5 DEF TypeOK, latch
<1> QED BY <1>4, <1>6

\* What is decided of a connection is about that connection.
LEMMA PeekKeepsBase ==
  ASSUME Base, NEW c \in Conns, Peek(c) \/ PeekEnds(c)
  PROVE  Base'
<1> USE DEF Base
<1>1. UNCHANGED <<looked, answer, stream, honest, latch, doctor, arrivals>> BY DEF Peek, PeekEnds
<1>2. Asked' /\ Latched' /\ ProbeTellsTheTruth' BY <1>1 DEF Asked, Latched, ProbeTellsTheTruth, latch
<1>3. /\ state[c] = "peeking"
      /\ state' \in [Conns -> {"idle", "peeking", "routed", "refused", "tooLong", "gone"}]
      /\ \A d \in Conns : state'[d] # "idle" => state[d] # "idle"
      /\ arrived' \in [Conns -> Nat] /\ server' \in [Conns -> Managed \cup {None}]
  <2>1. CASE PeekEnds(c) BY <2>1 DEF PeekEnds, TypeOK
  <2>2. CASE Peek(c)
    <3>1. PICK n \in 1..Chunk :
            /\ arrived' = [arrived EXCEPT ![c] = @ + n]
            /\ LET said == name(stream[c], arrived[c] + n)
                   to == Route(said.value)
                   limit == arrived[c] + n >= MaxHeaderBytes IN
               \/ /\ ~said.ok /\ said.value = "more" /\ UNCHANGED server
                  /\ state' = [state EXCEPT ![c] = IF limit THEN "tooLong" ELSE @]
               \/ /\ ~said.ok /\ said.value # "more" /\ UNCHANGED server
                  /\ state' = [state EXCEPT ![c] = "refused"]
               \/ /\ said.ok /\ ~to.ok /\ UNCHANGED server
                  /\ state' = [state EXCEPT ![c] = "refused"]
               \/ /\ said.ok /\ to.ok /\ state' = [state EXCEPT ![c] = "routed"]
                  /\ server' = [server EXCEPT ![c] = to.value.server]
      BY <2>2 DEF Peek
    <3> DEFINE to == Route(name(stream[c], arrived[c] + n).value)
    <3>2. state[c] = "peeking" BY <2>2 DEF Peek
    <3>3. arrived' \in [Conns -> Nat] BY <3>1, EdgeAssumption DEF TypeOK
    <3>4. to.ok => to.value.server \in Managed BY RouteIsManaged
    <3> HIDE DEF to
    <3>5. server' = server \/ (to.ok /\ server' = [server EXCEPT ![c] = to.value.server]) BY <3>1 DEF to
    <3>6. server' \in [Conns -> Managed \cup {None}] BY <3>4, <3>5 DEF TypeOK
    <3>7. \E v \in {"peeking", "tooLong", "refused", "routed"} : state' = [state EXCEPT ![c] = v]
      BY <3>1, <3>2
    <3> QED BY <3>2, <3>3, <3>6, <3>7 DEF TypeOK
  <2> QED BY <2>1, <2>2
<1>4. TypeOK' BY <1>1, <1>3 DEF TypeOK, latch
<1> QED BY <1>2, <1>4

\* The step as a whole.
LEMMA BaseStep == Base /\ [Next]_vars => Base'
<1> SUFFICES ASSUME Base, [Next]_vars PROVE Base' OBVIOUS
<1>1. ASSUME NEW c \in Conns, Lookup(c) \/ Connect(c) \/ ConnectUnasked(c) \/ Peek(c) \/ PeekEnds(c)
      PROVE  Base'
  BY <1>1, LookupKeepsBase, ConnectKeepsBase, PeekKeepsBase
<1>2. ASSUME NEW d \in Doctors, StartProbe(d) PROVE Base'
  <2>1. TypeOK' BY <1>2 DEF Base, TypeOK, StartProbe, client, latch
  <2>2. Asked' BY <1>2 DEF Base, Asked, StartProbe, client
  <2>3. Latched' BY <1>2 DEF Base, TypeOK, Latched, StartProbe, latch
  <2>4. ProbeTellsTheTruth' BY <1>2 DEF Base, TypeOK, ProbeTellsTheTruth, StartProbe, latch
  <2> QED BY <2>1, <2>2, <2>3, <2>4 DEF Base
<1>3. ASSUME NEW d \in Doctors, ProbeArrives(d) PROVE Base'
  <2>1. /\ Latched' /\ ProbeTellsTheTruth' /\ probes' \subseteq STRING /\ IsFiniteSet(probes')
        /\ forgotten' \subseteq STRING /\ reached' \subseteq Doctors
    BY <1>3, RunsAreServed
  <2>2. UNCHANGED <<client, doctor>> BY <1>3 DEF ProbeArrives
  <2>3. arrivals' \in [Doctors -> 0..MaxArrivals] BY <1>3, EdgeAssumption DEF ProbeArrives, Base, TypeOK
  <2>4. TypeOK' BY <2>1, <2>2, <2>3 DEF Base, TypeOK, client
  <2>5. Asked' BY <2>2 DEF Base, Asked, client
  <2> QED BY <2>1, <2>4, <2>5 DEF Base
<1>4. ASSUME NEW d \in Doctors, SawProbe(d) PROVE Base'
  <2>1. Latched' /\ ProbeTellsTheTruth' /\ probes' \subseteq STRING /\ IsFiniteSet(probes') BY <1>4, VerdictIsTrue
  <2>2. TypeOK' BY <1>4, <2>1 DEF Base, TypeOK, SawProbe, client
  <2>3. Asked' BY <1>4 DEF Base, Asked, SawProbe, client
  <2> QED BY <2>1, <2>2, <2>3 DEF Base
<1>5. CASE UNCHANGED vars
  BY <1>5 DEF Base, TypeOK, Asked, Latched, ProbeTellsTheTruth, vars, client, latch
<1> QED BY <1>1, <1>2, <1>3, <1>4, <1>5 DEF Next

-----------------------------------------------------------------------------
(* What is known of a connection while its bytes arrive. *)

\* No more has been read than was sent, and nothing before the connection.
Read ==
  \A c \in Conns : /\ state[c] = "idle" => arrived[c] = 0
                   /\ state[c] # "idle" => arrived[c] <= Length(stream[c])

\* An honest connection is a plain request for the name that was answered.
Honest ==
  \A c \in Conns : honest[c] =>
    /\ state[c] # "idle" /\ answer[c] = "loopback"
    /\ \E kind \in {"http", "https"}, w \in Written :
         stream[c] = Plain(kind, [w EXCEPT !.labels = AskedName(c)])

\* What was decided was decided on what had been read by then.
Decided ==
  \A c \in Conns :
    LET said == name(stream[c], arrived[c])
        to == Route(said.value) IN
    /\ state[c] = "routed" => said.ok /\ to.ok /\ server[c] = to.value.server
    /\ state[c] = "refused" => (~said.ok /\ said.value # "more") \/ (said.ok /\ ~to.ok)
    /\ state[c] = "tooLong" => ~said.ok /\ arrived[c] >= MaxHeaderBytes

IInv == Base /\ Read /\ Honest /\ Decided

\* At the start nothing has been read.
LEMMA IInvInit == Init => IInv
<1> SUFFICES ASSUME Init PROVE IInv OBVIOUS
<1>1. Base BY BaseInit
<1>2. Read /\ Honest /\ Decided BY DEF Init, Read, Honest, Decided
<1> QED BY <1>1, <1>2 DEF IInv

\* A connection that begins has sent nothing yet, and is honest if it says so.
LEMMA ConnectIsRead ==
  ASSUME IInv, Base', NEW c \in Conns, Connect(c) \/ ConnectUnasked(c)
  PROVE  Read' /\ Honest' /\ Decided'
<1> USE DEF IInv
<1>1. /\ state[c] = "idle" /\ state' = [state EXCEPT ![c] = "peeking"]
      /\ UNCHANGED <<looked, answer, arrived, server>>
  BY DEF Connect, ConnectUnasked
<1>2. \A d \in Conns : d # c => stream'[d] = stream[d] /\ honest'[d] = honest[d]
  BY DEF Base, TypeOK, Connect, ConnectUnasked
<1>4. IsStream(stream'[c]) /\ arrived[c] = 0 BY <1>1 DEF Base, TypeOK, Read
<1>5. Length(stream'[c]) \in Nat BY <1>4, LengthIs
<1>6. Read' BY <1>1, <1>2, <1>4, <1>5 DEF Base, TypeOK, Read
<1>7. \A d \in Conns : state'[d] = IF d = c THEN "peeking" ELSE state[d] BY <1>1 DEF Base, TypeOK
<1>8. Decided' BY <1>1, <1>2, <1>7 DEF Decided
<1>9. ASSUME NEW d \in Conns, honest'[d]
      PROVE  /\ state'[d] # "idle" /\ answer'[d] = "loopback"
             /\ \E kind \in {"http", "https"}, w \in Written :
                  stream'[d] = Plain(kind, [w EXCEPT !.labels = AskedName(d)])
  <2>1. CASE d # c
    <3>1. honest[d] BY <1>2, <1>9, <2>1
    <3>2. /\ state[d] # "idle" /\ answer[d] = "loopback"
          /\ \E kind \in {"http", "https"}, w \in Written :
               stream[d] = Plain(kind, [w EXCEPT !.labels = AskedName(d)])
      BY <3>1 DEF Honest
    <3>3. stream'[d] = stream[d] /\ answer'[d] = answer[d] /\ state'[d] = state[d] BY <1>1, <1>2, <1>7, <2>1
    <3> QED BY <3>2, <3>3, Zenon
  <2>2. CASE d = c /\ Connect(c)
    <3>1. answer[c] = "loopback" BY <2>2 DEF Connect
    <3>2. PICK kind \in {"http", "https"}, w \in Written :
            stream' = [stream EXCEPT ![c] = Plain(kind, [w EXCEPT !.labels = AskedName(c)])]
      BY <2>2 DEF Connect
    <3>3. stream'[c] = Plain(kind, [w EXCEPT !.labels = AskedName(c)]) BY <3>2 DEF Base, TypeOK
    <3>4. \E k \in {"http", "https"}, v \in Written : stream'[c] = Plain(k, [v EXCEPT !.labels = AskedName(c)])
      BY <3>3, Zenon
    <3>5. state'[c] # "idle" /\ answer'[c] = "loopback" BY <1>1, <1>7, <3>1
    <3> QED BY <2>2, <3>4, <3>5, Zenon
  <2>3. CASE d = c /\ ConnectUnasked(c)
    <3>1. ~honest[c] BY <1>1 DEF Honest
    <3> QED BY <1>9, <2>3, <3>1 DEF ConnectUnasked
  <2> QED BY <2>1, <2>2, <2>3
<1>10. Honest' BY <1>1, <1>9 DEF Honest, AskedName
<1> QED BY <1>6, <1>8, <1>10

\* One more read, and what is made of it.
LEMMA PeekDecides ==
  ASSUME IInv, NEW c \in Conns, Peek(c)
  PROVE  Read' /\ Honest' /\ Decided'
<1> USE DEF IInv
<1>1. PICK n \in 1..Chunk :
        /\ arrived[c] + n <= Length(stream[c])
        /\ arrived' = [arrived EXCEPT ![c] = @ + n]
        /\ LET said == name(stream[c], arrived[c] + n)
               to == Route(said.value)
               limit == arrived[c] + n >= MaxHeaderBytes IN
           \/ /\ ~said.ok /\ said.value = "more" /\ UNCHANGED server
              /\ state' = [state EXCEPT ![c] = IF limit THEN "tooLong" ELSE @]
           \/ /\ ~said.ok /\ said.value # "more" /\ UNCHANGED server
              /\ state' = [state EXCEPT ![c] = "refused"]
           \/ /\ said.ok /\ ~to.ok /\ UNCHANGED server
              /\ state' = [state EXCEPT ![c] = "refused"]
           \/ /\ said.ok /\ to.ok /\ state' = [state EXCEPT ![c] = "routed"]
              /\ server' = [server EXCEPT ![c] = to.value.server]
  BY DEF Peek
<1> DEFINE a == arrived[c] + n
           said == name(stream[c], a)
           to == Route(said.value)
<1>2. state[c] = "peeking" /\ UNCHANGED <<looked, answer, stream, honest>> BY DEF Peek
<1>3. arrived'[c] = a /\ a <= Length(stream[c]) /\ \A d \in Conns : d # c => arrived'[d] = arrived[d]
  BY <1>1 DEF Base, TypeOK
<1>4. \/ ~said.ok /\ said.value = "more" /\ server' = server
           /\ state' = [state EXCEPT ![c] = IF a >= MaxHeaderBytes THEN "tooLong" ELSE "peeking"]
      \/ ((~said.ok /\ said.value # "more") \/ (said.ok /\ ~to.ok)) /\ server' = server
           /\ state' = [state EXCEPT ![c] = "refused"]
      \/ said.ok /\ to.ok /\ server' = [server EXCEPT ![c] = to.value.server]
           /\ state' = [state EXCEPT ![c] = "routed"]
  BY <1>1, <1>2
<1> HIDE DEF a, said, to
<1>5. /\ \A d \in Conns : d # c => state'[d] = state[d] /\ server'[d] = server[d]
      /\ state'[c] # "idle"
      /\ state'[c] = "routed" => said.ok /\ to.ok /\ server'[c] = to.value.server
      /\ state'[c] = "refused" => (~said.ok /\ said.value # "more") \/ (said.ok /\ ~to.ok)
      /\ state'[c] = "tooLong" => ~said.ok /\ a >= MaxHeaderBytes
  BY <1>4 DEF Base, TypeOK
<1>6. Read' BY <1>2, <1>3, <1>5 DEF Read
<1>7. \A d \in Conns : state[d] # "idle" => state'[d] # "idle" BY <1>5
<1>8. Honest' BY <1>2, <1>7 DEF Honest, AskedName
<1>9. said = name(stream'[c], arrived'[c]) /\ to = Route(said.value) BY <1>2, <1>3 DEF said, to
<1>10. ASSUME NEW d \in Conns
       PROVE  LET s == name(stream[d], arrived'[d])
                  t == Route(s.value) IN
              /\ state'[d] = "routed" => s.ok /\ t.ok /\ server'[d] = t.value.server
              /\ state'[d] = "refused" => (~s.ok /\ s.value # "more") \/ (s.ok /\ ~t.ok)
              /\ state'[d] = "tooLong" => ~s.ok /\ arrived'[d] >= MaxHeaderBytes
  <2>1. CASE d = c BY <1>2, <1>3, <1>5, <1>9, <2>1
  <2>2. CASE d # c BY <1>3, <1>5, <2>2 DEF Decided
  <2> QED BY <2>1, <2>2
<1>11. Decided' BY <1>2, <1>10 DEF Decided
<1> QED BY <1>6, <1>8, <1>11

\* The step as a whole.
LEMMA IInvStep == IInv /\ [Next]_vars => IInv'
<1> SUFFICES ASSUME IInv, [Next]_vars PROVE IInv' OBVIOUS
<1>1. Base' BY BaseStep DEF IInv
<1>2. ASSUME NEW c \in Conns, Lookup(c) PROVE Read' /\ Honest' /\ Decided'
  <2>1. /\ UNCHANGED <<stream, honest, arrived, state, server>> /\ state[c] = "idle"
        /\ \A d \in Conns : d # c => looked'[d] = looked[d] /\ answer'[d] = answer[d]
    BY <1>2 DEF IInv, Base, TypeOK, Lookup
  <2>2. Read' /\ Decided' BY <2>1 DEF IInv, Read, Decided
  <2>3. Honest' BY <2>1 DEF IInv, Honest, AskedName
  <2> QED BY <2>2, <2>3
<1>3. ASSUME NEW c \in Conns, Connect(c) \/ ConnectUnasked(c) PROVE Read' /\ Honest' /\ Decided'
  BY <1>1, <1>3, ConnectIsRead
<1>4. ASSUME NEW c \in Conns, Peek(c) PROVE Read' /\ Honest' /\ Decided' BY <1>4, PeekDecides
<1>5. ASSUME NEW c \in Conns, PeekEnds(c) PROVE Read' /\ Honest' /\ Decided'
  <2>1. /\ UNCHANGED <<looked, answer, stream, honest, arrived, server>> /\ state[c] = "peeking"
        /\ \A d \in Conns : state'[d] = IF d = c THEN "gone" ELSE state[d]
    BY <1>5 DEF IInv, Base, TypeOK, PeekEnds
  <2>2. Read' BY <2>1 DEF IInv, Read
  <2>3. Honest' BY <2>1 DEF IInv, Honest, AskedName
  <2>4. Decided' BY <2>1 DEF IInv, Decided
  <2> QED BY <2>2, <2>3, <2>4
<1>6. ASSUME UNCHANGED client PROVE Read' /\ Honest' /\ Decided'
  BY <1>6 DEF IInv, Read, Honest, Decided, AskedName, client
<1>7. ASSUME NEW d \in Doctors, StartProbe(d) \/ ProbeArrives(d) \/ SawProbe(d) PROVE UNCHANGED client
  BY <1>7 DEF StartProbe, ProbeArrives, SawProbe
<1> QED BY <1>1, <1>2, <1>3, <1>4, <1>5, <1>6, <1>7 DEF IInv, Next, vars

-----------------------------------------------------------------------------
(* What the invariant means. *)

\* What was decided on a prefix is what the whole stream says.
LEMMA PrefixDecides == IInv => PacketsDoNotDecide
<1> SUFFICES ASSUME IInv, NEW c \in Conns, state[c] \in {"routed", "refused", "tooLong"}
             PROVE  LET all == name(stream[c], Length(stream[c]))
                        to == Route(all.value) IN
                    CASE state[c] = "routed"  -> all.ok /\ to.ok /\ to.value.server = server[c]
                      [] state[c] = "refused" -> ~(all.ok /\ to.ok)
                      [] OTHER -> \A k \in 1..MaxHeaderBytes : ~name(stream[c], k).ok
  BY DEF PacketsDoNotDecide
<1> DEFINE s == stream[c]
           a == arrived[c]
           all == name(s, Length(s))
           to == Route(all.value)
<1>1. IsStream(s) /\ a \in Nat /\ a <= Length(s) BY DEF IInv, Base, TypeOK, Read
<1>2. Length(s) \in Nat BY <1>1, LengthIs
<1>3. /\ name(s, a).ok => all = name(s, a)
      /\ ~name(s, a).ok /\ name(s, a).value # "more" => ~all.ok
  BY <1>1, <1>2, ToldOnce
<1>4. /\ state[c] = "routed" => /\ name(s, a).ok /\ Route(name(s, a).value).ok
                                /\ server[c] = Route(name(s, a).value).value.server
      /\ state[c] = "refused" => \/ ~name(s, a).ok /\ name(s, a).value # "more"
                                 \/ name(s, a).ok /\ ~Route(name(s, a).value).ok
      /\ state[c] = "tooLong" => ~name(s, a).ok /\ a >= MaxHeaderBytes
  BY DEF IInv, Decided
<1>5. ASSUME state[c] = "tooLong", NEW k \in 1..MaxHeaderBytes PROVE ~name(s, k).ok
  <2>1. k \in Nat /\ k <= a BY <1>1, <1>4, <1>5, NamesAssumption
  <2> QED BY <1>1, <1>4, <1>5, <2>1, ToldOnce
<1> HIDE DEF s, a, all, to
<1>6. state[c] = "routed" => all.ok /\ to.ok /\ to.value.server = server[c] BY <1>3, <1>4 DEF to
<1>7. state[c] = "refused" => ~(all.ok /\ to.ok) BY <1>3, <1>4 DEF to
<1> QED BY <1>5, <1>6, <1>7 DEF s, all, to

\* A host that is routed is a name below the zone of the server it went to.
LEMMA RouteMeans ==
  ASSUME NEW h \in Hosts, Route(h).ok
  PROVE  /\ NormalizeHost(h).ok /\ Route(h).value.server \in Managed
         /\ IsSuffix(<<Route(h).value.server>> \o Suffix, NormalizeHost(h).value)
<1> DEFINE n == NormalizeHost(h).value
           v == Route(h).value.server
           k == Len(Suffix)
<1>1. \A e : ~Err(e).ok BY DEF Err
<1>2. NormalizeHost(h).ok /\ InSuffix(n) /\ Split(n).ok /\ Manages(Split(n).value.server) /\ v = Split(n).value.server
  BY <1>1 DEF Route, Ok
<1>3. n = h.labels /\ ToSet(h.labels) \subseteq ValidLabels
  BY <1>1, <1>2 DEF NormalizeHost, LabelsOf, Ok, Empty, Hosts
<1>4. n \in Seq(STRING) BY <1>3 DEF Hosts
<1>5. n # Suffix /\ v = n[Len(n) - k] BY <1>1, <1>2 DEF Split, Ok, ServerOf
<1>6. Suffix \in Seq(STRING) /\ k \in Nat /\ Len(n) \in Nat BY <1>4, NamesAssumption, LenProperties
<1> HIDE DEF n, v, k
<1>7. k <= Len(n) /\ \A i \in 1..k : Suffix[i] = n[Len(n) - k + i] BY <1>2, <1>4, <1>6, SuffixMeans DEF InSuffix, k
<1>8. k < Len(n)
  <2> SUFFICES ASSUME Len(n) = k PROVE FALSE BY <1>6, <1>7
  <2>1. \A i \in 1..k : Suffix[i] = n[i]
    <3>1. \A i \in 1..k : Len(n) - k + i = i BY <1>6
    <3> QED BY <1>7, <3>1
  <2> QED BY <1>4, <1>5, <1>6, <2>1, SeqEqual DEF k
<1>9. Len(n) - k \in 1..Len(n) BY <1>6, <1>8
<1>10. v \in STRING BY <1>4, <1>5, <1>9, ElementOfSeq
<1> DEFINE z == <<v>> \o Suffix
<1>11. /\ z \in Seq(STRING) /\ Len(z) = k + 1
       /\ \A i \in 1..(k + 1) : z[i] = IF i = 1 THEN v ELSE Suffix[i - 1]
  <2>1. <<v>> \in Seq(STRING) /\ Len(<<v>>) = 1 /\ <<v>>[1] = v
    <3>1. \A S, x : x \in S => <<x>> \in [1..1 -> S] OBVIOUS
    <3>2. <<v>> \in Seq(STRING) BY <1>10, <3>1, SeqDef
    <3> QED BY <3>2
  <2> DEFINE p == <<v>>
  <2> HIDE DEF p
  <2>2. /\ p \o Suffix \in Seq(STRING) /\ Len(p \o Suffix) = Len(p) + Len(Suffix)
        /\ \A i \in 1..(Len(p) + Len(Suffix)) : (p \o Suffix)[i] = IF i <= Len(p) THEN p[i] ELSE Suffix[i - Len(p)]
    BY <1>6, <2>1, ConcatProperties DEF p
  <2>3. Len(p) = 1 /\ p[1] = v BY <2>1 DEF p
  <2>4. \A i \in 1..(k + 1) : i \in 1..(Len(p) + Len(Suffix)) /\ (i <= Len(p) <=> i = 1) BY <1>6, <2>3 DEF k
  <2>5. z = p \o Suffix BY DEF p
  <2> HIDE DEF z
  <2> QED BY <1>6, <2>2, <2>3, <2>4, <2>5 DEF k
<1> HIDE DEF z
<1>12. Len(z) <= Len(n) BY <1>6, <1>8, <1>11
<1>13. ASSUME NEW i \in 1..Len(z) PROVE z[i] = n[Len(n) - Len(z) + i]
  <2>1. CASE i = 1
    <3>1. Len(n) - Len(z) + 1 = Len(n) - k BY <1>6, <1>11
    <3> QED BY <1>5, <1>11, <1>13, <2>1, <3>1
  <2>2. CASE i # 1
    <3>1. i - 1 \in 1..k /\ Len(n) - Len(z) + i = Len(n) - k + (i - 1) BY <1>6, <1>11, <2>2
    <3>2. z[i] = Suffix[i - 1] BY <1>11, <2>2
    <3> QED BY <1>7, <3>1, <3>2
  <2> QED BY <2>1, <2>2
<1>14. IsSuffix(z, n) BY <1>4, <1>11, <1>12, <1>13, SuffixMeans
<1> QED BY <1>2, <1>14 DEF Manages, n, v, z

\* Hosts that differ in nothing but capitals are the same name.
LEMMA FoldedIsSame ==
  ASSUME NEW g \in Hosts, NEW h \in Hosts, EqualFold(g, h)
  PROVE  NormalizeHost(g) = NormalizeHost(h)
<1>1. g.labels = h.labels /\ g.form = h.form /\ g.port = h.port BY DEF EqualFold, Hosts
<1> QED BY <1>1 DEF NormalizeHost, LabelsOf, Empty

\* Every host in a header that is told of one is that host, up to capitals.
LEMMA HeaderNamesOne ==
  ASSUME NEW header \in Seq(Lines), Len(header) # 0, header[Len(header)].is = "end",
         \A i \in 1..Len(header) : /\ header[i].is = "target" => i = 1
                                   /\ header[i].is = "host" => header[i].host # None,
         HostFromRequest(header).ok,
         NEW i \in 1..Len(header), header[i].is \in {"target", "host"}, header[i].host # None
  PROVE  /\ HostFromRequest(header).value \in Hosts
         /\ NormalizeHost(header[i].host) = NormalizeHost(HostFromRequest(header).value)
<1> DEFINE k == Len(header) - 1
           lines == SubSeq(header, 1, k)
           target == lines[1].host
           field == CHOOSE j \in HostFields(lines) : TRUE
           found == lines[field].host
<1>1. Len(header) \in Nat /\ k \in Nat /\ k \in 0..Len(header) BY LenProperties
<1>2. lines \in Seq(Lines) /\ Len(lines) = k /\ DOMAIN lines = 1..k /\ \A j \in 1..k : lines[j] = header[j]
  BY <1>1, PrefixIs
<1>3. i \in 1..k /\ lines[i] = header[i]
  <2>1. i # Len(header) OBVIOUS
  <2>2. i \in 1..k BY <1>1, <2>1
  <2> QED BY <1>2, <2>2
<1>4. HostFromRequest(header) =
        IF lines = << >> \/ lines[1].is # "target" \/ \E j \in DOMAIN lines : lines[j].is = "broken" THEN Err("malformed")
        ELSE IF \E j, m \in HostFields(lines) : j # m THEN Err("ambiguous")
        ELSE IF HostFields(lines) = {} THEN (IF target = None THEN Err("noHost") ELSE Ok(target))
        ELSE IF target # None /\ ~EqualFold(target, found) THEN Err("ambiguous")
        ELSE IF Empty(found) THEN Err("noHost")
        ELSE Ok(found)
  BY DEF HostFromRequest
<1> HIDE DEF lines, target, found, field, k
<1>5. \A e : ~Err(e).ok BY DEF Err
<1>6. /\ lines[1].is = "target" /\ ~\E j, m \in HostFields(lines) : j # m
      /\ HostFields(lines) = {} => target # None /\ HostFromRequest(header) = Ok(target)
      /\ HostFields(lines) # {} => /\ target = None \/ EqualFold(target, found)
                                   /\ HostFromRequest(header) = Ok(found)
  BY <1>4, <1>5
<1>7. 1 \in 1..k /\ \A j \in 1..k : lines[j].host \in Hosts \cup {None}
  <2>1. \A j \in 1..k : lines[j] \in Lines BY <1>2, ElementOfSeq
  <2>2. \A l \in Lines : l.host \in Hosts \cup {None} BY DEF Lines
  <2>3. 1 \in 1..k BY <1>1, <1>3
  <2> QED BY <2>1, <2>2, <2>3
<1>8. \A h : Ok(h).value = h BY DEF Ok
<1>9. lines[i].is = "host" => i \in HostFields(lines)
  <2>1. lines[i].is = "host" => i # 1 BY <1>6
  <2> QED BY <1>2, <1>3, <2>1 DEF HostFields
<1>10. lines[i].is = "target" => lines[i].host = target BY <1>3 DEF target
<1>11. CASE HostFields(lines) = {}
  <2>1. lines[i].host = target BY <1>3, <1>9, <1>10, <1>11
  <2> QED BY <1>3, <1>6, <1>7, <1>8, <1>11, <2>1
<1>12. CASE HostFields(lines) # {}
  <2>1. field \in HostFields(lines) BY <1>12 DEF field
  <2>2. field \in 1..k /\ lines[field].is = "host" BY <1>2, <2>1 DEF HostFields
  <2>3. lines[field] = header[field] /\ field \in 1..Len(header) BY <1>1, <1>2, <2>2 DEF k
  <2>4. found \in Hosts BY <1>7, <2>2, <2>3 DEF found
  <2>5. HostFromRequest(header).value = found BY <1>6, <1>8, <1>12
  <2>6. CASE lines[i].is = "host"
    <3>1. i = field BY <1>6, <1>9, <2>1, <2>6
    <3> QED BY <1>3, <2>4, <2>5, <3>1 DEF found
  <2>7. CASE lines[i].is = "target"
    <3>1. header[i].host = target /\ target # None /\ target \in Hosts BY <1>3, <1>7, <1>10, <2>7
    <3>2. EqualFold(target, found) BY <1>6, <1>12, <3>1
    <3> QED BY <2>4, <2>5, <3>1, <3>2, FoldedIsSame
  <2> QED BY <1>3, <2>6, <2>7
<1> QED BY <1>11, <1>12

\* The name that is taken from a list is the only one in it.
LEMMA OneNameIsNamed ==
  ASSUME NEW n \in Seq(Hosts), OneName(n).ok, NEW h \in ToSet(n), ~Blank(h)
  PROVE  OneName(n) = Ok(h) /\ h \in Hosts
<1>1. Len(n) \in Nat /\ DOMAIN n = 1..Len(n) BY LenProperties
<1>2. \A e : ~Err(e).ok BY DEF Err
<1>3. /\ ~\E i \in 1..(Len(n) - 1) : ~Blank(n[i])
      /\ OneName(n) = Ok(n[Len(n)])
  BY <1>2 DEF OneName
<1>4. PICK j \in 1..Len(n) : h = n[j] BY <1>1 DEF ToSet
<1>5. j = Len(n)
  <2> DEFINE k == Len(n)
  <2>1. j \notin 1..(k - 1) BY <1>3, <1>4
  <2>2. k \in Nat /\ j \in 1..k BY <1>1, <1>4
  <2> HIDE DEF k
  <2>3. j = k BY <2>1, <2>2
  <2> QED BY <2>3 DEF k
<1>6. n[j] \in Hosts BY <1>4, ElementOfSeq
<1> QED BY <1>3, <1>4, <1>5, <1>6

\* ... and so is the one that is taken from the extensions.
LEMMA NameOfIsNamed ==
  ASSUME NEW x \in Seq(Extensions), NameOf(x).ok, NEW h \in ToSet(x[1].names), ~Blank(h)
  PROVE  NameOf(x) = Ok(h) /\ h \in Hosts
<1>1. \A e : ~Err(e).ok BY DEF Err
<1>2. x # << >> /\ NameOf(x) = OneName(x[1].names) BY <1>1 DEF NameOf
<1>3. Len(x) \in Nat /\ Len(x) # 0 BY <1>2, LenProperties, EmptySeq
<1>4. x[1] \in Extensions BY <1>3, ElementOfSeq
<1>5. x[1].names \in Seq(Hosts) BY <1>4 DEF Extensions
<1> QED BY <1>2, <1>5, OneNameIsNamed

\* All that a complete stream names is what it was told to be for.
LEMMA NamedIsTold ==
  ASSUME NEW s, IsStream(s), name(s, Length(s)).ok, NEW h \in Named(s)
  PROVE  /\ name(s, Length(s)).value \in Hosts
         /\ NormalizeHost(h) = NormalizeHost(name(s, Length(s)).value)
<1>1. Length(s) \in Nat BY LengthIs
<1>2. CASE s.kind = "https"
  <2> DEFINE t == s.tls
             x == s.tls.extensions
  <2>1. IsGreeting(t) BY <1>2 DEF IsStream
  <2>2. x \in Seq(Extensions) BY <2>1, GreetingFacts
  <2>3. name(s, Length(s)) = SNIFromClientHello(t, Length(s)) BY <1>2 DEF name
  <2>4. SNIFromClientHello(t, Length(s)) = NameOf(x) /\ NameOf(x).ok BY <1>1, <2>1, <2>3, GreetingTells
  <2>5. \E i \in DOMAIN x \cap {1} : h \in ToSet(x[i].names) /\ ~Blank(h) BY <1>2 DEF Named
  <2>6. h \in ToSet(x[1].names) /\ ~Blank(h) BY <2>5
  <2> HIDE DEF x, t
  <2>7. NameOf(x) = Ok(h) /\ h \in Hosts BY <2>2, <2>4, <2>6, NameOfIsNamed
  <2> QED BY <2>3, <2>4, <2>7 DEF Ok
<1>3. CASE s.kind # "https"
  <2> DEFINE l == s.lines
             m == Len(l)
             e == HeaderEnd(SubSeq(l, 1, m))
             header == SubSeq(l, 1, e)
  <2>1. l \in Seq(Lines) /\ Length(s) = m /\ m \in Nat BY <1>3, LengthIs, LenProperties
  <2>2. \A i \in DOMAIN l : /\ l[i].is = "target" => i = 1
                            /\ l[i].is = "host" => l[i].host # None
    BY <1>3 DEF IsStream, IsRequest
  <2>3. SubSeq(l, 1, m) = l
    <3>1. m \in 0..Len(l) BY <2>1
    <3>2. SubSeq(l, 1, m) \in Seq(Lines) /\ Len(SubSeq(l, 1, m)) = m /\ \A i \in 1..m : SubSeq(l, 1, m)[i] = l[i]
      BY <2>1, <3>1, PrefixIs
    <3> QED BY <2>1, <3>2, SeqEqual
  <2>4. name(s, Length(s)) = IF e = 0 THEN Err("more") ELSE HostFromRequest(SubSeq(SubSeq(l, 1, m), 1, e))
    BY <1>3, <2>1 DEF name
  <2>5. e = HeaderEnd(l) BY <2>3
  <2>6. e # 0 BY <2>4 DEF Err
  <2>7. e \in 1..m /\ l[e].is = "end" BY <2>1, <2>5, <2>6, HeaderEndIs
  <2>8. h \in {header[i].host : i \in {j \in DOMAIN header : header[j].is \in {"target", "host"} /\ header[j].host # None}}
    BY <1>3, <2>5 DEF Named
  <2>9. name(s, Length(s)) = HostFromRequest(header) BY <2>3, <2>4, <2>6
  <2> HIDE DEF l, m, e
  <2>10. header \in Seq(Lines) /\ Len(header) = e /\ DOMAIN header = 1..e /\ \A i \in 1..e : header[i] = l[i]
    <3>1. e \in 0..Len(l) BY <2>1, <2>7 DEF m
    <3> QED BY <2>1, <3>1, PrefixIs
  <2> HIDE DEF header
  <2>11. PICK i \in 1..e : h = header[i].host /\ header[i].is \in {"target", "host"} /\ header[i].host # None
    BY <2>8, <2>10
  <2>12. header[e].is = "end" /\ e # 0 BY <2>7, <2>10
  <2>13. \A j \in 1..e : /\ header[j].is = "target" => j = 1
                         /\ header[j].is = "host" => header[j].host # None
    <3>1. \A j \in 1..e : j \in DOMAIN l BY <2>1, <2>7, LenProperties DEF m
    <3> QED BY <2>2, <2>10, <3>1
  <2>14. HostFromRequest(header).ok BY <2>9
  <2> QED BY <2>9, <2>10, <2>11, <2>12, <2>13, <2>14, HeaderNamesOne
<1> QED BY <1>2, <1>3

\* Every host that a routed connection names belongs to one server.
LEMMA OneReading == IInv => OnlyOneReading
<1> SUFFICES ASSUME IInv, NEW c \in Conns, state[c] = "routed", NEW h \in Named(stream[c])
             PROVE  LET n == NormalizeHost(h) IN
                    n.ok /\ IsSuffix(<<server[c]>> \o Suffix, n.value) /\ server[c] \in Managed
  BY DEF OnlyOneReading
<1> DEFINE all == name(stream[c], Length(stream[c]))
<1>1. IsStream(stream[c]) BY DEF IInv, Base, TypeOK
<1>2. all.ok /\ Route(all.value).ok /\ Route(all.value).value.server = server[c]
  BY PrefixDecides DEF PacketsDoNotDecide
<1>3. all.value \in Hosts /\ NormalizeHost(h) = NormalizeHost(all.value) BY <1>1, <1>2, NamedIsTold
<1> HIDE DEF all
<1> QED BY <1>2, <1>3, RouteMeans

-----------------------------------------------------------------------------
(* A plain request is told of by all of its four units. *)

\* In a request: the third line is the one that names the host.
LEMMA PlainRequestTells ==
  ASSUME NEW h \in Hosts, ~Empty(h)
  PROVE  Length(Plain("http", h)) = 4 /\ name(Plain("http", h), 4) = Ok(h)
<1> DEFINE l == <<[is |-> "target", host |-> None], [is |-> "other", host |-> None],
                  [is |-> "host", host |-> h], [is |-> "end", host |-> None]>>
           s == Plain("http", h)
<1>1. s = [kind |-> "http", lines |-> l] BY DEF Plain
<1>2. IsStream(s) BY PlainIsStream
<1>3. /\ Len(l) = 4 /\ l[1] = [is |-> "target", host |-> None] /\ l[2] = [is |-> "other", host |-> None]
      /\ l[3] = [is |-> "host", host |-> h] /\ l[4] = [is |-> "end", host |-> None]
  OBVIOUS
<1> HIDE DEF l
<1>4. s.kind = "http" /\ s.lines = l BY <1>1
<1> HIDE DEF s
<1>5. l \in Seq(Lines) /\ Length(s) = 4 BY <1>2, <1>3, <1>4, LengthIs
<1> DEFINE got == SubSeq(l, 1, 4)
           header == SubSeq(got, 1, 4)
           lines == SubSeq(header, 1, 3)
<1>6. got \in Seq(Lines) /\ Len(got) = 4 /\ \A i \in 1..4 : got[i] = l[i]
  <2>1. 4 \in 0..Len(l) BY <1>3
  <2> QED BY <1>5, <2>1, PrefixIs
<1> HIDE DEF got
<1>7. HeaderEnd(got) = 4
  <2>1. \A i \in 1..4 : got[i].is = "end" <=> i = 4 BY <1>3, <1>6
  <2>2. HeaderEnd(got) \in 0..4 BY <1>6, HeaderEndIs
  <2>3. HeaderEnd(got) # 0
    <3>1. 4 \in 1..Len(got) /\ got[4].is = "end" BY <1>6, <2>1
    <3> QED BY <1>6, <3>1, HeaderEndIs
  <2>4. got[HeaderEnd(got)].is = "end" BY <1>6, <2>3, HeaderEndIs
  <2> QED BY <2>1, <2>2, <2>3, <2>4
<1>8. header \in Seq(Lines) /\ Len(header) = 4 /\ \A i \in 1..4 : header[i] = l[i]
  <2>1. 4 \in 0..Len(got) BY <1>6
  <2>2. header \in Seq(Lines) /\ Len(header) = 4 /\ \A i \in 1..4 : header[i] = got[i] BY <1>6, <2>1, PrefixIs
  <2> QED BY <1>6, <2>2
<1> HIDE DEF header
<1>9. lines \in Seq(Lines) /\ Len(lines) = 3 /\ DOMAIN lines = 1..3 /\ \A i \in 1..3 : lines[i] = l[i]
  <2>1. 3 \in 0..Len(header) BY <1>8
  <2>2. /\ lines \in Seq(Lines) /\ Len(lines) = 3 /\ DOMAIN lines = 1..3
        /\ \A i \in 1..3 : lines[i] = header[i]
    BY <1>8, <2>1, PrefixIs
  <2> QED BY <1>8, <2>2
<1> HIDE DEF lines
<1>10. /\ lines # << >> /\ lines[1].is = "target" /\ lines[1].host = None
       /\ \A i \in 1..3 : lines[i].is # "broken" /\ (lines[i].is = "host" <=> i = 3)
       /\ lines[3].host = h
  <2>1. lines[1] = l[1] /\ lines[2] = l[2] /\ lines[3] = l[3] BY <1>9
  <2>2. \A i \in 1..3 : i = 1 \/ i = 2 \/ i = 3 OBVIOUS
  <2>3. lines # << >>
    <3>1. Len(<< >>) = 0 BY EmptySeq
    <3>2. Len(lines) = 3 BY <1>9
    <3> QED BY <3>1, <3>2
  <2> QED BY <1>3, <2>1, <2>2, <2>3
<1>11. HostFields(lines) = {3} BY <1>9, <1>10 DEF HostFields
<1>12. (CHOOSE i \in HostFields(lines) : TRUE) = 3 BY <1>11
<1>13. HostFromRequest(header) = Ok(h)
  <2>1. Len(header) - 1 = 3 BY <1>8
  <2>2. lines = SubSeq(header, 1, Len(header) - 1) BY <2>1 DEF lines
  <2> QED BY <1>9, <1>10, <1>11, <1>12, <2>2 DEF HostFromRequest
<1>14. name(s, 4) = HostFromRequest(header) BY <1>4, <1>7 DEF name, header, got
<1> QED BY <1>5, <1>13, <1>14 DEF s

\* In a greeting: two records of one unit each.
LEMMA PlainGreetingTells ==
  ASSUME NEW h \in Hosts, ~Empty(h)
  PROVE  Length(Plain("https", h)) = 4 /\ name(Plain("https", h), 4) = Ok(h)
<1> DEFINE r == <<[type |-> "handshake", size |-> 1], [type |-> "handshake", size |-> 1]>>
           x == <<[is |-> "serverName", names |-> <<h>>]>>
           t == [records |-> r, want |-> 2, hello |-> "client", extensions |-> x]
           s == Plain("https", h)
<1>1. s = [kind |-> "https", tls |-> t] BY DEF Plain
<1>2. IsStream(s) BY PlainIsStream
<1>3. Len(r) = 2 /\ r[1] = [type |-> "handshake", size |-> 1] /\ r[2] = [type |-> "handshake", size |-> 1] OBVIOUS
<1>4. NameOf(x) = Ok(h)
  <2>1. x # << >> /\ x[1].is = "serverName" /\ x[1].names = <<h>> OBVIOUS
  <2>2. <<h>> # << >> /\ Len(<<h>>) = 1 /\ <<h>>[1] = h OBVIOUS
  <2>3. 1..(1 - 1) = {} OBVIOUS
  <2>4. OneName(<<h>>) = Ok(h) BY <2>2, <2>3 DEF OneName, Blank
  <2> HIDE DEF x
  <2> QED BY <2>1, <2>4 DEF NameOf
<1> HIDE DEF r, x
<1>5. t.extensions = x /\ t.records = r /\ t.want = 2 /\ t.hello = "client" OBVIOUS
<1> HIDE DEF t
<1>6. s.kind = "https" /\ s.tls = t BY <1>1
<1> HIDE DEF s
<1>7. IsGreeting(t) BY <1>2, <1>6 DEF IsStream
<1>8. DOMAIN r = 1..2 BY <1>3, <1>5, <1>7, GreetingFacts
<1>9. Gathered(r, 0) = 0 /\ Gathered(r, 1) = 1 /\ Gathered(r, 2) = 2
  <2>1. /\ Gathered(r, 0) = 0
        /\ \A k \in 1..2 : Gathered(r, k) = Gathered(r, k - 1) + r[k].size
    BY <1>3, <1>5, <1>7, GreetingFacts, GatheredAdds
  <2>2. Gathered(r, 1) = Gathered(r, 0) + 1
    <3>1. Gathered(r, 1) = Gathered(r, 1 - 1) + r[1].size BY <2>1
    <3> QED BY <1>3, <3>1
  <2>3. Gathered(r, 2) = Gathered(r, 1) + 1
    <3>1. Gathered(r, 2) = Gathered(r, 2 - 1) + r[2].size BY <2>1
    <3> QED BY <1>3, <3>1
  <2> QED BY <2>1, <2>2, <2>3
<1>10. Start(r, 1) = 0 /\ Start(r, 2) = 2 /\ Start(r, 3) = 4
  <2>1. Start(r, 1) = Gathered(r, 1 - 1) + (1 - 1) /\ Start(r, 2) = Gathered(r, 2 - 1) + (2 - 1)
        /\ Start(r, 3) = Gathered(r, 3 - 1) + (3 - 1)
    BY DEF Start
  <2>2. 1 - 1 = 0 /\ 2 - 1 = 1 /\ 3 - 1 = 2 OBVIOUS
  <2>3. Start(r, 1) = Gathered(r, 0) + 0 /\ Start(r, 2) = Gathered(r, 1) + 1 /\ Start(r, 3) = Gathered(r, 2) + 2
    BY <2>1, <2>2
  <2> QED BY <1>9, <2>3
<1>11. Length(s) = 4
  <2>1. Len(r) + 1 = 3 BY <1>3
  <2> QED BY <1>5, <1>6, <1>10, <2>1 DEF Length
<1>12. \A j \in 1..2 : Whole(t, 4, j) /\ ~Bad(t, 4, j) /\ ~Over(t, 4, j)
  <2>1. \A j \in 1..2 : j = 1 \/ j = 2 OBVIOUS
  <2>2. Start(r, 1 + 1) = 2 /\ Start(r, 2 + 1) = 4
    <3>1. 1 + 1 = 2 /\ 2 + 1 = 3 OBVIOUS
    <3> QED BY <1>10, <3>1
  <2>3. Whole(t, 4, 1) /\ Whole(t, 4, 2) BY <1>5, <1>8, <2>2 DEF Whole
  <2>4. r[1].type = "handshake" /\ r[2].type = "handshake" /\ r[1].size = 1 /\ r[2].size = 1 BY <1>3
  <2>5. MaxHeaderBytes \in Nat /\ MaxHeaderBytes >= 4 BY NamesAssumption, ClientsAssumption
  <2>6. ~Bad(t, 4, 1) /\ ~Bad(t, 4, 2) BY <1>5, <2>4, <2>5 DEF Bad, MaxRecord
  <2>7. ~Over(t, 4, 1) /\ ~Over(t, 4, 2) BY <1>5, <1>9, <2>5 DEF Over
  <2> QED BY <2>1, <2>3, <2>6, <2>7
<1>13. ReadTo(t, 4, 2)
  <2>1. \A j \in 1..2 : j < 2 => j = 1 OBVIOUS
  <2>2. \A j \in 1..2 : j < 2 => Gathered(t.records, j) < t.want BY <1>5, <1>9, <2>1
  <2> QED BY <1>12, <2>2 DEF ReadTo
<1>14. ~ReadTo(t, 4, 3)
  <2>1. 3 \in 1..3 /\ ~Whole(t, 4, 3) BY <1>5, <1>8 DEF Whole
  <2> QED BY <2>1 DEF ReadTo
<1>15. LastRead(t, 4) = 2
  <2>1. Len(t.records) = 2 BY <1>3, <1>5
  <2>2. 2 + 1 = 3 /\ 2 \in 0..2 OBVIOUS
  <2> QED BY <1>7, <1>13, <1>14, <2>1, <2>2, LastReadIs
<1>16. SNIFromClientHello(t, 4) = Ok(h)
  <2>1. Gathered(t.records, LastRead(t, 4)) = 2 BY <1>5, <1>9, <1>15
  <2>2. 4 \in Nat /\ 2 >= t.want /\ 2 # 0 BY <1>5
  <2>3. NameOf(t.extensions) = Ok(h) /\ Ok(h).ok BY <1>4, <1>5 DEF Ok
  <2> QED BY <1>4, <1>5, <1>7, <2>1, <2>2, <2>3, GreetingTells
<1> QED BY <1>6, <1>11, <1>16 DEF name, s

\* A name that is answered is routed to the server it belongs to.
LEMMA AnsweredIsRouted ==
  ASSUME NEW q \in Lookups, Respond(q) = "loopback", NEW h \in Hosts, h.labels = q.questions[1].name,
         h.form = "name", h.port # "junk", ~IsProbe(h.labels), ToSet(h.labels) \subseteq ValidLabels
  PROVE  ~Empty(h) /\ Route(h).ok /\ Route(h).value.server = ServerOf(h.labels)
<1> DEFINE n == h.labels
<1>1. n \in Seq(STRING) /\ Suffix \in Seq(STRING) BY NamesAssumption DEF Hosts
<1>2. AnswerTo(n, q.questions[1].type) = "loopback" BY DEF Respond
<1>3. InSuffix(n) /\ n # Suffix /\ Split(n).ok /\ Manages(Split(n).value.server) BY <1>2 DEF AnswerTo
<1>4. n # << >>
  <2>1. Len(Suffix) <= Len(n) BY <1>1, <1>3, SuffixMeans DEF InSuffix
  <2>2. Len(Suffix) \in Nat /\ Len(Suffix) # 0 BY NamesAssumption, EmptySeq, LenProperties
  <2> QED BY <2>1, <2>2
<1>5. ~Empty(h) BY <1>4 DEF Empty
<1>6. NormalizeHost(h) = Ok(n) BY <1>5 DEF NormalizeHost, LabelsOf
<1>7. Split(n).value.server = ServerOf(n) BY <1>3 DEF Split, Ok
<1>8. NormalizeHost(h).ok /\ NormalizeHost(h).value = n BY <1>6 DEF Ok
<1> HIDE DEF n
<1>9. Route(h) = Ok([server |-> Split(n).value.server, host |-> n]) BY <1>3, <1>8 DEF Route
<1>10. Route(h).ok /\ Route(h).value.server = Split(n).value.server BY <1>9 DEF Ok
<1> QED BY <1>5, <1>7, <1>10 DEF n

\* What an honest connection for a name that was answered comes to.
LEMMA HonestIsServed == IInv => AnsweredIsServed
<1> SUFFICES ASSUME IInv, NEW c \in Conns, honest[c], ~IsProbe(AskedName(c)),
                    ToSet(AskedName(c)) \subseteq ValidLabels
             PROVE  /\ state[c] \notin {"refused", "tooLong"}
                    /\ state[c] = "routed" => server[c] = ServerOf(AskedName(c))
  BY DEF AnsweredIsServed
<1> USE DEF IInv
<1>1. answer[c] = "loopback" BY DEF Honest
<1>2. looked[c] \in Lookups /\ Respond(looked[c]) = "loopback" BY <1>1 DEF Base, Asked
<1>3. PICK kind \in {"http", "https"}, w \in Written : stream[c] = Plain(kind, [w EXCEPT !.labels = AskedName(c)])
  BY DEF Honest
<1> DEFINE h == [w EXCEPT !.labels = AskedName(c)]
           s == stream[c]
<1>4. h \in Hosts /\ h.labels = AskedName(c) /\ h.form = "name" /\ h.port # "junk" BY <1>1, PlainIsAsked
<1>5. s = Plain(kind, h) BY <1>3
<1> HIDE DEF h, s
<1>6. ~Empty(h) /\ Route(h).ok /\ Route(h).value.server = ServerOf(AskedName(c))
  BY <1>2, <1>4, AnsweredIsRouted DEF AskedName
<1>7. Length(s) = 4 /\ name(s, 4) = Ok(h)
  <2>1. CASE kind = "http" BY <1>4, <1>5, <1>6, <2>1, PlainRequestTells
  <2>2. CASE kind = "https" BY <1>4, <1>5, <1>6, <2>2, PlainGreetingTells
  <2> QED BY <2>1, <2>2
<1>8. name(s, 4).ok /\ name(s, 4).value = h BY <1>7 DEF Ok
<1>9. PacketsDoNotDecide BY PrefixDecides
<1>10. state[c] # "refused" BY <1>6, <1>7, <1>8, <1>9 DEF PacketsDoNotDecide, s
<1>11. state[c] # "tooLong"
  <2>1. 4 \in 1..MaxHeaderBytes BY NamesAssumption, ClientsAssumption
  <2> QED BY <1>8, <1>9, <2>1 DEF PacketsDoNotDecide, s
<1>12. state[c] = "routed" => server[c] = ServerOf(AskedName(c))
  BY <1>6, <1>7, <1>8, <1>9 DEF PacketsDoNotDecide, s
<1> QED BY <1>10, <1>11, <1>12

-----------------------------------------------------------------------------
(* The theorems about NameEdge. *)

\* The invariant is one.
LEMMA Invariance == Spec => []IInv
BY IInvInit, IInvStep, PTL DEF Spec

\* The variables keep their types: what is routed goes to a managed server, and
\* what an edge reads is a stream, for any clients and any number of runs.
THEOREM TypeCorrect == Spec => []TypeOK
<1>1. IInv => TypeOK BY DEF IInv, Base
<1> QED BY <1>1, Invariance, PTL

\* Where a connection goes depends on what was sent and not on its packets, and
\* every host of a request, and every name in a greeting's first server_name
\* extension, belongs to the server it went to: the peekers and Route.
THEOREM RoutingIsSound == Spec => []RoutedAsSent
<1>1. IInv => RoutedAsSent BY PrefixDecides, OneReading DEF RoutedAsSent
<1> QED BY <1>1, Invariance, PTL

\* A name that the responder answers is one that the edges route, to the server
\* it belongs to, however its host is written: Respond against Zone.Route.
THEOREM AnswersAreServed == Spec => []AnsweredIsServed
BY HonestIsServed, Invariance, PTL

\* The verdict of a diagnosis is the truth unless its label was dropped to make
\* room, and the latch is bounded: noteProbe and SawProbe.
THEOREM ProbesAreTrue == Spec => []ProbeTellsTheTruth
<1>1. IInv => ProbeTellsTheTruth BY DEF IInv, Base
<1> QED BY <1>1, Invariance, PTL

-----------------------------------------------------------------------------
(* DaemonRun: the edges from the time Run starts them until it has closed  *)
(* them.                                                                   *)
\* Run closes the edges in turn, and joins one only after closing its listeners.
Closing ==
  /\ rpc \in {"start", "up", "names", "pool"} => at = 1
  /\ rpc \in {"close", "join"} => at <= Len(Order)
  /\ rpc = "join" => \A l \in Order[at] : l \notin lnOpen

\* A handler belongs to a connection that was accepted.
Handled == \A c \in EdgeConns : hpc[c] # "none" => c \in 1..accepted

DaemonInv == RunTypeOK /\ ClosedEdgesAreQuiet /\ Closing /\ Handled

\* Run starts with every listener open and no connection.
LEMMA DaemonInit ==
  ASSUME RunInit
  PROVE  DaemonInv
<1>1. Len(Order) \in Nat BY LenProperties, OrderAssumption
<1>2. accepted = 0 /\ 1..0 = {} /\ via = << >> BY DEF RunInit
<1>3. via \in [1..accepted -> Listeners]
  <2>1. << >> \in Seq(Listeners) /\ Len(<< >>) = 0 BY EmptySeq
  <2> QED BY <1>2, <2>1, LenProperties
<1>4. hpc \in [EdgeConns -> {"none", "finish", "done"} \cup Deciding \cup Serving]
  BY DEF RunInit
<1>5. RunTypeOK
  <2>1. at \in 1..Len(Order) + 1 /\ accepted \in 0..MaxConns BY <1>1, BoundsAssumption DEF RunInit
  <2>2. sem \in [NameRouted -> 0..MaxInFlight] BY BoundsAssumption DEF RunInit
  <2>3. /\ rpc = "start" /\ ctxDone \in BOOLEAN /\ poolOpen \in BOOLEAN /\ lnOpen \subseteq Listeners
        /\ loop \in [Listeners -> {"none", "new", "accept", "done"}]
        /\ watcher \in [Listeners -> {"none", "wait", "done"}]
    BY DEF RunInit
  <2> QED BY <1>3, <1>4, <2>1, <2>2, <2>3 DEF RunTypeOK
<1>6. \A l : Active(l) = {} BY <1>2 DEF Active
<1>7. ClosedEdgesAreQuiet
  <2>1. \A l \in NameRouted : sem[l] = Cardinality(Active(l)) BY <1>6, FS_EmptySet DEF RunInit
  <2>2. 1..(at - 1) = {} BY DEF RunInit
  <2> QED BY <2>1, <2>2 DEF ClosedEdgesAreQuiet
<1>8. Closing BY <1>1 DEF RunInit, Closing
<1>9. Handled BY DEF RunInit, Handled
<1> QED BY <1>5, <1>7, <1>8, <1>9 DEF DaemonInv

\* What Run does to its edges it does one edge after the other.
LEMMA RunStep ==
  ASSUME DaemonInv, RunSteps \/ Cancel
  PROVE  DaemonInv'
<1> USE DEF DaemonInv
<1>1. Len(Order) \in Nat BY LenProperties, OrderAssumption
<1>2. UNCHANGED <<accepted, via, hpc, sem>>
  BY DEF RunSteps, Cancel, RunStarts, StartFails, CloseServer, CloseResolver,
         ClosePool, CloseEdge, JoinEdge, NextEdge, Exit, handlers
<1>3. Handled' BY <1>2 DEF Handled, EdgeConns
<1>4. \A l : Active(l)' = Active(l) BY <1>2 DEF Active
<1>5. /\ via' \in [1..accepted' -> Listeners] /\ accepted' \in 0..MaxConns
      /\ hpc' \in [EdgeConns -> {"none", "finish", "done"} \cup Deciding \cup Serving]
      /\ sem' \in [NameRouted -> 0..MaxInFlight]
  BY <1>2 DEF RunTypeOK
<1>6. \A l \in NameRouted : sem'[l] = Cardinality(Active(l)') BY <1>2, <1>4 DEF ClosedEdgesAreQuiet
<1>7. CASE RunStarts
  <2>1. at = 1 /\ at' = 1 BY <1>7 DEF Closing, RunStarts
  <2>2. 1..(at' - 1) = {} BY <2>1
  <2>3. ClosedEdgesAreQuiet' BY <1>6, <2>2 DEF ClosedEdgesAreQuiet
  <2>4. RunTypeOK' BY <1>5, <1>7 DEF RunStarts, RunTypeOK
  <2>5. Closing' BY <1>7, <2>1 DEF RunStarts, Closing
  <2> QED BY <1>3, <2>3, <2>4, <2>5
<1>8. CASE CloseEdge
  <2>1. RunTypeOK' BY <1>5, <1>8 DEF CloseEdge, RunTypeOK
  <2>2. Closing' BY <1>8 DEF CloseEdge, Closing
  <2>3. \A i \in 1..(at' - 1) : \A l \in Order[i] :
          l \notin lnOpen' /\ loop'[l] = "done" /\ watcher'[l] = "done" /\ Active(l)' = {}
    BY <1>4, <1>8 DEF CloseEdge, ClosedEdgesAreQuiet
  <2> QED BY <1>3, <1>6, <2>1, <2>2, <2>3 DEF ClosedEdgesAreQuiet
<1>9. CASE JoinEdge
  <2>1. /\ rpc = "join" /\ at' = at + 1 /\ UNCHANGED <<ctxDone, poolOpen, lnOpen, loop, watcher>>
        /\ rpc' = IF at = Len(Order) THEN "drain" ELSE "close"
        /\ \A l \in Order[at] : loop[l] = "done" /\ watcher[l] = "done" /\ Active(l) = {}
    BY <1>9 DEF JoinEdge, NextEdge, edges
  <2>2. at \in 1..Len(Order) /\ \A l \in Order[at] : l \notin lnOpen BY <1>1, <2>1 DEF Closing, RunTypeOK
  <2>3. RunTypeOK' BY <1>1, <1>5, <2>1, <2>2 DEF RunTypeOK
  <2>4. Closing' BY <1>1, <2>1, <2>2 DEF Closing
  <2>5. ASSUME NEW i \in 1..(at' - 1), NEW l \in Order[i]
        PROVE  l \notin lnOpen' /\ loop'[l] = "done" /\ watcher'[l] = "done" /\ Active(l)' = {}
    <3>1. i = at \/ i \in 1..(at - 1) BY <2>1, <2>2
    <3>2. CASE i = at BY <1>4, <2>1, <2>2, <3>2
    <3>3. CASE i \in 1..(at - 1) BY <1>4, <2>1, <3>3 DEF ClosedEdgesAreQuiet
    <3> QED BY <3>1, <3>2, <3>3
  <2> QED BY <1>3, <1>6, <2>3, <2>4, <2>5 DEF ClosedEdgesAreQuiet
<1>10. CASE \/ Cancel \/ StartFails \/ CloseServer \/ CloseResolver
            \/ ClosePool \/ Exit
  <2> USE <1>10 DEF Cancel, StartFails, CloseServer, CloseResolver, ClosePool,
                    Exit, edges
  <2>1. UNCHANGED <<at, lnOpen, loop, watcher>> OBVIOUS
  <2>2. RunTypeOK' BY <1>5 DEF RunTypeOK
  <2>3. Closing'
    <3>1. Order # << >> => 1 <= Len(Order) BY <1>1, EmptySeq, OrderAssumption
    <3> QED BY <3>1 DEF Closing
  <2>4. ClosedEdgesAreQuiet' BY <1>4, <1>6, <2>1 DEF ClosedEdgesAreQuiet
  <2> QED BY <1>3, <2>2, <2>3, <2>4
<1> QED BY <1>7, <1>8, <1>9, <1>10 DEF RunSteps

\* The loop and the watcher of a listener, and its listener, only end.
LEMMA ListenerStep ==
  ASSUME DaemonInv, NEW l \in Listeners,
         LoopStarts(l) \/ WatcherEnds(l) \/ AcceptFails(l)
  PROVE  DaemonInv'
<1> USE DEF DaemonInv
<1>1. /\ UNCHANGED <<rpc, at, ctxDone, poolOpen, accepted, via, hpc, sem>> /\ lnOpen' \subseteq lnOpen
      /\ loop' \in [Listeners -> {"none", "new", "accept", "done"}]
      /\ watcher' \in [Listeners -> {"none", "wait", "done"}]
      /\ \A m \in Listeners : loop[m] = "done" /\ watcher[m] = "done" => loop'[m] = "done" /\ watcher'[m] = "done"
  <2>1. CASE LoopStarts(l) BY <2>1 DEF LoopStarts, RunTypeOK, run, handlers
  <2>2. CASE WatcherEnds(l) BY <2>2 DEF WatcherEnds, RunTypeOK, run, handlers
  <2>3. CASE AcceptFails(l) BY <2>3 DEF AcceptFails, RunTypeOK, run, handlers
  <2> QED BY <2>1, <2>2, <2>3
<1>2. \A m : Active(m)' = Active(m) BY <1>1 DEF Active
<1>3. RunTypeOK' BY <1>1 DEF RunTypeOK
<1>4. Closing' /\ Handled' BY <1>1 DEF Closing, Handled, EdgeConns
<1>5. \A i \in 1..(at - 1) : \A m \in Order[i] : m \in Listeners
  <2>1. DOMAIN Order = 1..Len(Order) /\ Len(Order) \in Nat BY LenProperties, OrderAssumption
  <2>2. \A i \in 1..(at - 1) : i \in DOMAIN Order BY <2>1 DEF RunTypeOK
  <2> QED BY <2>2 DEF Listeners
<1>6. ClosedEdgesAreQuiet' BY <1>1, <1>2, <1>5 DEF ClosedEdgesAreQuiet
<1> QED BY <1>3, <1>4, <1>6

\* The handlers of a listener are finitely many.
LEMMA ActiveIsFinite ==
  ASSUME DaemonInv, NEW l
  PROVE  /\ IsFiniteSet(Active(l)) /\ Cardinality(Active(l)) \in Nat
         /\ Cardinality(Active(l)) = Cardinality(Active(l))
<1>1. accepted \in Nat BY DEF DaemonInv, RunTypeOK
<1>2. IsFiniteSet(1..accepted) BY <1>1, FS_Interval
<1>3. Active(l) \in SUBSET (1..accepted) BY DEF Active
<1> QED BY <1>2, <1>3, FS_Subset, FS_CardinalityType

\* Only a listener whose loop runs has a new handler.
LEMMA AcceptStep ==
  ASSUME DaemonInv, NEW l \in Listeners,
         AcceptLocal(l) \/ AcceptNamed(l) \/ RefuseConn(l)
  PROVE  DaemonInv'
<1> USE DEF DaemonInv
<1> DEFINE new == accepted + 1
<1>1. PICK pc \in {"session", "peek", "done"} :
        /\ StartHandler(l, pc)
        /\ pc # "done" /\ l \in NameRouted => sem[l] < MaxInFlight /\ sem' = [sem EXCEPT ![l] = @ + 1]
        /\ pc = "done" \/ l \notin NameRouted => sem' = sem
  BY DEF AcceptLocal, AcceptNamed, RefuseConn
<1>2. /\ loop[l] = "accept" /\ accepted < MaxConns /\ accepted' = new
      /\ via' = Append(via, l) /\ hpc' = [hpc EXCEPT ![new] = pc]
      /\ UNCHANGED <<rpc, at, ctxDone, poolOpen, lnOpen, loop, watcher>>
  BY <1>1 DEF StartHandler, run, edges
<1>3. /\ accepted \in Nat /\ MaxConns \in Nat /\ new \in 1..MaxConns /\ new \notin 1..accepted
      /\ 1..new = (1..accepted) \cup {new} /\ new \in EdgeConns
  BY <1>2, BoundsAssumption DEF RunTypeOK, EdgeConns
<1>4. via \in Seq(Listeners) /\ Len(via) = accepted
  <2>1. via \in [1..accepted -> Listeners] BY DEF RunTypeOK
  <2>2. via \in Seq(Listeners) BY <1>3, <2>1, SeqDef
  <2>3. DOMAIN via = 1..accepted BY <2>1
  <2>4. DOMAIN via = 1..Len(via) /\ Len(via) \in Nat BY <2>2, LenProperties
  <2>5. 1..Len(via) = 1..accepted BY <2>3, <2>4
  <2>6. ~(Len(via) < accepted)
    <3>1. Len(via) < accepted => accepted \in 1..accepted /\ accepted \notin 1..Len(via) BY <1>3, <2>4
    <3> QED BY <2>5, <3>1
  <2>7. ~(accepted < Len(via))
    <3>1. accepted < Len(via) => Len(via) \in 1..Len(via) /\ Len(via) \notin 1..accepted BY <1>3, <2>4
    <3> QED BY <2>5, <3>1
  <2>8. \A m, n \in Nat : ~(m < n) /\ ~(n < m) => m = n OBVIOUS
  <2>9. Len(via) = accepted BY <1>3, <2>4, <2>6, <2>7, <2>8
  <2> QED BY <2>2, <2>9
<1>5. /\ via' \in [1..new -> Listeners] /\ via'[new] = l
      /\ \A i \in 1..accepted : via'[i] = via[i]
  <2>1. /\ Append(via, l) \in Seq(Listeners) /\ Len(Append(via, l)) = new
        /\ \A i \in 1..accepted : Append(via, l)[i] = via[i]
        /\ Append(via, l)[new] = l
    BY <1>4, AppendProperties
  <2> QED BY <1>2, <2>1, LenProperties
<1> HIDE DEF new
<1>6. /\ hpc' \in [EdgeConns -> {"none", "finish", "done"} \cup Deciding \cup Serving]
      /\ hpc'[new] = pc /\ \A c \in EdgeConns : c # new => hpc'[c] = hpc[c]
  BY <1>2, <1>3 DEF RunTypeOK, Deciding
<1>7. \A c \in 1..accepted : c \in EdgeConns /\ c # new BY <1>3 DEF EdgeConns, RunTypeOK
<1>8. Active(l)' = IF pc = "done" THEN Active(l) ELSE Active(l) \cup {new}
  BY <1>2, <1>3, <1>5, <1>6, <1>7 DEF Active
<1>9. \A m : m # l => Active(m)' = Active(m)
  BY <1>2, <1>3, <1>5, <1>6, <1>7 DEF Active
<1>10. new \notin Active(l) BY <1>3 DEF Active
<1>11. sem' \in [NameRouted -> 0..MaxInFlight] /\ \A m \in NameRouted : sem'[m] = Cardinality(Active(m)')
  <2>1. sem \in [NameRouted -> 0..MaxInFlight] /\ MaxInFlight \in Nat BY BoundsAssumption DEF RunTypeOK
  <2>2. \A m \in NameRouted : sem[m] = Cardinality(Active(m)) BY DEF ClosedEdgesAreQuiet
  <2>3. CASE pc = "done" \/ l \notin NameRouted BY <1>1, <1>8, <1>9, <2>1, <2>2, <2>3
  <2>4. CASE pc # "done" /\ l \in NameRouted
    <3>1. sem' \in [NameRouted -> 0..MaxInFlight] /\ sem'[l] = sem[l] + 1 /\ \A m \in NameRouted : m # l => sem'[m] = sem[m]
      BY <1>1, <2>1, <2>4
    <3>2. Cardinality(Active(l) \cup {new}) = Cardinality(Active(l)) + 1
      BY <1>10, ActiveIsFinite, FS_AddElement
    <3>3. Active(l)' = Active(l) \cup {new} BY <1>8, <2>4
    <3>4. Cardinality(Active(l)') = sem[l] + 1
      BY <2>2, <2>4, <3>2, <3>3, ActiveIsFinite
    <3> QED BY <1>9, <2>2, <2>4, <3>1, <3>4
  <2> QED BY <2>3, <2>4
<1>12. ASSUME NEW i \in 1..(at - 1), NEW m \in Order[i]
       PROVE  m \notin lnOpen' /\ loop'[m] = "done" /\ watcher'[m] = "done" /\ Active(m)' = {}
  <2>1. m \notin lnOpen /\ loop[m] = "done" /\ watcher[m] = "done" /\ Active(m) = {}
    BY DEF ClosedEdgesAreQuiet
  <2>2. m # l BY <1>2, <2>1
  <2> QED BY <1>2, <1>9, <2>1, <2>2
<1>13. ClosedEdgesAreQuiet' BY <1>2, <1>11, <1>12 DEF ClosedEdgesAreQuiet
<1>14. RunTypeOK'
  <2>1. accepted' \in 0..MaxConns /\ via' \in [1..accepted' -> Listeners] BY <1>2, <1>3, <1>5
  <2> QED BY <1>2, <1>6, <1>11, <2>1 DEF RunTypeOK
<1>15. Closing' BY <1>2 DEF Closing
<1>16. Handled' BY <1>2, <1>3, <1>6 DEF Handled, EdgeConns
<1> QED BY <1>13, <1>14, <1>15, <1>16

\* A handler that goes on holds its slot, and one that ends gives it back.
LEMMA DaemonHandlerStep ==
  ASSUME DaemonInv, NEW c \in EdgeConns, Handler(c)
  PROVE  DaemonInv'
<1> USE DEF DaemonInv
<1> DEFINE Steps == {"finish"} \cup Deciding \cup Serving
<1>1. PICK pc \in Steps \cup {"done"} :
        /\ hpc[c] \in Steps /\ Goes(c, pc)
        /\ pc # "done" => sem' = sem
        /\ pc = "done" => sem' = [l \in NameRouted |-> IF l = via[c] THEN sem[l] - 1 ELSE sem[l]]
  BY DEF Handler, PeekRoutes, PeekFails, SessionReady, SessionNotReady,
         AttachOk, AttachFails, SpliceWedges, SpliceResumes, SpliceEnds,
         Finish, Deciding, Serving
<1>2. /\ hpc' = [hpc EXCEPT ![c] = pc]
      /\ UNCHANGED <<rpc, at, ctxDone, poolOpen, lnOpen, loop, watcher, accepted, via>>
  BY <1>1 DEF Goes, run, edges
<1>3. "none" \notin Steps /\ "done" \notin Steps BY DEF Deciding, Serving
<1>4. /\ hpc' \in [EdgeConns -> {"none", "finish", "done"} \cup Deciding \cup Serving]
      /\ hpc'[c] = pc /\ \A d \in EdgeConns : d # c => hpc'[d] = hpc[d]
  BY <1>1, <1>2 DEF RunTypeOK
<1> HIDE DEF Steps
<1>5. c \in 1..accepted /\ hpc[c] # "done" /\ hpc[c] # "none" BY <1>1, <1>3 DEF Handled
<1>6. \A d \in 1..accepted : d \in EdgeConns BY BoundsAssumption DEF EdgeConns, RunTypeOK
<1> PICK l : l = via[c] OBVIOUS
<1>7. c \in Active(l) BY <1>5 DEF Active
<1>8. Active(l)' = IF pc = "done" THEN Active(l) \ {c} ELSE Active(l)
  BY <1>2, <1>4, <1>5, <1>6 DEF Active
<1>9. \A m : m # l => Active(m)' = Active(m) BY <1>2, <1>4, <1>6 DEF Active
<1>10. sem' \in [NameRouted -> 0..MaxInFlight] /\ \A m \in NameRouted : sem'[m] = Cardinality(Active(m)')
  <2>1. sem \in [NameRouted -> 0..MaxInFlight] /\ MaxInFlight \in Nat BY BoundsAssumption DEF RunTypeOK
  <2>2. \A m \in NameRouted : sem[m] = Cardinality(Active(m)) BY DEF ClosedEdgesAreQuiet
  <2>3. CASE pc # "done"
    <3>1. sem' = sem /\ Active(l)' = Active(l) BY <1>1, <1>8, <2>3
    <3>2. \A m : Active(m)' = Active(m) BY <1>9, <3>1
    <3> QED BY <2>1, <2>2, <3>1, <3>2
  <2>4. CASE pc = "done"
    <3>1. sem' = [m \in NameRouted |-> IF m = l THEN sem[m] - 1 ELSE sem[m]] BY <1>1, <2>4
    <3>2. Cardinality(Active(l) \ {c}) = Cardinality(Active(l)) - 1
          /\ Cardinality(Active(l) \ {c}) \in Nat
      BY <1>7, ActiveIsFinite, FS_RemoveElement, FS_CardinalityType
    <3>3. Active(l)' = Active(l) \ {c} BY <1>8, <2>4
    <3>4. l \in NameRouted => Cardinality(Active(l)') = sem[l] - 1 /\ sem[l] - 1 \in Nat
      BY <2>2, <3>2, <3>3, ActiveIsFinite
    <3>5. ASSUME NEW m \in NameRouted PROVE sem'[m] = Cardinality(Active(m)')
      <4>1. CASE m = l BY <3>1, <3>4, <4>1
      <4>2. CASE m # l BY <1>9, <2>2, <3>1, <4>2
      <4> QED BY <4>1, <4>2
    <3>6. sem' \in [NameRouted -> 0..MaxInFlight] BY <2>1, <3>1, <3>4
    <3> QED BY <3>5, <3>6
  <2> QED BY <2>3, <2>4
<1>11. \A i \in 1..(at - 1) : \A m \in Order[i] : m # l BY <1>7 DEF ClosedEdgesAreQuiet
<1>12. ClosedEdgesAreQuiet' BY <1>2, <1>9, <1>10, <1>11 DEF ClosedEdgesAreQuiet
<1>13. RunTypeOK' BY <1>2, <1>4, <1>10 DEF RunTypeOK
<1>14. Closing' BY <1>2 DEF Closing
<1>15. Handled' BY <1>2, <1>4, <1>5 DEF Handled, EdgeConns
<1> QED BY <1>12, <1>13, <1>14, <1>15

\* The invariant of the daemon's edges is one.
THEOREM DaemonInvariance == RunSpec => []DaemonInv
<1>1. DaemonInv /\ UNCHANGED runVars => DaemonInv'
  <2> SUFFICES ASSUME DaemonInv, UNCHANGED runVars PROVE DaemonInv' OBVIOUS
  <2>1. UNCHANGED <<rpc, at, ctxDone, poolOpen, lnOpen, loop, watcher, accepted, via, hpc, sem>>
    BY DEF runVars, run, edges, handlers
  <2>2. \A m : Active(m)' = Active(m) BY <2>1 DEF Active
  <2>3. ClosedEdgesAreQuiet' BY <2>1, <2>2 DEF DaemonInv, ClosedEdgesAreQuiet
  <2>4. RunTypeOK' BY <2>1 DEF DaemonInv, RunTypeOK
  <2>5. Closing' /\ Handled' BY <2>1 DEF DaemonInv, Closing, Handled, EdgeConns
  <2> QED BY <2>3, <2>4, <2>5 DEF DaemonInv
<1>2. DaemonInv /\ [RunNext]_runVars => DaemonInv'
  BY <1>1, RunStep, ListenerStep, AcceptStep, DaemonHandlerStep DEF RunNext
<1> QED BY DaemonInit, <1>2, PTL DEF RunSpec

\* The variables of the daemon's edges keep their types, and no HostEdge serves
\* more than maxInFlightPeeks connections, for any edges in any order.
THEOREM DaemonTypeCorrect == RunSpec => []RunTypeOK
BY DaemonInvariance, PTL DEF DaemonInv

\* Once Close of an edge has returned nothing of it runs or starts again, and
\* the slots of sem are those of the handlers there are, all along.
THEOREM ClosedIsClosed == RunSpec => []ClosedEdgesAreQuiet
BY DaemonInvariance, PTL DEF DaemonInv
=============================================================================
