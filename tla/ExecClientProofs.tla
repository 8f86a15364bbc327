-------------------------- MODULE ExecClientProofs --------------------------
(***************************************************************************)
(* Proofs about the client of an exec server, in three parts: the output   *)
(* of a process and its reader (ProcessOutput), for any streams, chunk     *)
(* sizes, limits and numbers of chunks; the events of the process that the *)
(* client publishes (ProcessEvents), for any order of arrival and any      *)
(* capacity of the event log; and the client's calls (ClientCalls), for    *)
(* any finite set of calls and any capacity of the outgoing queue.  The    *)
(* second part rests on the first, since the composition takes only steps  *)
(* of the process or none; the third is about other variables.             *)
(*                                                                         *)
(* A page and the retained chunks are delimited by sums of sizes, which    *)
(* are folds.  What such a sum is, that the order of summation does not    *)
(* matter and that it grows with the set are proved by hand: a least       *)
(* cardinality at which the claim fails is found and refuted.              *)
(***************************************************************************)
EXTENDS ProcessEvents, ClientCalls, FiniteSetTheorems, WellFoundedInduction, TLAPS

\* The reader's position, what it read and what is retained are all behind the
\* counter, in that order.
BehindCounter ==
    /\ after < nextSeq
    /\ \A c \in output : c.seq < nextSeq
    /\ \A n \in got \cup page : n <= after

\* The inductive invariants: the process, its reader, and the reader's sleep.
PInv == OutputTypeOK /\ NumberedWithoutGaps /\ ClosedIsLast
RInv == BehindCounter /\ ReadOnceInOrder

Numbered(events)   == \A i \in DOMAIN events : events[i].seq = i
NoneClosed(events) == \A i \in DOMAIN events : events[i].kind # "closed"

\* A nonempty set of natural numbers has a least element.
LEMMA LeastNatural ==
  ASSUME NEW T \in SUBSET Nat, T # {}
  PROVE  \E m \in T : \A n \in T : m <= n
<1>1. PICK m \in T : \A n \in T : ~ <<n, m>> \in OpToRel(<, Nat)
  BY NatLessThanWellFounded, WFMin
<1>2. \A n \in T : ~ n < m
  BY <1>1 DEF OpToRel
<1> QED BY <1>2

\* A nonempty bounded set of natural numbers has a maximum: the least of its
\* bounds is a member.
LEMMA MaxOfBounded ==
  ASSUME NEW S \in SUBSET Nat, S # {}, NEW b \in Nat, \A n \in S : n <= b
  PROVE  Max(S) \in S /\ \A n \in S : n <= Max(S)
<1> DEFINE T == {k \in Nat : \A n \in S : n <= k}
<1>1. b \in T /\ T \in SUBSET Nat
  OBVIOUS
<1>2. PICK m \in T : \A k \in T : m <= k
  BY <1>1, LeastNatural
<1>3. m \in S
  <2>1. SUFFICES ASSUME m \notin S PROVE FALSE
    OBVIOUS
  <2>2. \A n \in S : n \in Nat /\ n <= m /\ n # m
    BY <2>1, <1>2
  <2>3. m \in Nat \ {0}
    <3>1. PICK n \in S : TRUE
      OBVIOUS
    <3> QED BY <3>1, <2>2, <1>2
  <2>4. m - 1 \in Nat /\ \A n \in S : n <= m - 1
    BY <2>2, <2>3
  <2> QED BY <2>3, <2>4, <1>2
<1>4. m \in S /\ \A n \in S : m >= n
  BY <1>2, <1>3
<1>5. Max(S) \in S /\ \A n \in S : Max(S) >= n
  BY <1>4 DEF Max
<1> QED BY <1>5

\* The member that a sum takes next, and the function that adds up the
\* subsets of S.
Taken(S) == CHOOSE c \in S : TRUE
Adds(f, S) == f = [s \in SUBSET S |-> IF s = {} THEN 0
                                      ELSE Taken(s).size + f[s \ {Taken(s)}]]

\* A sum takes a member of a nonempty set.
LEMMA TakenIn == \A S : S # {} => Taken(S) \in S
BY DEF Taken

\* A set without one of its members is smaller.
LEMMA SmallerRest ==
  ASSUME NEW S, IsFiniteSet(S), NEW c \in S
  PROVE  /\ IsFiniteSet(S \ {c}) /\ Cardinality(S \ {c}) < Cardinality(S)
         /\ Cardinality(S) \in Nat /\ Cardinality(S \ {c}) \in Nat
BY FS_RemoveElement, FS_CardinalityType

\* Bytes is read off such a function.
LEMMA BytesIsAdded ==
  ASSUME NEW S PROVE Bytes(S) = (CHOOSE f : Adds(f, S))[S]
BY DEF Bytes, MapThenSumSet, MapThenFoldSet, Adds, Taken

\* Two functions that add up agree on the sets that both add up.
LEMMA AddsAgree ==
  ASSUME NEW S, NEW T, NEW f, NEW g, Adds(f, S), Adds(g, T),
         NEW s, IsFiniteSet(s), s \subseteq S, s \subseteq T
  PROVE  f[s] = g[s]
<1> DEFINE Bad == {n \in Nat : \E t \in SUBSET s : Cardinality(t) = n /\ f[t] # g[t]}
<1>1. SUFFICES ASSUME Bad # {} PROVE FALSE
  BY FS_CardinalityType
<1>2. PICK n \in Bad : \A m \in Bad : n <= m
  BY <1>1, LeastNatural
<1>3. PICK t \in SUBSET s : Cardinality(t) = n /\ f[t] # g[t]
  BY <1>2
<1>4. IsFiniteSet(t) /\ t \in SUBSET S /\ t \in SUBSET T
  BY <1>3, FS_Subset
<1>5. t # {}
  BY <1>3, <1>4 DEF Adds
<1> DEFINE rest == t \ {Taken(t)}
<1>6. /\ f[t] = Taken(t).size + f[rest] /\ g[t] = Taken(t).size + g[rest]
  BY <1>4, <1>5 DEF Adds
<1>7. Cardinality(rest) \in Nat /\ Cardinality(rest) < n
  BY <1>3, <1>4, <1>5, TakenIn, SmallerRest
<1>8. rest \in SUBSET s /\ f[rest] # g[rest]
  <2>1. rest \in SUBSET s
    OBVIOUS
  <2> HIDE DEF rest
  <2> QED BY <1>3, <1>6, <2>1
<1>9. Cardinality(rest) \in Bad
  BY <1>7, <1>8
<1> HIDE DEF rest, Bad
<1>10. n \in Nat /\ n <= Cardinality(rest)
  BY <1>2, <1>3, <1>9 DEF Bad
<1> QED BY <1>7, <1>10

\* Every finite set has a function that adds it up.
LEMMA AddsExists ==
  ASSUME NEW S, IsFiniteSet(S)
  PROVE  \E f : Adds(f, S)
<1> DEFINE Bad == {n \in Nat : \E s \in SUBSET S : Cardinality(s) = n /\ ~ \E f : Adds(f, s)}
<1>1. SUFFICES ASSUME Bad # {} PROVE FALSE
  BY FS_CardinalityType
<1>2. PICK n \in Bad : \A m \in Bad : n <= m
  BY <1>1, LeastNatural
<1>3. PICK s \in SUBSET S : Cardinality(s) = n /\ ~ \E f : Adds(f, s)
  BY <1>2
<1>4. IsFiniteSet(s)
  BY FS_Subset
<1> DEFINE F(t) == CHOOSE f : Adds(f, t)
           Sum(t) == IF t = {} THEN 0 ELSE Taken(t).size + F(t \ {Taken(t)})[t \ {Taken(t)}]
           h == [t \in SUBSET s |-> Sum(t)]
<1>5. ASSUME NEW t \in SUBSET s, t # s PROVE Adds(F(t), t)
  <2>1. IsFiniteSet(t) /\ Cardinality(t) \in Nat /\ Cardinality(t) < n
    BY <1>3, <1>4, <1>5, FS_Subset, FS_CardinalityType
  <2>2. Cardinality(t) \notin Bad
    BY <1>2, <2>1
  <2> QED BY <2>1, <2>2
<1>6. ASSUME NEW t \in SUBSET s, t # {}
      PROVE  Sum(t \ {Taken(t)}) = F(t \ {Taken(t)})[t \ {Taken(t)}]
  <2> DEFINE r == t \ {Taken(t)}
  <2>1. r \in SUBSET s /\ r # s /\ Adds(F(r), r) /\ IsFiniteSet(r)
    BY <1>4, <1>5, <1>6, TakenIn, FS_Subset
  <2>2. CASE r = {}
    <3>1. F(r)[r] = 0
      BY <2>1, <2>2 DEF Adds
    <3> QED BY <2>2, <3>1
  <2>3. CASE r # {}
    <3> DEFINE q == r \ {Taken(r)}
    <3>1. F(r)[r] = Taken(r).size + F(r)[q]
      BY <2>1, <2>3 DEF Adds
    <3>2. q \subseteq r /\ q \in SUBSET s /\ q # s
      <4>1. Taken(r) \in r /\ r \subseteq s
        BY <2>1, <2>3, TakenIn
      <4> HIDE DEF r
      <4> QED BY <4>1
    <3>4. Adds(F(q), q) /\ IsFiniteSet(q)
      <4> HIDE DEF q, F
      <4> QED BY <1>4, <1>5, <3>2, FS_Subset
    <3>3. F(r)[q] = F(q)[q]
      <4> HIDE DEF F, r, q
      <4> QED BY <2>1, <3>2, <3>4, AddsAgree
    <3> QED BY <2>3, <3>1, <3>3
  <2> QED BY <2>2, <2>3
<1>7. ASSUME NEW t \in SUBSET s
      PROVE  h[t] = IF t = {} THEN 0 ELSE Taken(t).size + h[t \ {Taken(t)}]
  <2>1. t \ {Taken(t)} \in SUBSET s
    OBVIOUS
  <2>2. h[t] = Sum(t) /\ h[t \ {Taken(t)}] = Sum(t \ {Taken(t)})
    BY <2>1
  <2>3. Sum(t) = IF t = {} THEN 0 ELSE Taken(t).size + Sum(t \ {Taken(t)})
    <3>1. CASE t = {}
      BY <3>1
    <3>2. CASE t # {}
      <4>1. Sum(t) = Taken(t).size + F(t \ {Taken(t)})[t \ {Taken(t)}]
        BY <3>2
      <4> HIDE DEF Sum, F
      <4> QED BY <1>6, <3>2, <4>1
    <3> QED BY <3>1, <3>2
  <2> HIDE DEF Sum, h
  <2> QED BY <2>2, <2>3
<1>8. h = [t \in SUBSET s |-> IF t = {} THEN 0 ELSE Taken(t).size + h[t \ {Taken(t)}]]
  <2> HIDE DEF Sum
  <2>1. h = [t \in SUBSET s |-> h[t]]
    OBVIOUS
  <2> HIDE DEF h
  <2> QED BY <1>7, <2>1
<1>9. Adds(h, s)
  <2> HIDE DEF h
  <2> QED BY <1>8 DEF Adds
<1> QED BY <1>3, <1>9

\* What a sum of sizes computes: nothing for the empty set, and the size of
\* one member more than the sum of the rest.
LEMMA BytesTakes ==
  ASSUME NEW S, IsFiniteSet(S)
  PROVE  Bytes(S) = IF S = {} THEN 0 ELSE Taken(S).size + Bytes(S \ {Taken(S)})
<1> DEFINE F(T) == CHOOSE f : Adds(f, T)
           rest == S \ {Taken(S)}
<1>1. IsFiniteSet(rest) /\ Adds(F(S), S) /\ Adds(F(rest), rest)
  BY AddsExists, FS_Subset
<1>2. F(S)[rest] = F(rest)[rest]
  <2>1. rest \subseteq S
    OBVIOUS
  <2> HIDE DEF F, rest
  <2> QED BY <1>1, <2>1, AddsAgree
<1>3. F(S)[S] = IF S = {} THEN 0 ELSE Taken(S).size + F(S)[rest]
  BY <1>1 DEF Adds
<1>4. Bytes(S) = F(S)[S] /\ Bytes(rest) = F(rest)[rest]
  BY BytesIsAdded
<1> HIDE DEF F
<1> QED BY <1>2, <1>3, <1>4

\* Every chunk holds bytes.
LEMMA SizeIsNatural == \A c \in Chunks : c.size \in Nat
<1>1. \A n \in Sizes : n \in Nat
  BY SizesAssumption
<1> QED BY <1>1 DEF Chunks

\* A sum of sizes is a natural number.
LEMMA BytesIsNatural ==
  ASSUME NEW S \in SUBSET Chunks, IsFiniteSet(S)
  PROVE  Bytes(S) \in Nat
<1> DEFINE Bad == {n \in Nat : \E T \in SUBSET S : Cardinality(T) = n /\ Bytes(T) \notin Nat}
<1>1. SUFFICES ASSUME Bad # {} PROVE FALSE
  BY FS_CardinalityType
<1>2. PICK n \in Bad : \A m \in Bad : n <= m
  BY <1>1, LeastNatural
<1>3. PICK T \in SUBSET S : Cardinality(T) = n /\ Bytes(T) \notin Nat
  BY <1>2
<1> DEFINE rest == T \ {Taken(T)}
<1>4. IsFiniteSet(T) /\ rest \in SUBSET S
  BY FS_Subset
<1>5. T # {} /\ Bytes(T) = Taken(T).size + Bytes(rest)
  BY <1>3, <1>4, BytesTakes
<1>6. Taken(T) \in T /\ Taken(T).size \in Nat
  BY <1>5, TakenIn, SizeIsNatural
<1>7. Cardinality(rest) \in Nat /\ Cardinality(rest) < n
  BY <1>3, <1>4, <1>6, SmallerRest
<1> HIDE DEF rest
<1>8. Bytes(rest) \notin Nat
  BY <1>3, <1>5, <1>6
<1>9. Cardinality(rest) \in Bad
  BY <1>4, <1>7, <1>8
<1> HIDE DEF Bad
<1>10. n \in Nat /\ n <= Cardinality(rest)
  BY <1>2, <1>9, <1>3 DEF Bad
<1> QED BY <1>7, <1>10

\* The order in which a sum takes the members does not matter.
LEMMA BytesWithout ==
  ASSUME NEW S \in SUBSET Chunks, IsFiniteSet(S), NEW c \in S
  PROVE  Bytes(S) = c.size + Bytes(S \ {c})
<1> DEFINE Fails(T, d) == Bytes(T) # d.size + Bytes(T \ {d})
           Bad == {n \in Nat : \E T \in SUBSET S :
                       Cardinality(T) = n /\ \E d \in T : Fails(T, d)}
<1>1. SUFFICES ASSUME Bad # {} PROVE FALSE
  BY FS_CardinalityType
<1>2. PICK n \in Bad : \A m \in Bad : n <= m
  BY <1>1, LeastNatural
<1>3. PICK T \in SUBSET S : Cardinality(T) = n /\ \E d \in T : Fails(T, d)
  BY <1>2
<1>4. PICK d \in T : Fails(T, d)
  BY <1>3
<1> DEFINE e == Taken(T)
<1>5. IsFiniteSet(T) /\ e \in T /\ Bytes(T) = e.size + Bytes(T \ {e})
  BY FS_Subset, TakenIn, BytesTakes
<1>6. ASSUME NEW U \in SUBSET T, U # T, NEW a \in U
      PROVE  Bytes(U) = a.size + Bytes(U \ {a})
  <2>1. IsFiniteSet(U) /\ Cardinality(U) \in Nat /\ Cardinality(U) < n
    BY <1>3, <1>5, <1>6, FS_Subset, FS_CardinalityType
  <2>2. Fails(U, a) => Cardinality(U) \in Bad
    BY <1>3, <1>6, <2>1
  <2> HIDE DEF Bad
  <2>3. n \in Nat /\ (Fails(U, a) => n <= Cardinality(U))
    BY <1>2, <1>3, <2>2 DEF Bad
  <2>4. ~ Fails(U, a)
    <3> HIDE DEF Fails
    <3> QED BY <2>1, <2>3
  <2> QED BY <2>4
<1>7. d # e
  BY <1>4, <1>5
<1> HIDE DEF e
<1>8. Bytes(T \ {e}) = d.size + Bytes(T \ {e, d})
  <2>1. d \in T \ {e} /\ T \ {e} # T /\ (T \ {e}) \ {d} = T \ {e, d}
    BY <1>5, <1>7
  <2> QED BY <1>6, <2>1
<1>9. Bytes(T \ {d}) = e.size + Bytes(T \ {e, d})
  <2>1. e \in T \ {d} /\ T \ {d} # T /\ (T \ {d}) \ {e} = T \ {e, d}
    BY <1>5, <1>7
  <2> QED BY <1>6, <2>1
<1>10. Bytes(T \ {e, d}) \in Nat /\ d.size \in Nat /\ e.size \in Nat
  <2>1. IsFiniteSet(T \ {e, d}) /\ T \ {e, d} \subseteq Chunks /\ d \in Chunks /\ e \in Chunks
    BY <1>5, FS_Subset
  <2> QED BY <2>1, BytesIsNatural, SizeIsNatural
<1>11. Bytes(T) = d.size + Bytes(T \ {d})
  BY <1>5, <1>8, <1>9, <1>10
<1> QED BY <1>4, <1>11

\* More chunks hold more bytes.
LEMMA BytesMonotone ==
  ASSUME NEW S \in SUBSET Chunks, IsFiniteSet(S), NEW T \in SUBSET S
  PROVE  Bytes(T) <= Bytes(S)
<1> DEFINE Bad == {n \in Nat : \E U \in SUBSET S :
                       Cardinality(U) = n /\ T \subseteq U /\ ~ Bytes(T) <= Bytes(U)}
<1>1. SUFFICES ASSUME Bad # {} PROVE FALSE
  BY FS_CardinalityType
<1>2. PICK n \in Bad : \A m \in Bad : n <= m
  BY <1>1, LeastNatural
<1>3. PICK U \in SUBSET S : Cardinality(U) = n /\ T \subseteq U /\ ~ Bytes(T) <= Bytes(U)
  BY <1>2
<1>4. IsFiniteSet(U) /\ IsFiniteSet(T) /\ U \subseteq Chunks /\ T \subseteq Chunks
  BY FS_Subset
<1>5. Bytes(U) \in Nat /\ Bytes(T) \in Nat
  BY <1>4, BytesIsNatural
<1>6. PICK c \in U : c \notin T
  BY <1>3, <1>5
<1> DEFINE rest == U \ {c}
<1>7. /\ rest \in SUBSET S /\ IsFiniteSet(rest) /\ T \subseteq rest
      /\ Cardinality(rest) \in Nat /\ Cardinality(rest) < n
  BY <1>3, <1>4, <1>6, SmallerRest
<1>8. Bytes(U) = c.size + Bytes(rest) /\ c.size \in Nat /\ Bytes(rest) \in Nat
  BY <1>4, <1>7, BytesWithout, BytesIsNatural, SizeIsNatural
<1> HIDE DEF rest
<1>9. ~ Bytes(T) <= Bytes(rest)
  BY <1>3, <1>5, <1>8
<1>10. Cardinality(rest) \in Bad
  BY <1>7, <1>9
<1> HIDE DEF Bad
<1>11. n \in Nat /\ n <= Cardinality(rest)
  BY <1>2, <1>3, <1>10 DEF Bad
<1> QED BY <1>7, <1>11

\* A notification that carries the next number extends numbered events.
LEMMA AppendNumbered ==
  ASSUME NEW events \in Seq(Events), Numbered(events), NEW kind \in {"output", "exited", "closed"}
  PROVE  LET longer == Append(events, Notification(kind, Len(events) + 1))
         IN  /\ longer \in Seq(Events) /\ Numbered(longer)
             /\ Len(longer) = Len(events) + 1
             /\ NoneClosed(events) => \A i \in DOMAIN longer :
                   longer[i].kind = "closed" => i = Len(longer) /\ kind = "closed"
<1> DEFINE n == Notification(kind, Len(events) + 1)
<1>1. n \in Events /\ n.seq = Len(events) + 1 /\ n.kind = kind
  BY DEF Notification, Events
<1> HIDE DEF n
<1>2. /\ Append(events, n) \in Seq(Events)
      /\ DOMAIN events = 1 .. Len(events)
      /\ DOMAIN Append(events, n) = 1 .. Len(events) + 1
      /\ Len(Append(events, n)) = Len(events) + 1
      /\ \A i \in 1 .. Len(events) : Append(events, n)[i] = events[i]
      /\ Append(events, n)[Len(events) + 1] = n
  BY <1>1
<1>3. \A i \in 1 .. Len(events) + 1 : i \in 1 .. Len(events) \/ i = Len(events) + 1
  OBVIOUS
<1>4. Numbered(Append(events, n))
  BY <1>1, <1>2, <1>3 DEF Numbered
<1>5. NoneClosed(events) => \A i \in DOMAIN Append(events, n) :
         Append(events, n)[i].kind = "closed" => i = Len(Append(events, n)) /\ kind = "closed"
  BY <1>1, <1>2, <1>3 DEF NoneClosed
<1> QED BY <1>2, <1>4, <1>5 DEF n

\* What closing does to the numbering, given what its caller left in it.
LEMMA MaybeCloseNumbers ==
  ASSUME NEW events \in Seq(Events), NEW seq, NEW stillOpen, NEW hasExited \in BOOLEAN,
         Numbered(events), NoneClosed(events), seq = Len(events) + 1, closed = FALSE,
         MaybeClose(seq, events, stillOpen, hasExited)
  PROVE  /\ sent' \in Seq(Events) /\ Numbered(sent')
         /\ nextSeq' = Len(sent') + 1 /\ nextSeq' \in Nat \ {0} /\ seq <= nextSeq'
         /\ closed' \in BOOLEAN /\ (closed' <=> hasExited /\ stillOpen = {})
         /\ \A i \in DOMAIN sent' : sent'[i].kind = "closed" => i = Len(sent') /\ closed'
<1>1. Len(events) \in Nat
  OBVIOUS
<1>2. CASE stillOpen = {} /\ hasExited
  <2>1. sent' = Append(events, Notification("closed", Len(events) + 1)) /\ closed' = TRUE /\ nextSeq' = seq + 1
    BY <1>2 DEF MaybeClose
  <2>2. /\ sent' \in Seq(Events) /\ Numbered(sent') /\ Len(sent') = Len(events) + 1
        /\ \A i \in DOMAIN sent' : sent'[i].kind = "closed" => i = Len(sent')
    BY <2>1, AppendNumbered
  <2>3. nextSeq' = Len(sent') + 1 /\ nextSeq' \in Nat \ {0} /\ seq <= nextSeq'
    BY <1>1, <2>1, <2>2
  <2>4. closed' \in BOOLEAN /\ (closed' <=> hasExited /\ stillOpen = {})
    BY <1>2, <2>1
  <2>5. \A i \in DOMAIN sent' : sent'[i].kind = "closed" => i = Len(sent') /\ closed'
    BY <2>1, <2>2
  <2> QED BY <2>2, <2>3, <2>4, <2>5
<1>3. CASE ~ (stillOpen = {} /\ hasExited)
  <2>1. sent' = events /\ closed' = closed /\ nextSeq' = seq
    BY <1>3 DEF MaybeClose
  <2>2. sent' \in Seq(Events) /\ Numbered(sent')
    BY <2>1 DEF Numbered
  <2>3. nextSeq' = Len(sent') + 1 /\ nextSeq' \in Nat \ {0} /\ seq <= nextSeq'
    BY <1>1, <2>1
  <2>4. closed' \in BOOLEAN /\ (closed' <=> hasExited /\ stillOpen = {})
    BY <1>3, <2>1
  <2>5. \A i \in DOMAIN sent' : sent'[i].kind # "closed"
    BY <2>1 DEF NoneClosed
  <2> QED BY <2>2, <2>3, <2>4, <2>5
<1> QED BY <1>2, <1>3

\* Until the process is closed, nothing says that it is.
LEMMA OpenLog ==
  ASSUME PInv, ~ exited \/ open # {}
  PROVE  /\ closed = FALSE /\ Numbered(sent) /\ NoneClosed(sent)
         /\ sent \in Seq(Events) /\ nextSeq = Len(sent) + 1
  BY DEF PInv, OutputTypeOK, NumberedWithoutGaps, ClosedIsLast, Numbered, NoneClosed

\* Eviction stops as soon as the rest fits: what is kept fits, and with any
\* chunk that was evicted it would not.
LEMMA KeptFits ==
  ASSUME NEW S \in SUBSET Chunks, IsFiniteSet(S)
  PROVE  /\ Bytes(Kept(S)) <= MaxRetained
         /\ \A c \in S \ Kept(S) : Bytes({d \in S : d.seq >= c.seq}) > MaxRetained
<1> DEFINE From(c) == {d \in S : d.seq >= c.seq}
<1>1. \A c \in S : IsFiniteSet(From(c)) /\ Bytes(From(c)) \in Nat
  BY FS_Subset, BytesIsNatural
<1>2. \A c \in S \ Kept(S) : Bytes(From(c)) > MaxRetained
  BY <1>1, SizesAssumption DEF Kept
<1>3. Bytes(Kept(S)) <= MaxRetained
  <2>1. CASE Kept(S) = {}
    BY <2>1, FS_EmptySet, BytesTakes, SizesAssumption
  <2>2. CASE Kept(S) # {}
    <3> DEFINE seqs == {c.seq : c \in Kept(S)}
    <3>1. seqs \in SUBSET Nat /\ seqs # {}
      BY <2>2 DEF Kept, Chunks
    <3>2. PICK m \in seqs : \A n \in seqs : m <= n
      <4> HIDE DEF seqs
      <4> QED BY <3>1, LeastNatural
    <3>3. PICK c \in Kept(S) : c.seq = m
      BY <3>2
    <3>4. Kept(S) \subseteq From(c) /\ From(c) \subseteq S
      <4>1. \A d \in Kept(S) : d \in S /\ d.seq \in Nat /\ m <= d.seq
        BY <3>1, <3>2 DEF Kept
      <4> QED BY <3>1, <3>3, <4>1
    <3>5. Bytes(From(c)) <= MaxRetained /\ IsFiniteSet(From(c)) /\ Bytes(From(c)) \in Nat
      BY <1>1, <3>3 DEF Kept
    <3>6. IsFiniteSet(Kept(S)) /\ From(c) \in SUBSET Chunks /\ Kept(S) \in SUBSET Chunks
      BY <3>4, <3>5, FS_Subset
    <3> HIDE DEF From
    <3>7. Bytes(Kept(S)) <= Bytes(From(c)) /\ Bytes(Kept(S)) \in Nat
      BY <3>4, <3>5, <3>6, BytesMonotone, BytesIsNatural
    <3> QED BY <3>5, <3>7, SizesAssumption
  <2> QED BY <2>1, <2>2
<1> QED BY <1>2, <1>3

\* If anything is unread, a page holds the first of it, whatever its size.
LEMMA PageHoldsFirst ==
  ASSUME PInv, Unread # {}, NEW max
  PROVE  Page(max) # {}
<1> DEFINE seqs == {c.seq : c \in Unread}
<1>1. seqs \in SUBSET Nat /\ seqs # {}
  <2>1. \A c \in Unread : c \in Chunks
    BY DEF PInv, OutputTypeOK, Unread
  <2> QED BY <2>1 DEF Chunks
<1>2. PICK m \in seqs : \A n \in seqs : m <= n
  <2> HIDE DEF seqs
  <2> QED BY <1>1, LeastNatural
<1>3. PICK c \in Unread : c.seq = m
  BY <1>2
<1>4. \A d \in Unread : c.seq <= d.seq
  BY <1>2, <1>3
<1>5. c \in Page(max)
  BY <1>3, <1>4 DEF Page
<1> QED BY <1>5

\* A page has no holes: with a chunk it holds every unread one before it.
LEMMA PageHasNoHoles ==
  ASSUME PInv, NEW max \in Nat, NEW c \in Page(max), NEW d \in Unread, d.seq <= c.seq
  PROVE  \E e \in Page(max) : e.seq = d.seq
<1>1. /\ c \in Unread /\ Unread \subseteq output /\ Unread \subseteq Chunks
      /\ IsFiniteSet(Unread) /\ \A e \in Unread : e.seq \in Nat
  <2>1. c \in Unread /\ Unread \subseteq output
    BY DEF Page, Unread
  <2>2. output \subseteq Chunks /\ IsFiniteSet(output)
    BY DEF PInv, OutputTypeOK
  <2> QED BY <2>1, <2>2, FS_Subset DEF Chunks
<1>2. CASE \A e \in Unread : c.seq <= e.seq
  <2>1. c.seq = d.seq
    BY <1>1, <1>2
  <2> QED BY <2>1
<1>3. CASE ~ \A e \in Unread : c.seq <= e.seq
  <2> DEFINE UpTo(e) == {f \in Unread : f.seq <= e.seq}
  <2>1. Bytes(UpTo(c)) <= max
    BY <1>3 DEF Page
  <2>2. UpTo(d) \subseteq UpTo(c)
    BY <1>1
  <2>3. /\ IsFiniteSet(UpTo(c)) /\ UpTo(c) \in SUBSET Chunks
        /\ IsFiniteSet(UpTo(d)) /\ UpTo(d) \in SUBSET Chunks
    <3>1. UpTo(c) \in SUBSET Unread /\ UpTo(d) \in SUBSET Unread
      OBVIOUS
    <3> HIDE DEF UpTo
    <3> QED BY <1>1, <3>1, FS_Subset
  <2>4. Bytes(UpTo(d)) <= Bytes(UpTo(c)) /\ Bytes(UpTo(d)) \in Nat /\ Bytes(UpTo(c)) \in Nat
    <3> HIDE DEF UpTo
    <3> QED BY <2>2, <2>3, BytesMonotone, BytesIsNatural
  <2>5. Bytes(UpTo(d)) <= max
    <3> HIDE DEF UpTo
    <3> QED BY <2>1, <2>4
  <2>6. d \in Page(max)
    BY <2>5 DEF Page
  <2> QED BY <2>6
<1> QED BY <1>2, <1>3

\* After an answer everything retained up to the reader's new position was
\* handed out.
LEMMA AnswerSkipsNothing ==
  ASSUME PInv, BehindCounter, NothingSkipped, NEW max \in Nat, Answer(max),
         UNCHANGED processVars
  PROVE  NothingSkipped'
<1> SUFFICES ASSUME NEW c \in output', c.seq <= after' PROVE c.seq \in got' \cup page'
  BY DEF NothingSkipped
<1>1. page' = {e.seq : e \in Page(max)} /\ got' = got \cup page /\ output' = output
  BY DEF Answer, processVars
<1>2. output \subseteq Chunks /\ after \in Nat
  BY DEF PInv, OutputTypeOK
<1>3. CASE c.seq <= after
  BY <1>1, <1>3 DEF NothingSkipped
<1>4. CASE ~ c.seq <= after
  <2>1. c \in Unread
    <3>1. c.seq \in Nat
      BY <1>1, <1>2 DEF Chunks
    <3> QED BY <1>1, <1>2, <1>4, <3>1 DEF Unread
  <2>2. page' # {}
    BY <1>1, <2>1, PageHoldsFirst
  <2>3. page' \subseteq Nat /\ nextSeq \in Nat /\ \A n \in page' : n <= nextSeq
    <3>1. \A e \in Page(max) : e \in output /\ e.seq \in Nat
      BY <1>2 DEF Page, Unread, Chunks
    <3> QED BY <1>1, <3>1 DEF PInv, OutputTypeOK, BehindCounter
  <2>4. after' = Max(page') /\ Max(page') \in page'
    BY <2>2, <2>3, MaxOfBounded DEF Answer
  <2>5. PICK p \in Page(max) : p.seq = after'
    BY <1>1, <2>4
  <2>6. \E e \in Page(max) : e.seq = c.seq
    BY <2>1, <2>5, PageHasNoHoles
  <2> QED BY <1>1, <2>6
<1> QED BY <1>3, <1>4

\* A page holds unread chunks, and the reader goes on behind the last of them.
LEMMA AnswerMoves ==
  ASSUME PInv, BehindCounter, NEW max, Answer(max)
  PROVE  /\ read' = "idle" /\ got' = got \cup page
         /\ page' \subseteq Nat /\ \A n \in page' : after < n /\ n <= after'
         /\ after' \in Nat /\ after <= after' /\ after' < nextSeq
<1> USE DEF PInv, OutputTypeOK
<1>1. page' = {c.seq : c \in Page(max)} /\ got' = got \cup page /\ read' = "idle"
  BY DEF Answer
<1>2. \A c \in Page(max) : c \in output /\ c.seq \in Nat /\ after < c.seq /\ c.seq < nextSeq
  BY DEF Page, Unread, Chunks, BehindCounter
<1>3. page' \subseteq Nat /\ \A n \in page' : after < n /\ n < nextSeq
  BY <1>1, <1>2
<1>4. CASE page' = {}
  <2>1. after' = nextSeq - 1
    BY <1>4 DEF Answer
  <2>2. after \in Nat /\ nextSeq \in Nat \ {0} /\ after < nextSeq
    BY DEF BehindCounter
  <2>3. after' \in Nat /\ after <= after' /\ after' < nextSeq
    BY <2>1, <2>2
  <2> QED BY <1>1, <1>4, <2>3
<1>5. CASE page' # {}
  <2>1. after' = Max(page')
    BY <1>5 DEF Answer
  <2>2. nextSeq \in Nat /\ \A n \in page' : n <= nextSeq
    BY <1>3
  <2>3. Max(page') \in page' /\ \A n \in page' : n <= Max(page')
    BY <1>3, <1>5, <2>2, MaxOfBounded
  <2> QED BY <1>1, <1>3, <2>1, <2>3
<1> QED BY <1>4, <1>5

\* Initially nothing is recorded and nothing is read.
LEMMA OutputInitInv == Init => PInv /\ RInv /\ ParkedHasNoNews
<1> SUFFICES ASSUME Init PROVE PInv /\ RInv /\ ParkedHasNoNews
  OBVIOUS
<1>1. OutputTypeOK
  <2>1. IsFiniteSet(output) /\ output \subseteq Chunks
    BY FS_EmptySet DEF Init
  <2>2. sent \in Seq(Events)
    BY DEF Init
  <2>3. /\ nextSeq = 1 /\ after = 0 /\ page = {} /\ got = {} /\ open = Streams
        /\ exited = FALSE /\ closed = FALSE /\ read = "idle" /\ pageSize \in PageSizes
    BY DEF Init
  <2>4. /\ nextSeq \in Nat \ {0} /\ after \in Nat /\ page \subseteq Nat /\ got \subseteq Nat
    BY <2>3
  <2>5. /\ open \subseteq Streams /\ exited \in BOOLEAN /\ closed \in BOOLEAN
        /\ read \in {"idle", "waiting", "woken"} /\ pageSize \in PageSizes
    BY <2>3
  <2> QED BY <2>1, <2>2, <2>4, <2>5 DEF OutputTypeOK
<1>2. NumberedWithoutGaps /\ RInv /\ ParkedHasNoNews
  BY DEF Init, NumberedWithoutGaps, RInv, BehindCounter, ReadOnceInOrder, ParkedHasNoNews
<1>3. ClosedIsLast
  BY DEF Init, ClosedIsLast
<1> QED BY <1>1, <1>2, <1>3 DEF PInv

\* Every step of the process preserves the three invariants.
LEMMA ProcessStepInv ==
  PInv /\ RInv /\ ParkedHasNoNews /\ ProcessNext => PInv' /\ RInv' /\ ParkedHasNoNews'
<1> SUFFICES ASSUME PInv, RInv, ParkedHasNoNews, ProcessNext
             PROVE  PInv' /\ RInv' /\ ParkedHasNoNews'
  OBVIOUS
<1>0. /\ nextSeq \in Nat \ {0} /\ nextSeq = Len(sent) + 1 /\ sent \in Seq(Events)
      /\ output \subseteq Chunks /\ IsFiniteSet(output)
  BY DEF PInv, OutputTypeOK, NumberedWithoutGaps
<1>01. ASSUME Wake
       PROVE  read' # "waiting" /\ read' \in {"idle", "waiting", "woken"}
  BY <1>01 DEF Wake, PInv, OutputTypeOK
<1>1. ASSUME NEW stream \in Streams, NEW size \in Sizes, RecordOutput(stream, size)
      PROVE  PInv' /\ RInv' /\ ParkedHasNoNews'
  <2> DEFINE chunk == [seq |-> nextSeq, size |-> size]
  <2>1. /\ nextSeq' = nextSeq + 1 /\ stream \in open /\ Wake
        /\ output' = Kept(output \cup {chunk})
        /\ sent' = Append(sent, Notification("output", nextSeq))
        /\ UNCHANGED <<open, exited, closed, pageSize, after, page, got>>
    BY <1>1 DEF RecordOutput
  <2>2. output' \subseteq output \cup {chunk} /\ chunk \in Chunks /\ chunk.seq = nextSeq
    BY <1>0, <2>1 DEF Kept, Chunks
  <2>3. output' \subseteq Chunks /\ IsFiniteSet(output')
    <3>1. IsFiniteSet(output \cup {chunk})
      BY <1>0, FS_AddElement
    <3> QED BY <1>0, <2>2, <3>1, FS_Subset
  <2>4. closed = FALSE /\ Numbered(sent) /\ NoneClosed(sent)
    BY <2>1, OpenLog
  <2>5. /\ sent' \in Seq(Events) /\ Numbered(sent') /\ Len(sent') = Len(sent) + 1
        /\ \A i \in DOMAIN sent' : sent'[i].kind # "closed"
    BY <1>0, <2>1, <2>4, AppendNumbered
  <2>6. OutputTypeOK'
    <3>1. nextSeq' \in Nat \ {0} /\ read' \in {"idle", "waiting", "woken"}
      BY <1>0, <1>01, <2>1
    <3>2. open \subseteq Streams /\ exited \in BOOLEAN /\ closed \in BOOLEAN /\ pageSize \in PageSizes
      BY DEF PInv, OutputTypeOK
    <3>3. after \in Nat /\ page \subseteq Nat /\ got \subseteq Nat
      BY DEF PInv, OutputTypeOK
    <3> HIDE DEF chunk
    <3>4. UNCHANGED <<open, exited, closed, pageSize, after, page, got>>
      BY <2>1
    <3> QED BY <2>3, <2>5, <3>1, <3>2, <3>3, <3>4 DEF OutputTypeOK
  <2>7. NumberedWithoutGaps'
    BY <1>0, <2>1, <2>5 DEF NumberedWithoutGaps, Numbered
  <2>8. ClosedIsLast'
    BY <2>1, <2>5 DEF PInv, ClosedIsLast
  <2>9. BehindCounter'
    <3>1. \A c \in output' : c.seq < nextSeq'
      <4>1. nextSeq' = nextSeq + 1
        BY <2>1
      <4>2. \A c \in output : c.seq \in Nat /\ c.seq < nextSeq
        BY <1>0 DEF RInv, BehindCounter, Chunks
      <4> HIDE DEF chunk
      <4> QED BY <1>0, <2>2, <4>1, <4>2
    <3>2. after < nextSeq'
      <4>1. nextSeq' = nextSeq + 1 /\ after \in Nat /\ after < nextSeq
        BY <2>1 DEF RInv, BehindCounter, PInv, OutputTypeOK
      <4> QED BY <1>0, <4>1
    <3>3. UNCHANGED <<after, page, got>> /\ \A n \in got \cup page : n <= after
      BY <2>1 DEF RInv, BehindCounter
    <3> QED BY <3>1, <3>2, <3>3 DEF BehindCounter
  <2>10. ReadOnceInOrder' /\ ParkedHasNoNews'
    BY <1>01, <2>1 DEF RInv, ReadOnceInOrder, ParkedHasNoNews
  <2> QED BY <2>6, <2>7, <2>8, <2>9, <2>10 DEF PInv, RInv
<1>2. ASSUME NEW stream \in Streams, EndStream(stream)
      PROVE  PInv' /\ RInv' /\ ParkedHasNoNews'
  <2>1. /\ stream \in open /\ open' = open \ {stream}
        /\ MaybeClose(nextSeq, sent, open \ {stream}, exited)
        /\ IF closed' = closed THEN read' = read ELSE Wake
        /\ UNCHANGED <<output, exited, pageSize, after, page, got>>
    BY <1>2 DEF EndStream
  <2>2. closed = FALSE /\ Numbered(sent) /\ NoneClosed(sent)
    BY <2>1, OpenLog
  <2>3. /\ sent' \in Seq(Events) /\ Numbered(sent')
        /\ nextSeq' = Len(sent') + 1 /\ nextSeq' \in Nat \ {0} /\ nextSeq <= nextSeq'
        /\ closed' \in BOOLEAN /\ (closed' <=> exited /\ open \ {stream} = {})
        /\ \A i \in DOMAIN sent' : sent'[i].kind = "closed" => i = Len(sent') /\ closed'
    <3>1. exited \in BOOLEAN
      BY DEF PInv, OutputTypeOK
    <3> QED BY <1>0, <2>1, <2>2, <3>1, MaybeCloseNumbers
  <2>4. read' \in {"idle", "waiting", "woken"}
    BY <1>01, <2>1 DEF PInv, OutputTypeOK
  <2>5. OutputTypeOK'
    BY <2>1, <2>3, <2>4 DEF PInv, OutputTypeOK
  <2>6. NumberedWithoutGaps' /\ ClosedIsLast'
    BY <2>1, <2>3 DEF NumberedWithoutGaps, Numbered, ClosedIsLast
  <2>7. BehindCounter'
    BY <1>0, <2>1, <2>3 DEF RInv, BehindCounter, PInv, OutputTypeOK, Chunks
  <2>8. ReadOnceInOrder'
    BY <2>1 DEF RInv, ReadOnceInOrder
  <2>9. ParkedHasNoNews'
    <3>1. CASE closed' = closed
      <4>1. ~ (exited /\ open \ {stream} = {})
        BY <2>2, <2>3, <3>1
      <4>2. nextSeq' = nextSeq
        BY <2>1, <4>1 DEF MaybeClose
      <4> QED BY <2>1, <3>1, <4>2 DEF ParkedHasNoNews, HasNews, Unread
    <3>2. CASE closed' # closed
      BY <1>01, <2>1, <3>2 DEF ParkedHasNoNews
    <3> QED BY <3>1, <3>2
  <2> QED BY <2>5, <2>6, <2>7, <2>8, <2>9 DEF PInv, RInv
<1>3. ASSUME RecordExit PROVE PInv' /\ RInv' /\ ParkedHasNoNews'
  <2> DEFINE events == Append(sent, Notification("exited", nextSeq))
  <2>1. /\ ~ exited /\ exited' = TRUE /\ Wake
        /\ MaybeClose(nextSeq + 1, events, open, TRUE)
        /\ UNCHANGED <<output, open, pageSize, after, page, got>>
    BY <1>3 DEF RecordExit
  <2>2. closed = FALSE /\ Numbered(sent) /\ NoneClosed(sent)
    BY <2>1, OpenLog
  <2>3. events \in Seq(Events) /\ Numbered(events) /\ NoneClosed(events) /\ nextSeq + 1 = Len(events) + 1
    BY <1>0, <2>2, AppendNumbered DEF NoneClosed
  <2> HIDE DEF events
  <2>4. /\ sent' \in Seq(Events) /\ Numbered(sent')
        /\ nextSeq' = Len(sent') + 1 /\ nextSeq' \in Nat \ {0} /\ nextSeq + 1 <= nextSeq'
        /\ closed' \in BOOLEAN /\ (closed' <=> open = {})
        /\ \A i \in DOMAIN sent' : sent'[i].kind = "closed" => i = Len(sent') /\ closed'
    BY <2>1, <2>2, <2>3, MaybeCloseNumbers
  <2>5. OutputTypeOK'
    BY <1>01, <2>1, <2>4 DEF PInv, OutputTypeOK
  <2>6. NumberedWithoutGaps' /\ ClosedIsLast'
    BY <2>1, <2>4 DEF NumberedWithoutGaps, Numbered, ClosedIsLast
  <2>7. BehindCounter'
    BY <1>0, <2>1, <2>4 DEF RInv, BehindCounter, PInv, OutputTypeOK, Chunks
  <2>8. ReadOnceInOrder' /\ ParkedHasNoNews'
    BY <1>01, <2>1 DEF RInv, ReadOnceInOrder, ParkedHasNoNews
  <2> QED BY <2>5, <2>6, <2>7, <2>8 DEF PInv, RInv
<1> QED BY <1>1, <1>2, <1>3 DEF ProcessNext

\* An answer leaves the reader behind the counter and ahead of what it read.
LEMMA AnswerInv ==
  ASSUME PInv, RInv, NEW max, Answer(max), UNCHANGED processVars, pageSize' \in PageSizes
  PROVE  PInv' /\ RInv' /\ ParkedHasNoNews'
<1>1. /\ read' = "idle" /\ got' = got \cup page
      /\ page' \subseteq Nat /\ \A n \in page' : after < n /\ n <= after'
      /\ after' \in Nat /\ after <= after' /\ after' < nextSeq
  BY AnswerMoves DEF RInv
<1>2. UNCHANGED <<nextSeq, output, open, exited, closed, sent>>
  BY DEF processVars
<1>3. PInv'
  <2>1. OutputTypeOK'
    BY <1>1, <1>2 DEF PInv, OutputTypeOK
  <2> QED BY <1>2, <2>1 DEF PInv, NumberedWithoutGaps, ClosedIsLast
<1>4. \A n \in got' : n \in Nat /\ n <= after
  BY <1>1 DEF PInv, OutputTypeOK, RInv, BehindCounter
<1>5. after \in Nat
  BY DEF PInv, OutputTypeOK
<1>6. BehindCounter'
  <2>1. ASSUME NEW n \in got' PROVE n <= after'
    <3>1. n \in Nat /\ n <= after
      BY <1>4
    <3>2. after <= after' /\ after' \in Nat
      BY <1>1
    <3> QED BY <1>5, <3>1, <3>2
  <2>2. \A n \in page' : n <= after'
    BY <1>1
  <2>3. after' < nextSeq' /\ \A c \in output' : c.seq < nextSeq'
    BY <1>1, <1>2 DEF RInv, BehindCounter
  <2> QED BY <2>1, <2>2, <2>3 DEF BehindCounter
<1>7. ReadOnceInOrder'
  BY <1>1, <1>4, <1>5 DEF ReadOnceInOrder
<1> QED BY <1>1, <1>3, <1>6, <1>7 DEF RInv, ParkedHasNoNews

\* Every step of the reader preserves the three invariants.
LEMMA ReaderStepInv ==
  PInv /\ RInv /\ ParkedHasNoNews /\ ReaderNext => PInv' /\ RInv' /\ ParkedHasNoNews'
<1> SUFFICES ASSUME PInv, RInv, ParkedHasNoNews, ReaderNext
             PROVE  PInv' /\ RInv' /\ ParkedHasNoNews'
  OBVIOUS
<1>1. ASSUME ~ HasNews, read' = "waiting", pageSize' \in PageSizes,
             UNCHANGED <<processVars, after, page, got>>
      PROVE  PInv' /\ RInv' /\ ParkedHasNoNews'
  <2>1. UNCHANGED <<nextSeq, output, open, exited, closed, sent, after, page, got>>
    BY <1>1 DEF processVars
  <2>2. PInv'
    <3>1. OutputTypeOK'
      BY <1>1, <2>1 DEF PInv, OutputTypeOK
    <3> QED BY <2>1, <3>1 DEF PInv, NumberedWithoutGaps, ClosedIsLast
  <2>3. RInv'
    BY <2>1 DEF RInv, BehindCounter, ReadOnceInOrder
  <2>4. ParkedHasNoNews'
    BY <1>1, <2>1 DEF ParkedHasNoNews, HasNews, Unread
  <2> QED BY <2>2, <2>3, <2>4
<1>2. pageSize \in PageSizes
  BY DEF PInv, OutputTypeOK
<1>3. ASSUME NEW max \in PageSizes, Read(max) PROVE PInv' /\ RInv' /\ ParkedHasNoNews'
  BY <1>1, <1>3, AnswerInv DEF Read
<1>4. CASE ReadResumes
  BY <1>1, <1>2, <1>4, AnswerInv DEF ReadResumes
<1>5. CASE ReadTimesOut
  BY <1>2, <1>5, AnswerInv DEF ReadTimesOut
<1> QED BY <1>3, <1>4, <1>5 DEF ReaderNext

\* The three invariants are inductive.
LEMMA OutputInv == Spec => [](PInv /\ RInv /\ ParkedHasNoNews)
<1>1. PInv /\ RInv /\ ParkedHasNoNews /\ [Next]_vars => (PInv /\ RInv /\ ParkedHasNoNews)'
  <2>1. ASSUME PInv, RInv, ParkedHasNoNews, UNCHANGED vars
        PROVE  PInv' /\ RInv' /\ ParkedHasNoNews'
    BY <2>1 DEF vars, processVars, readerVars, PInv, RInv, ParkedHasNoNews, OutputTypeOK,
       NumberedWithoutGaps, ClosedIsLast, BehindCounter, ReadOnceInOrder, HasNews, Unread
  <2> QED BY <2>1, ProcessStepInv, ReaderStepInv DEF Next
<1> QED BY <1>1, OutputInitInv, PTL DEF Spec

\* Nothing retained is skipped, and what is retained fits: both inductive on top
\* of the three.
KeptInv == NothingSkipped /\ Bytes(output) <= MaxRetained

LEMMA SkipInv == Spec => []KeptInv
<1>1. Init => KeptInv
  <2> SUFFICES ASSUME Init PROVE KeptInv
    OBVIOUS
  <2>1. output = {} /\ Bytes({}) = 0
    BY FS_EmptySet, BytesTakes DEF Init
  <2> QED BY <2>1, SizesAssumption DEF KeptInv, NothingSkipped
<1>2. PInv /\ RInv /\ KeptInv /\ [Next]_vars => KeptInv'
  <2> SUFFICES ASSUME PInv, RInv, KeptInv, [Next]_vars PROVE KeptInv'
    OBVIOUS
  <2>1. ASSUME NEW stream \in Streams, NEW size \in Sizes, RecordOutput(stream, size)
        PROVE  KeptInv'
    <3> DEFINE chunk == [seq |-> nextSeq, size |-> size]
    <3>1. output' = Kept(output \cup {chunk}) /\ UNCHANGED <<after, page, got>>
      BY <2>1 DEF RecordOutput
    <3>2. /\ output \cup {chunk} \in SUBSET Chunks /\ IsFiniteSet(output \cup {chunk})
          /\ chunk.seq = nextSeq
      <4>1. output \subseteq Chunks /\ IsFiniteSet(output) /\ nextSeq \in Nat \ {0}
        BY DEF PInv, OutputTypeOK
      <4>2. chunk \in Chunks
        BY <4>1 DEF Chunks
      <4> QED BY <4>1, <4>2, FS_AddElement
    <3> HIDE DEF chunk
    <3>3. Bytes(output') <= MaxRetained
      BY <3>1, <3>2, KeptFits
    <3>4. output' \subseteq output \cup {chunk}
      BY <3>1 DEF Kept
    <3>5. ~ nextSeq <= after
      BY DEF PInv, OutputTypeOK, RInv, BehindCounter
    <3>6. NothingSkipped'
      BY <3>1, <3>2, <3>4, <3>5 DEF KeptInv, NothingSkipped
    <3> QED BY <3>3, <3>6 DEF KeptInv
  <2>2. ASSUME UNCHANGED <<output, after, page, got>> PROVE KeptInv'
    BY <2>2 DEF KeptInv, NothingSkipped
  <2>3. ASSUME NEW max \in PageSizes, Answer(max), UNCHANGED processVars PROVE KeptInv'
    <3>1. max \in Nat /\ output' = output
      BY <2>3, SizesAssumption DEF processVars
    <3>2. NothingSkipped'
      BY <2>3, <3>1, AnswerSkipsNothing DEF RInv, KeptInv
    <3> QED BY <3>1, <3>2 DEF KeptInv
  <2>4. pageSize \in PageSizes
    BY DEF PInv, OutputTypeOK
  <2>5. CASE ProcessNext
    BY <2>1, <2>2, <2>5 DEF ProcessNext, EndStream, RecordExit
  <2>6. CASE ReaderNext
    BY <2>2, <2>3, <2>4, <2>6 DEF ReaderNext, Read, ReadResumes, ReadTimesOut, processVars
  <2>7. CASE UNCHANGED vars
    BY <2>2, <2>7 DEF vars, processVars, readerVars
  <2> QED BY <2>5, <2>6, <2>7 DEF Next
<1> QED BY <1>1, <1>2, OutputInv, PTL DEF Spec

\* LocalRunningProcess keeps its types, whatever its tasks and readers do.
THEOREM OutputIsTyped == Spec => []OutputTypeOK
BY OutputInv, PTL DEF PInv

\* The stream tasks, the exit watcher and the closing step never leave a gap
\* in the numbering and never use a number twice.
THEOREM NumberingHasNoGaps == Spec => []NumberedWithoutGaps
BY OutputInv, PTL DEF PInv

\* _local_process_maybe_mark_closed makes closed the last notification, in
\* whatever order the exit and the streams' ends come.
THEOREM ClosingIsLast == Spec => []ClosedIsLast
BY OutputInv, PTL DEF PInv

\* exec_read hands out increasing sequence numbers, so nothing is read twice,
\* whatever is recorded, evicted or closed between two reads.
THEOREM ReadingIsOrdered == Spec => []ReadOnceInOrder
BY OutputInv, PTL DEF RInv

\* A reader that sleeps on the output event has nothing to be told.
THEOREM SleepersHaveNoNews == Spec => []ParkedHasNoNews
BY OutputInv, PTL

\* exec_read skips nothing that is still retained: its pages have no holes, and
\* it goes on behind the last chunk of a page, whatever was evicted meanwhile.
THEOREM PagingSkipsNothing == Spec => []NothingSkipped
BY SkipInv, PTL DEF KeptInv

\* The chunks kept for a process never hold more than
\* MAX_RETAINED_OUTPUT_BYTES_PER_PROCESS.
THEOREM RetentionIsBounded == Spec => [](Bytes(output) <= MaxRetained)
BY SkipInv, PTL DEF KeptInv
-----------------------------------------------------------------------------

\* Every waiting event is one the server sent.
FromServer(waiting) ==
    /\ IsFiniteSet(waiting)
    /\ \A e \in waiting : \E i \in DOMAIN sent : e = sent[i]

\* What was published is what the server sent first.
FollowsServer ==
    /\ published \in Seq(Events \cup {Failed})
    /\ lastPublished \in Nat /\ lastPublished <= Len(published)
    /\ lastPublished <= Len(sent)
    /\ \A n \in 1 .. lastPublished : published[n] = sent[n]

\* An end is the last thing published, and ends the session; a failure is the
\* one thing that is published beside the server's events.
EndsSession ==
    /\ routed \in BOOLEAN
    /\ \A n \in DOMAIN published :
          published[n].kind \in {"closed", "failed"} => n = Len(published) /\ ~ routed
    /\ \/ Len(published) = lastPublished
       \/ /\ Len(published) = lastPublished + 1
          /\ published[Len(published)] = Failed

EInv == FromServer(pending) /\ FollowsServer /\ EndsSession

\* The composition runs the process or leaves it alone.
LEMMA EventsUseProcess == EventsSpec => Spec
<1>1. EventsInit => Init
  BY DEF EventsInit
<1>2. [EventsNext]_eventVars => [Next]_vars
  BY DEF EventsNext, ServerStep, Serve, Arrive, Disconnect, Unregister, Subscribe, Recv,
     eventVars
<1> QED
  BY <1>1, <1>2, PTL DEF EventsSpec, Spec

\* The events that are ready are the next ones the server sent.
LEMMA ReadyIsNext ==
  ASSUME PInv, FollowsServer, NEW waiting, FromServer(waiting)
  PROVE  \E k \in Nat : /\ lastPublished + k <= Len(sent)
                        /\ Ready(waiting) = [n \in 1 .. k |-> sent[lastPublished + n]]
<1> DEFINE here(n) == \E e \in waiting : e.seq = lastPublished + n
           Stops(k) == (\A n \in 1 .. k : here(n)) /\ ~ here(k + 1)
           count    == CHOOSE k \in 0 .. Cardinality(waiting) : Stops(k)
           the(n)   == CHOOSE e \in waiting : e.seq = lastPublished + n
<1>1. /\ lastPublished \in Nat /\ Len(sent) \in Nat /\ DOMAIN sent = 1 .. Len(sent)
      /\ \A i \in 1 .. Len(sent) : sent[i].seq = i
  BY DEF PInv, OutputTypeOK, NumberedWithoutGaps, FollowsServer
<1>2. \A e \in waiting : e.seq \in 1 .. Len(sent) /\ e = sent[e.seq]
  BY <1>1 DEF FromServer
<1>3. PICK m \in Nat : Stops(m)
  <2> DEFINE T == {k \in Nat : ~ here(k + 1)}
  <2>1. Len(sent) \in T
    BY <1>1, <1>2
  <2>2. PICK m \in T : \A k \in T : m <= k
    <3> HIDE DEF T
    <3>1. T \in SUBSET Nat
      BY DEF T
    <3> QED BY <2>1, <3>1, LeastNatural
  <2>3. ASSUME NEW n \in 1 .. m PROVE here(n)
    <3>1. n - 1 \in Nat /\ n - 1 < m /\ (n - 1) + 1 = n /\ m \in Nat
      BY <2>3
    <3>2. n - 1 \notin T
      BY <2>2, <3>1
    <3>3. here((n - 1) + 1)
      BY <3>1, <3>2
    <3> QED BY <3>1, <3>3
  <2> QED BY <2>2, <2>3
<1>4. m <= Cardinality(waiting)
  <2> DEFINE f == [n \in 1 .. m |-> the(n)]
  <2>1. \A n \in 1 .. m : the(n) \in waiting /\ the(n).seq = lastPublished + n
    BY <1>3
  <2>2. f \in Injection(1 .. m, waiting)
    <3>1. f \in [1 .. m -> waiting]
      BY <2>1
    <3>2. \A a, b \in 1 .. m : f[a] = f[b] => a = b
      <4> SUFFICES ASSUME NEW a \in 1 .. m, NEW b \in 1 .. m, f[a] = f[b] PROVE a = b
        OBVIOUS
      <4>1. the(a) = the(b)
        OBVIOUS
      <4>2. lastPublished + a = lastPublished + b
        BY <2>1, <4>1
      <4> QED BY <1>1, <4>2
    <3> HIDE DEF f
    <3> QED BY <3>1, <3>2 DEF Injection, IsInjective
  <2>3. Cardinality(1 .. m) <= Cardinality(waiting)
    <3> HIDE DEF f
    <3> QED BY <2>2, FS_Injection DEF FromServer
  <2>4. Cardinality(1 .. m) = m
    BY <1>3, FS_Interval
  <2> QED BY <2>3, <2>4
<1>5. count \in 0 .. Cardinality(waiting) /\ Stops(count)
  <2>1. \E k \in 0 .. Cardinality(waiting) : Stops(k)
    BY <1>3, <1>4, FS_CardinalityType DEF FromServer
  <2> HIDE DEF Stops
  <2> QED BY <2>1
<1>6. Ready(waiting) = [n \in 1 .. count |-> the(n)]
  BY DEF Ready
<1>7. count \in Nat
  BY <1>5
<1>8. \A n \in 1 .. count : the(n) = sent[lastPublished + n]
  <2> SUFFICES ASSUME NEW n \in 1 .. count PROVE the(n) = sent[lastPublished + n]
    OBVIOUS
  <2>1. here(n)
    BY <1>5
  <2>2. the(n) \in waiting /\ the(n).seq = lastPublished + n
    BY <2>1
  <2> QED BY <1>2, <2>2
<1>9. \A n \in 1 .. count : lastPublished + n <= Len(sent)
  <2> SUFFICES ASSUME NEW n \in 1 .. count PROVE lastPublished + n <= Len(sent)
    OBVIOUS
  <2>1. PICK e \in waiting : e.seq = lastPublished + n
    BY <1>5
  <2> QED BY <1>2, <2>1
<1>10. lastPublished <= Len(sent)
  BY DEF FollowsServer
<1> HIDE DEF count, the
<1>11. lastPublished + count <= Len(sent)
  <2>1. CASE count = 0
    BY <1>1, <1>10, <2>1
  <2>2. CASE count # 0
    <3>1. count \in 1 .. count
      BY <1>7, <2>2
    <3> QED BY <1>9, <3>1
  <2> QED BY <2>1, <2>2
<1> QED BY <1>6, <1>7, <1>8, <1>11

\* A session that is routed has published server events only, and no end.
LEMMA RoutedSaysNothingElse ==
  ASSUME FollowsServer, EndsSession, routed
  PROVE  /\ Len(published) = lastPublished
         /\ \A n \in 1 .. Len(published) : published[n].kind \notin {"closed", "failed"}
<1>1. DOMAIN published = 1 .. Len(published) /\ Len(published) \in Nat
  BY DEF FollowsServer
<1>2. \A n \in 1 .. Len(published) : published[n].kind \notin {"closed", "failed"}
  BY <1>1 DEF EndsSession
<1>3. Len(published) # lastPublished + 1 \/ published[Len(published)] # Failed
  <2> SUFFICES ASSUME Len(published) = lastPublished + 1 PROVE published[Len(published)] # Failed
    OBVIOUS
  <2>1. Len(published) \in 1 .. Len(published)
    BY <1>1 DEF FollowsServer
  <2> QED BY <1>2, <2>1 DEF Failed
<1>4. Len(published) = lastPublished
  BY <1>3 DEF EndsSession
<1> QED BY <1>2, <1>4

\* Initially nothing was sent or published.
LEMMA EventsInitInv == EventsInit => EInv
<1> SUFFICES ASSUME EventsInit PROVE EInv
  OBVIOUS
<1>1. FromServer(pending)
  BY FS_EmptySet DEF EventsInit, FromServer
<1>2. FollowsServer /\ EndsSession
  BY DEF EventsInit, Init, FollowsServer, EndsSession
<1> QED BY <1>1, <1>2 DEF EInv

\* The process only adds to what it sent.
LEMMA ProcessOnlyAdds ==
  ASSUME PInv, [Next]_vars
  PROVE  Len(sent) <= Len(sent') /\ \A i \in 1 .. Len(sent) : sent'[i] = sent[i]
<1>1. sent \in Seq(Events)
  BY DEF PInv, OutputTypeOK
<1>2. \A e : /\ Len(Append(sent, e)) = Len(sent) + 1
             /\ \A i \in 1 .. Len(sent) : Append(sent, e)[i] = sent[i]
  BY <1>1
<1>3. \A d, e : /\ Len(Append(Append(sent, d), e)) = Len(sent) + 2
                /\ \A i \in 1 .. Len(sent) : Append(Append(sent, d), e)[i] = sent[i]
  BY <1>1
<1>4. \/ sent' = sent
      \/ \E e : sent' = Append(sent, e)
      \/ \E d, e : sent' = Append(Append(sent, d), e)
  <2>1. ASSUME NEW stream \in Streams, NEW size \in Sizes, RecordOutput(stream, size)
        PROVE  \E e : sent' = Append(sent, e)
    BY <2>1 DEF RecordOutput
  <2>2. ASSUME NEW stream \in Streams, EndStream(stream)
        PROVE  sent' = sent \/ \E e : sent' = Append(sent, e)
    BY <2>2 DEF EndStream, MaybeClose
  <2>3. ASSUME RecordExit
        PROVE  \/ \E e : sent' = Append(sent, e)
               \/ \E d, e : sent' = Append(Append(sent, d), e)
    BY <2>3 DEF RecordExit, MaybeClose
  <2>4. ASSUME ReaderNext PROVE sent' = sent
    BY <2>4 DEF ReaderNext, Read, ReadResumes, ReadTimesOut, processVars
  <2>5. CASE UNCHANGED vars
    BY <2>5 DEF vars, processVars
  <2> QED BY <2>1, <2>2, <2>3, <2>4, <2>5 DEF Next, ProcessNext
<1>5. Len(sent) \in Nat
  BY <1>1
<1> QED BY <1>2, <1>3, <1>4, <1>5

\* A step of the process leaves what was published a prefix of what was sent.
LEMMA ProcessKeepsEvents ==
  ASSUME PInv, PInv', EInv, [Next]_vars,
         UNCHANGED <<pending, published, lastPublished, routed>>
  PROVE  EInv'
<1>1. /\ Len(sent) \in Nat /\ Len(sent') \in Nat
      /\ DOMAIN sent = 1 .. Len(sent) /\ DOMAIN sent' = 1 .. Len(sent')
  BY DEF PInv, OutputTypeOK
<1>2. Len(sent) <= Len(sent') /\ \A i \in 1 .. Len(sent) : sent'[i] = sent[i]
  BY ProcessOnlyAdds
<1>3. FromServer(pending)'
  BY <1>1, <1>2 DEF EInv, FromServer
<1>4. FollowsServer'
  BY <1>1, <1>2 DEF EInv, FollowsServer
<1>5. EndsSession'
  BY DEF EInv, EndsSession
<1> QED BY <1>3, <1>4, <1>5 DEF EInv

\* Two sequences, one after the other.
LEMMA Joined ==
  ASSUME NEW T, NEW a \in Seq(T), NEW b \in Seq(T)
  PROVE  /\ a \o b \in Seq(T)
         /\ Len(a \o b) = Len(a) + Len(b)
         /\ DOMAIN (a \o b) = 1 .. Len(a) + Len(b)
         /\ \A n \in 1 .. Len(a) : (a \o b)[n] = a[n]
         /\ \A n \in 1 .. Len(b) : (a \o b)[Len(a) + n] = b[n]
  OBVIOUS

\* A notification that is handled publishes the next events of the server, the
\* closed one last, if at all.
LEMMA ArrivalKeepsEvents ==
  ASSUME PInv, EInv, NEW i \in DOMAIN sent, Arrive(i)
  PROVE  EInv'
<1>1. /\ sent \in Seq(Events) /\ UNCHANGED sent
      /\ DOMAIN sent = 1 .. Len(sent) /\ Len(sent) \in Nat
      /\ \A n \in 1 .. Len(sent) : sent[n].kind = "closed" => n = Len(sent)
  BY DEF Arrive, vars, processVars, PInv, OutputTypeOK, ClosedIsLast
<1>2. CASE ~ (routed /\ sent[i].seq > lastPublished)
  <2>1. UNCHANGED <<routed, lastPublished, pending, published>>
    BY <1>2 DEF Arrive
  <2> QED BY <1>1, <2>1 DEF EInv, FromServer, FollowsServer, EndsSession
<1>3. CASE routed /\ sent[i].seq > lastPublished
  <2> DEFINE waiting == pending \cup {sent[i]}
  <2>1. FromServer(waiting)
    BY FS_AddElement DEF EInv, FromServer
  <2>2. PICK k \in Nat : /\ lastPublished + k <= Len(sent)
                         /\ Ready(waiting) = [n \in 1 .. k |-> sent[lastPublished + n]]
    BY <2>1, ReadyIsNext DEF EInv
  <2> DEFINE ready == [n \in 1 .. k |-> sent[lastPublished + n]]
  <2>3. /\ pending' = waiting \ Range(ready)
        /\ lastPublished' = lastPublished + Len(ready)
        /\ routed' = (\A n \in DOMAIN ready : ready[n].kind # "closed")
        /\ published' = published \o ready
    BY <1>3, <2>2 DEF Arrive, Publish
  <2>4. lastPublished \in Nat /\ published \in Seq(Events \cup {Failed})
    BY DEF EInv, FollowsServer
  <2>0. /\ k \in Nat /\ Len(sent) \in Nat /\ lastPublished \in Nat
        /\ lastPublished + k <= Len(sent)
    BY <1>1, <2>2, <2>4
  <2>5. \A n \in 1 .. k : /\ lastPublished + n \in 1 .. Len(sent)
                           /\ sent[lastPublished + n] \in Events
    <3> SUFFICES ASSUME NEW n \in 1 .. k
                 PROVE  /\ lastPublished + n \in 1 .. Len(sent)
                        /\ sent[lastPublished + n] \in Events
      OBVIOUS
    <3>1. lastPublished + n \in 1 .. Len(sent)
      BY <2>0
    <3>2. sent \in Seq(Events)
      BY <1>1
    <3> QED BY <3>1, <3>2
  <2>6. ready \in Seq(Events \cup {Failed}) /\ Len(ready) = k /\ DOMAIN ready = 1 .. k
    BY <2>5
  <2>7. /\ Len(published) = lastPublished
        /\ \A n \in 1 .. Len(published) : published[n].kind \notin {"closed", "failed"}
    BY <1>3, RoutedSaysNothingElse DEF EInv
  <2>8. /\ published' \in Seq(Events \cup {Failed})
        /\ Len(published') = lastPublished + k
        /\ DOMAIN published' = 1 .. lastPublished + k
        /\ \A n \in 1 .. lastPublished : published'[n] = published[n]
        /\ \A n \in 1 .. k : published'[lastPublished + n] = ready[n]
    <3>1. /\ published \o ready \in Seq(Events \cup {Failed})
          /\ Len(published \o ready) = Len(published) + Len(ready)
          /\ DOMAIN (published \o ready) = 1 .. Len(published) + Len(ready)
          /\ \A n \in 1 .. Len(published) : (published \o ready)[n] = published[n]
          /\ \A n \in 1 .. Len(ready) : (published \o ready)[Len(published) + n] = ready[n]
      <4>1. ready \in Seq(Events \cup {Failed}) /\ published \in Seq(Events \cup {Failed})
        BY <2>4, <2>6
      <4> HIDE DEF ready
      <4> QED BY <4>1, Joined
    <3> HIDE DEF ready
    <3> QED BY <2>3, <2>6, <2>7, <3>1
  <2>9. \A n \in 1 .. lastPublished + k : published'[n] = sent[n]
    <3> SUFFICES ASSUME NEW n \in 1 .. lastPublished + k PROVE published'[n] = sent[n]
      OBVIOUS
    <3>1. CASE n <= lastPublished
      BY <2>4, <2>8, <3>1 DEF EInv, FollowsServer
    <3>2. CASE n > lastPublished
      <4>1. n - lastPublished \in 1 .. k /\ lastPublished + (n - lastPublished) = n
        BY <2>4, <3>2
      <4> QED BY <2>8, <4>1
    <3> QED BY <2>4, <3>1, <3>2
  <2>10. lastPublished' = lastPublished + k /\ lastPublished' \in Nat
    BY <2>3, <2>4, <2>6
  <2>11. FollowsServer'
    <3>1. lastPublished' <= Len(published') /\ lastPublished' <= Len(sent')
      <4>1. Len(published') = lastPublished + k /\ sent' = sent
        BY <1>1, <2>8
      <4> QED BY <2>0, <2>10, <4>1
    <3>2. \A n \in 1 .. lastPublished' : published'[n] = sent'[n]
      BY <1>1, <2>9, <2>10
    <3> QED BY <2>8, <2>10, <3>1, <3>2 DEF FollowsServer
  <2>12. FromServer(pending)'
    <3>1. IsFiniteSet(pending')
      BY <2>1, <2>3, FS_Subset DEF FromServer
    <3>2. pending' \subseteq waiting
      BY <2>3
    <3> QED BY <1>1, <2>1, <3>1, <3>2 DEF FromServer
  <2>13. EndsSession'
    <3>1. ASSUME NEW n \in 1 .. lastPublished + k, published'[n].kind \in {"closed", "failed"}
          PROVE  n = lastPublished + k /\ ~ routed'
      <4>1. n \in 1 .. Len(sent) /\ sent[n].kind = "closed"
        <5>1. n \in 1 .. Len(sent) /\ published'[n] = sent[n]
          BY <2>0, <2>9
        <5>2. sent[n] \in Events
          <6>1. sent \in Seq(Events)
            BY <1>1
          <6> QED BY <5>1, <6>1
        <5> QED BY <3>1, <5>1, <5>2 DEF Events
      <4>2. n = Len(sent) /\ n = lastPublished + k
        <5>1. n = Len(sent)
          BY <1>1, <4>1
        <5>2. n <= lastPublished + k
          OBVIOUS
        <5> QED BY <2>0, <5>1, <5>2
      <4>3. n > lastPublished
        BY <2>4, <2>7, <2>8, <3>1
      <4>4. k \in 1 .. k /\ ready[k] = sent[n]
        BY <2>4, <4>2, <4>3
      <4> QED BY <2>3, <2>6, <4>1, <4>2, <4>4
    <3>2. routed' \in BOOLEAN
      BY <2>3
    <3> QED BY <2>8, <2>10, <3>1, <3>2 DEF EndsSession
  <2> QED BY <2>11, <2>12, <2>13 DEF EInv
<1> QED BY <1>2, <1>3

\* A lost connection ends a session that is still routed.
LEMMA LossKeepsEvents ==
  ASSUME PInv, EInv, Disconnect
  PROVE  EInv'
<1>1. UNCHANGED <<sent, pending, lastPublished>> /\ routed' = FALSE
  BY DEF Disconnect, vars, processVars
<1>2. FromServer(pending)'
  BY <1>1 DEF EInv, FromServer
<1>3. published \in Seq(Events \cup {Failed}) /\ lastPublished \in Nat
  BY DEF EInv, FollowsServer
<1>4. CASE routed
  <2>1. published' = published \o <<Failed>>
    BY <1>4 DEF Disconnect, Publish
  <2>2. /\ published' \in Seq(Events \cup {Failed})
        /\ Len(published') = Len(published) + 1
        /\ DOMAIN published' = 1 .. Len(published) + 1
        /\ \A n \in 1 .. Len(published) : published'[n] = published[n]
        /\ published'[Len(published) + 1] = Failed
    BY <1>3, <2>1
  <2>3. /\ Len(published) = lastPublished
        /\ \A n \in 1 .. Len(published) : published[n].kind \notin {"closed", "failed"}
    BY <1>4, RoutedSaysNothingElse DEF EInv
  <2>4. FollowsServer'
    BY <1>1, <1>3, <2>2, <2>3 DEF EInv, FollowsServer
  <2>5. EndsSession'
    <3>1. \A n \in 1 .. Len(published) + 1 :
             n # Len(published) + 1 => published'[n].kind \notin {"closed", "failed"}
      <4> SUFFICES ASSUME NEW n \in 1 .. Len(published) + 1, n # Len(published) + 1
                   PROVE  published'[n].kind \notin {"closed", "failed"}
        OBVIOUS
      <4>1. n \in 1 .. Len(published)
        BY <1>3, <2>3
      <4> QED BY <2>2, <2>3, <4>1
    <3> QED BY <1>1, <2>2, <2>3, <3>1 DEF EndsSession
  <2> QED BY <1>2, <2>4, <2>5 DEF EInv
<1>5. CASE ~ routed
  <2>1. published' = published
    BY <1>5 DEF Disconnect
  <2> QED BY <1>1, <1>2, <2>1 DEF EInv, FollowsServer, EndsSession
<1> QED BY <1>4, <1>5 DEF EInv, EndsSession

\* Every step keeps what was published in order.
LEMMA EventsStepInv == PInv /\ PInv' /\ EInv /\ [EventsNext]_eventVars => EInv'
<1> SUFFICES ASSUME PInv, PInv', EInv, [EventsNext]_eventVars PROVE EInv'
  OBVIOUS
<1>1. CASE ServerStep
  BY <1>1, ProcessKeepsEvents DEF ServerStep, sessionVars
<1>2. ASSUME NEW i \in DOMAIN sent, Arrive(i) PROVE EInv'
  BY <1>2, ArrivalKeepsEvents
<1>3. CASE Disconnect
  BY <1>3, LossKeepsEvents
<1>4. CASE Unregister
  BY <1>4 DEF Unregister, vars, processVars, EInv, FromServer, FollowsServer, EndsSession
<1>5. CASE Serve \/ Subscribe \/ Recv \/ UNCHANGED eventVars
  BY <1>5 DEF Serve, Subscribe, Recv, eventVars, sessionVars, vars, processVars, EInv, FromServer,
     FollowsServer, EndsSession
<1> QED BY <1>1, <1>2, <1>3, <1>4, <1>5 DEF EventsNext

\* The client's session publishes what the server sent, in the server's order
\* and without a gap, whatever the order of arrival; an end comes once, last.
THEOREM EventsPublishedInOrder == EventsSpec => []PublishedInOrder
<1>1. PInv /\ EInv => PublishedInOrder
  <2> SUFFICES ASSUME PInv, EInv PROVE PublishedInOrder
    OBVIOUS
  <2>1. /\ published \in Seq(Events \cup {Failed}) /\ lastPublished \in Nat
        /\ DOMAIN published = 1 .. Len(published) /\ Len(published) \in Nat
        /\ lastPublished <= Len(published) /\ lastPublished <= Len(sent)
        /\ \A n \in 1 .. lastPublished : published[n] = sent[n]
        /\ sent \in Seq(Events)
    BY DEF EInv, FollowsServer, PInv, OutputTypeOK
  <2>2. \A n \in DOMAIN published :
           n < Len(published) => published[n].kind \notin {"closed", "failed"}
    <3>1. \A n \in DOMAIN published :
             published[n].kind \in {"closed", "failed"} => n = Len(published)
      BY DEF EInv, EndsSession
    <3> QED BY <2>1, <3>1
  <2>3. Len(published) =
           lastPublished + (IF Ended(published) /\ Last(published) = Failed THEN 1 ELSE 0)
    <3>1. CASE Len(published) = lastPublished
      <4>1. ASSUME published # <<>> PROVE Last(published) # Failed
        <5>1. lastPublished \in 1 .. lastPublished /\ lastPublished \in 1 .. Len(sent)
          BY <2>1, <3>1, <4>1
        <5>2. Last(published) \in Events
          BY <2>1, <3>1, <5>1 DEF Last
        <5> QED BY <5>2 DEF Events, Failed
      <4> QED BY <2>1, <3>1, <4>1 DEF Ended
    <3>2. CASE /\ Len(published) = lastPublished + 1
               /\ published[Len(published)] = Failed
      <4>1. Last(published) = Failed /\ published # <<>>
        BY <2>1, <3>2 DEF Last
      <4> QED BY <3>2, <4>1 DEF Ended, Failed
    <3> QED BY <3>1, <3>2 DEF EInv, EndsSession
  <2> QED BY <2>1, <2>2, <2>3 DEF PublishedInOrder
<1> QED
  BY <1>1, EventsUseProcess, OutputInv, EventsInitInv, EventsStepInv, PTL DEF EventsSpec

\* The position of an event among those published.
Place(e) == IF e = Failed THEN lastPublished + 1 ELSE e.seq

\* A queue holds the latest events of a longer one.
LatestOf(queue, events) ==
    /\ Len(queue) <= Len(events)
    /\ \A i \in 1 .. Len(queue) : queue[i] = events[Len(events) - Len(queue) + i]

\* The log holds the latest events, as many as it may.
LogIsLatest ==
    /\ log \in Seq(Events \cup {Failed})
    /\ LatestOf(log, published)
    /\ Len(log) = Len(published) \/ Len(log) = EventCapacity

\* What a subscriber has received and is to be replayed.
Older == received \o replay

\* The live queue holds the latest events; what a subscriber had before is
\* older, in order, complete unless the queue was ever full, and never empty
\* if the queue is.
SubscriberInv ==
    /\ subscribed \in BOOLEAN
    /\ received \in Seq(Events \cup {Failed}) /\ replay \in Seq(Events \cup {Failed})
    /\ live \in Seq(Events \cup {Failed})
    /\ ~ subscribed => received = <<>> /\ replay = <<>> /\ live = <<>>
    /\ LatestOf(live, published)
    /\ \A i \in 1 .. Len(Older) :
          /\ Place(Older[i]) \in 1 .. Len(published) - Len(live)
          /\ Older[i] = published[Place(Older[i])]
    /\ \A i, j \in 1 .. Len(Older) : i < j => Place(Older[i]) < Place(Older[j])
    /\ subscribed /\ Len(published) <= EventCapacity =>
          Len(Older) = Len(published) - Len(live)
    /\ subscribed /\ live = <<>> /\ published # <<>> =>
          Older # <<>> /\ Place(Older[Len(Older)]) = Len(published)

SInv == LogIsLatest /\ SubscriberInv

\* KeepLatest drops from the front what is beyond the capacity.
LEMMA KeepLatestKeeps ==
  ASSUME NEW T, NEW s \in Seq(T)
  PROVE  LET kept == KeepLatest(s)
         IN  /\ kept \in Seq(T) /\ LatestOf(kept, s)
             /\ Len(kept) = IF Len(s) <= EventCapacity THEN Len(s) ELSE EventCapacity
<1>1. Len(s) \in Nat /\ EventCapacity \in Nat \ {0}
  BY CapacityAssumption
<1> DEFINE from == Max({1, Len(s) - EventCapacity + 1})
<1>2. from = IF Len(s) <= EventCapacity THEN 1 ELSE Len(s) - EventCapacity + 1
  <2>1. \A a, b \in Int : Max({a, b}) = IF a >= b THEN a ELSE b
    <3> SUFFICES ASSUME NEW a \in Int, NEW b \in Int
                 PROVE  Max({a, b}) = IF a >= b THEN a ELSE b
      OBVIOUS
    <3>1. \E x \in {a, b} : \A y \in {a, b} : x >= y
      OBVIOUS
    <3>2. Max({a, b}) \in {a, b} /\ \A y \in {a, b} : Max({a, b}) >= y
      BY <3>1 DEF Max
    <3> QED BY <3>2
  <2> QED BY <1>1, <2>1
<1>3. KeepLatest(s) = SubSeq(s, from, Len(s))
  BY DEF KeepLatest
<1> HIDE DEF from
<1>4. /\ from \in 1 .. Len(s) + 1
      /\ Len(s) - from + 1 = IF Len(s) <= EventCapacity THEN Len(s) ELSE EventCapacity
  BY <1>1, <1>2
<1>5. /\ SubSeq(s, from, Len(s)) \in Seq(T)
      /\ Len(SubSeq(s, from, Len(s))) = Len(s) - from + 1
      /\ \A i \in 1 .. Len(s) - from + 1 : SubSeq(s, from, Len(s))[i] = s[from + i - 1]
  BY <1>1, <1>4
<1>6. LatestOf(SubSeq(s, from, Len(s)), s)
  <2>1. \A i \in 1 .. Len(s) - from + 1 :
           Len(s) - (Len(s) - from + 1) + i = from + i - 1
    BY <1>1, <1>4
  <2>2. Len(s) - from + 1 <= Len(s)
    BY <1>1, <1>4
  <2> QED BY <1>5, <2>1, <2>2 DEF LatestOf
<1> QED BY <1>3, <1>4, <1>5, <1>6

\* A queue of the latest events stays one when more are published.
LEMMA LatestStays ==
  ASSUME NEW T, NEW events \in Seq(T), NEW queue \in Seq(T), NEW more \in Seq(T),
         LatestOf(queue, events)
  PROVE  LET kept == KeepLatest(queue \o more)
         IN  /\ kept \in Seq(T) /\ LatestOf(kept, events \o more)
             /\ Len(kept) = IF Len(queue) + Len(more) <= EventCapacity
                               THEN Len(queue) + Len(more) ELSE EventCapacity
<1> DEFINE long == queue \o more
           all  == events \o more
           kept == KeepLatest(long)
<1>1. /\ long \in Seq(T) /\ Len(long) = Len(queue) + Len(more)
      /\ \A n \in 1 .. Len(queue) : long[n] = queue[n]
      /\ \A n \in 1 .. Len(more) : long[Len(queue) + n] = more[n]
  BY Joined
<1>2. /\ all \in Seq(T) /\ Len(all) = Len(events) + Len(more)
      /\ \A n \in 1 .. Len(events) : all[n] = events[n]
      /\ \A n \in 1 .. Len(more) : all[Len(events) + n] = more[n]
  BY Joined
<1>3. /\ kept \in Seq(T) /\ LatestOf(kept, long)
      /\ Len(kept) = IF Len(long) <= EventCapacity THEN Len(long) ELSE EventCapacity
  <2> HIDE DEF long
  <2> QED BY <1>1, KeepLatestKeeps
<1>4. /\ Len(queue) \in Nat /\ Len(events) \in Nat /\ Len(more) \in Nat
      /\ Len(kept) \in Nat /\ Len(queue) <= Len(events)
  BY <1>3 DEF LatestOf
<1> HIDE DEF long, all, kept
<1>5. \A n \in 1 .. Len(long) : long[n] = all[Len(all) - Len(long) + n]
  <2> SUFFICES ASSUME NEW n \in 1 .. Len(long) PROVE long[n] = all[Len(all) - Len(long) + n]
    OBVIOUS
  <2>0. Len(all) - Len(long) + n = Len(events) - Len(queue) + n
    BY <1>1, <1>2, <1>4
  <2>1. CASE n \in 1 .. Len(queue)
    <3>1. Len(events) - Len(queue) + n \in 1 .. Len(events)
      BY <1>4, <2>1
    <3>2. queue[n] = events[Len(events) - Len(queue) + n]
      BY <2>1 DEF LatestOf
    <3> QED BY <1>1, <1>2, <2>0, <2>1, <3>1, <3>2
  <2>2. CASE n \notin 1 .. Len(queue)
    <3>1. /\ n - Len(queue) \in 1 .. Len(more)
          /\ Len(queue) + (n - Len(queue)) = n
          /\ Len(events) - Len(queue) + n = Len(events) + (n - Len(queue))
      BY <1>1, <1>4, <2>2
    <3>2. long[n] = more[n - Len(queue)]
      BY <1>1, <3>1
    <3>3. all[Len(events) + (n - Len(queue))] = more[n - Len(queue)]
      BY <1>2, <3>1
    <3> QED BY <2>0, <3>1, <3>2, <3>3
  <2> QED BY <2>1, <2>2
<1>6. LatestOf(kept, all)
  <2>1. Len(kept) <= Len(long) /\ Len(long) <= Len(all)
    BY <1>1, <1>2, <1>3, <1>4 DEF LatestOf
  <2>2. ASSUME NEW i \in 1 .. Len(kept) PROVE kept[i] = all[Len(all) - Len(kept) + i]
    <3>1. /\ Len(long) - Len(kept) + i \in 1 .. Len(long)
          /\ Len(all) - Len(long) + (Len(long) - Len(kept) + i) = Len(all) - Len(kept) + i
      BY <1>1, <1>2, <1>4, <2>1
    <3>2. kept[i] = long[Len(long) - Len(kept) + i]
      BY <1>3 DEF LatestOf
    <3> QED BY <1>5, <3>1, <3>2
  <2>3. Len(kept) <= Len(all)
    BY <1>1, <1>2, <1>4, <2>1
  <2> QED BY <2>2, <2>3 DEF LatestOf
<1> QED BY <1>1, <1>3, <1>6 DEF long, all, kept

\* Every event published stands at its place.
LEMMA PublishedPlaces ==
  ASSUME PInv, EInv, NEW p \in 1 .. Len(published)
  PROVE  /\ Place(published[p]) = p
         /\ published[p] # Failed => published[p].seq = p
<1>1. /\ lastPublished \in Nat /\ lastPublished <= Len(sent) /\ Len(sent) \in Nat
      /\ sent \in Seq(Events)
      /\ \A n \in 1 .. lastPublished : published[n] = sent[n]
      /\ \A n \in 1 .. Len(sent) : sent[n].seq = n
  BY DEF PInv, OutputTypeOK, NumberedWithoutGaps, EInv, FollowsServer
<1>2. CASE p <= lastPublished
  <2>1. p \in 1 .. lastPublished /\ p \in 1 .. Len(sent)
    BY <1>1, <1>2
  <2>2. published[p] \in Events /\ published[p].seq = p
    BY <1>1, <2>1
  <2>3. published[p] # Failed
    BY <2>2 DEF Events, Failed
  <2> QED BY <2>2, <2>3 DEF Place
<1>3. CASE p > lastPublished
  <2>1. p = lastPublished + 1 /\ published[p] = Failed
    BY <1>1, <1>3 DEF EInv, EndsSession
  <2> QED BY <2>1 DEF Place
<1> QED BY <1>1, <1>2, <1>3

\* Initially the log is empty and there is no subscriber.
LEMMA SubscriberInitInv == EventsInit => SInv
<1> SUFFICES ASSUME EventsInit PROVE SInv
  OBVIOUS
<1>1. Older = <<>>
  BY DEF EventsInit, Older
<1>2. /\ Len(Older) = 0 /\ Len(log) = 0 /\ Len(live) = 0 /\ Len(published) = 0
      /\ published = <<>>
  BY <1>1 DEF EventsInit
<1>3. LatestOf(log, published) /\ LatestOf(live, published)
  BY <1>2 DEF LatestOf
<1>4. LogIsLatest
  BY <1>2, <1>3 DEF EventsInit, LogIsLatest
<1>5. SubscriberInv
  <2>1. /\ received = <<>> /\ replay = <<>> /\ live = <<>> /\ subscribed = FALSE
        /\ received \in Seq(Events \cup {Failed}) /\ replay \in Seq(Events \cup {Failed})
        /\ live \in Seq(Events \cup {Failed})
    BY DEF EventsInit
  <2>2. \A i \in 1 .. Len(Older) : FALSE
    BY <1>2
  <2>3. /\ \A i \in 1 .. Len(Older) :
              /\ Place(Older[i]) \in 1 .. Len(published) - Len(live)
              /\ Older[i] = published[Place(Older[i])]
        /\ \A i, j \in 1 .. Len(Older) : i < j => Place(Older[i]) < Place(Older[j])
    BY <2>2
  <2> QED BY <1>3, <2>1, <2>3 DEF SubscriberInv
<1> QED BY <1>4, <1>5 DEF SInv

\* A routed session that publishes adds to the log and to the live queue.
LEMMA PublishKeepsSubscriber ==
  ASSUME PInv, EInv, SInv, routed, NEW more \in Seq(Events \cup {Failed}), Publish(more),
         lastPublished' \in Nat, UNCHANGED <<subscribed, replay, received>>
  PROVE  SInv'
<1> DEFINE E == Events \cup {Failed}
<1>1. /\ published \in Seq(E) /\ log \in Seq(E) /\ live \in Seq(E)
      /\ LatestOf(log, published) /\ LatestOf(live, published)
      /\ subscribed \in BOOLEAN
  BY DEF EInv, FollowsServer, SInv, LogIsLatest, SubscriberInv
<1>2. /\ published' = published \o more
      /\ log' = KeepLatest(log \o more)
      /\ live' = IF subscribed THEN KeepLatest(live \o more) ELSE live
  BY DEF Publish
<1>3. /\ Len(published) \in Nat /\ Len(more) \in Nat /\ EventCapacity \in Nat \ {0}
      /\ Len(live) \in Nat /\ Len(log) \in Nat
      /\ Len(live) <= Len(published) /\ Len(log) <= Len(published)
  BY <1>1, CapacityAssumption DEF LatestOf
<1>4. /\ Len(published') = Len(published) + Len(more)
      /\ \A n \in 1 .. Len(published) : published'[n] = published[n]
      /\ published' \in Seq(E)
  BY <1>1, <1>2, Joined
<1>5. LogIsLatest'
  <2>1. /\ log' \in Seq(E) /\ LatestOf(log', published')
        /\ Len(log') = IF Len(log) + Len(more) <= EventCapacity
                          THEN Len(log) + Len(more) ELSE EventCapacity
    BY <1>1, <1>2, LatestStays
  <2>2. Len(log) = Len(published) \/ Len(log) = EventCapacity
    BY DEF SInv, LogIsLatest
  <2>3. Len(log') = Len(published') \/ Len(log') = EventCapacity
    BY <1>3, <1>4, <2>1, <2>2
  <2> QED BY <2>1, <2>3 DEF LogIsLatest, LatestOf
<1>6. Older' = Older /\ Older \in Seq(E) /\ Len(Older) \in Nat
  BY Joined DEF Older, SInv, SubscriberInv
<1>7. \A i \in 1 .. Len(Older) :
         /\ Place(Older[i])' = Place(Older[i])
         /\ Place(Older[i]) \in 1 .. Len(published) - Len(live)
         /\ Older[i] = published[Place(Older[i])]
  <2> SUFFICES ASSUME NEW i \in 1 .. Len(Older)
               PROVE  /\ Place(Older[i])' = Place(Older[i])
                      /\ Place(Older[i]) \in 1 .. Len(published) - Len(live)
                      /\ Older[i] = published[Place(Older[i])]
    OBVIOUS
  <2>1. /\ Place(Older[i]) \in 1 .. Len(published) - Len(live)
        /\ Older[i] = published[Place(Older[i])]
    BY DEF SInv, SubscriberInv
  <2>2. Place(Older[i]) \in 1 .. Len(published)
    BY <1>3, <2>1
  <2>3. Older[i] # Failed
    BY <2>1, <2>2, RoutedSaysNothingElse DEF EInv, Failed
  <2> QED BY <1>6, <2>1, <2>3 DEF Place
<1>8. CASE subscribed
  <2>1. /\ live' \in Seq(E) /\ LatestOf(live', published')
        /\ Len(live') = IF Len(live) + Len(more) <= EventCapacity
                           THEN Len(live) + Len(more) ELSE EventCapacity
    BY <1>1, <1>2, <1>8, LatestStays
  <2>2. /\ Len(live') \in Nat
        /\ Len(published) - Len(live) <= Len(published') - Len(live')
    BY <1>3, <1>4, <2>1
  <2>3. \A i \in 1 .. Len(Older') :
           /\ Place(Older[i])' \in 1 .. Len(published') - Len(live')
           /\ Older'[i] = published'[Place(Older[i])']
    <3> SUFFICES ASSUME NEW i \in 1 .. Len(Older)
                 PROVE  /\ Place(Older[i])' \in 1 .. Len(published') - Len(live')
                        /\ Older'[i] = published'[Place(Older[i])']
      BY <1>6
    <3>1. /\ Place(Older[i])' \in 1 .. Len(published') - Len(live')
          /\ Place(Older[i])' \in 1 .. Len(published)
      BY <1>3, <1>4, <1>7, <2>2
    <3> QED BY <1>4, <1>6, <1>7, <3>1
  <2>4. \A i, j \in 1 .. Len(Older') : i < j => Place(Older[i])' < Place(Older[j])'
    BY <1>6, <1>7 DEF SInv, SubscriberInv
  <2>5. Len(published') <= EventCapacity => Len(Older') = Len(published') - Len(live')
    <3> SUFFICES ASSUME Len(published') <= EventCapacity
                 PROVE  Len(Older') = Len(published') - Len(live')
      OBVIOUS
    <3>1. Len(published) <= EventCapacity => Len(Older) = Len(published) - Len(live)
      BY <1>8 DEF SInv, SubscriberInv
    <3>2. Len(published) + Len(more) <= EventCapacity
      BY <1>4
    <3>3. Len(published) <= EventCapacity /\ Len(live) + Len(more) <= EventCapacity
      BY <1>3, <3>2
    <3>4. Len(live') = Len(live) + Len(more)
      BY <2>1, <3>3
    <3>5. Len(published) - Len(live) = Len(published) + Len(more) - (Len(live) + Len(more))
      BY <1>3
    <3>6. Len(published') - Len(live') = Len(published) - Len(live)
      BY <1>4, <3>4, <3>5
    <3> QED BY <1>6, <3>1, <3>3, <3>6
  <2>6. ASSUME live' = <<>>, published' # <<>>
        PROVE  Older' # <<>> /\ Place(Older[Len(Older)])' = Len(published')
    <3>1. Len(live') = 0 /\ Len(published') # 0
      BY <1>4, <2>6
    <3>2. Len(more) = 0 /\ Len(live) = 0 /\ Len(published) # 0
      <4>1. Len(live) + Len(more) = 0
        BY <1>3, <2>1, <3>1
      <4>2. Len(published) + Len(more) # 0
        BY <1>4, <3>1
      <4> QED BY <1>3, <4>1, <4>2
    <3>3. live = <<>> /\ published # <<>>
      BY <1>1, <3>2
    <3>4. Older # <<>> /\ Place(Older[Len(Older)]) = Len(published)
      BY <1>8, <3>3 DEF SInv, SubscriberInv
    <3>5. Len(Older) \in 1 .. Len(Older)
      BY <1>6, <3>4
    <3> QED BY <1>3, <1>4, <1>6, <1>7, <3>2, <3>4, <3>5
  <2>7. SubscriberInv'
    BY <1>6, <1>8, <2>1, <2>3, <2>4, <2>5, <2>6 DEF SInv, SubscriberInv, LatestOf
  <2> QED BY <1>5, <2>7 DEF SInv
<1>9. CASE ~ subscribed
  <2>1. received = <<>> /\ replay = <<>> /\ live = <<>> /\ live' = live
    BY <1>2, <1>9 DEF SInv, SubscriberInv
  <2>2. Len(Older') = 0 /\ Len(live') = 0
    BY <1>6, <2>1 DEF Older
  <2>3. SubscriberInv'
    BY <1>4, <1>9, <2>1, <2>2 DEF SInv, SubscriberInv, LatestOf
  <2> QED BY <1>5, <2>3 DEF SInv
<1> QED BY <1>1, <1>8, <1>9

\* A subscriber that comes is replayed the log.
LEMMA SubscribeKeeps ==
  ASSUME PInv, EInv, SInv, Subscribe
  PROVE  SInv'
<1> DEFINE E == Events \cup {Failed}
<1>1. /\ subscribed' = TRUE /\ replay' = log
      /\ UNCHANGED <<published, lastPublished, log, live, received>>
      /\ received = <<>> /\ live = <<>>
      /\ log \in Seq(E) /\ published \in Seq(E) /\ LatestOf(log, published)
      /\ Len(log) = Len(published) \/ Len(log) = EventCapacity
  BY DEF Subscribe, sessionVars, SInv, LogIsLatest, SubscriberInv, EInv, FollowsServer
<1>2. Older' = log
  BY <1>1 DEF Older
<1>3. /\ Len(log) \in Nat /\ Len(published) \in Nat /\ Len(log) <= Len(published)
      /\ Len(live) = 0 /\ EventCapacity \in Nat \ {0}
  BY <1>1, CapacityAssumption DEF LatestOf
<1>4. \A i \in 1 .. Len(log) :
         /\ Len(published) - Len(log) + i \in 1 .. Len(published)
         /\ log[i] = published[Len(published) - Len(log) + i]
         /\ Place(log[i]) = Len(published) - Len(log) + i
  <2> SUFFICES ASSUME NEW i \in 1 .. Len(log)
               PROVE  /\ Len(published) - Len(log) + i \in 1 .. Len(published)
                      /\ log[i] = published[Len(published) - Len(log) + i]
                      /\ Place(log[i]) = Len(published) - Len(log) + i
    OBVIOUS
  <2>1. Len(published) - Len(log) + i \in 1 .. Len(published)
    BY <1>3
  <2>2. log[i] = published[Len(published) - Len(log) + i]
    BY <1>1 DEF LatestOf
  <2> QED BY <2>1, <2>2, PublishedPlaces
<1>5. \A i, j \in 1 .. Len(log) : i < j => Place(log[i]) < Place(log[j])
  BY <1>3, <1>4
<1>6. Len(published) <= EventCapacity => Len(log) = Len(published) - Len(live)
  BY <1>1, <1>3
<1>7. published # <<>> => log # <<>> /\ Place(log[Len(log)]) = Len(published)
  <2> SUFFICES ASSUME published # <<>>
               PROVE  log # <<>> /\ Place(log[Len(log)]) = Len(published)
    OBVIOUS
  <2>1. Len(log) \in 1 .. Len(log)
    BY <1>1, <1>3
  <2>2. Place(log[Len(log)]) = Len(published) - Len(log) + Len(log)
    BY <1>4, <2>1
  <2> QED BY <1>3, <2>1, <2>2
<1>8. \A e : Place(e)' = Place(e)
  BY <1>1 DEF Place
<1>9. LogIsLatest'
  BY <1>1 DEF SInv, LogIsLatest, LatestOf
<1>10. SubscriberInv'
  <2>1. \A i \in 1 .. Len(log) :
           /\ Place(log[i]) \in 1 .. Len(published) - Len(live)
           /\ log[i] = published[Place(log[i])]
    BY <1>3, <1>4
  <2>2. LatestOf(live, published)'
    BY <1>1, <1>3 DEF LatestOf
  <2> QED BY <1>1, <1>2, <1>5, <1>6, <1>7, <1>8, <2>1, <2>2 DEF SubscriberInv
<1> QED BY <1>9, <1>10 DEF SInv

\* Receiving moves the line between what was received and what is to come.
LEMMA RecvKeeps ==
  ASSUME PInv, EInv, SInv, Recv
  PROVE  SInv'
<1> DEFINE E == Events \cup {Failed}
<1>1. /\ UNCHANGED <<published, lastPublished, log, subscribed>> /\ subscribed
      /\ received \in Seq(E) /\ replay \in Seq(E) /\ live \in Seq(E)
      /\ published \in Seq(E) /\ LatestOf(live, published)
  BY DEF Recv, sessionVars, SInv, SubscriberInv, EInv, FollowsServer
<1>2. LogIsLatest'
  BY <1>1 DEF SInv, LogIsLatest, LatestOf
<1>3. \A e : Place(e)' = Place(e)
  BY <1>1 DEF Place
<1>4. CASE replay # <<>> /\ live' = live
  <2>1. received' = Append(received, Head(replay)) /\ replay' = Tail(replay)
    BY <1>4 DEF Recv
  <2>2. /\ received' \in Seq(E) /\ replay' \in Seq(E)
        /\ received' \o replay' = received \o replay
    BY <1>1, <1>4, <2>1
  <2>3. Older' = Older
    BY <2>2 DEF Older
  <2> QED BY <1>1, <1>2, <1>3, <1>4, <2>2, <2>3 DEF SInv, SubscriberInv, LatestOf
<1>5. CASE replay = <<>> /\ live # <<>>
  <2>1. /\ received' = Append(received, Head(live)) /\ live' = Tail(live)
        /\ replay' = replay
    BY <1>5 DEF Recv
  <2>2. /\ Older = received /\ Older' = Append(received, live[1])
    BY <1>1, <1>5, <2>1 DEF Older
  <2>3. /\ Len(live) \in Nat \ {0} /\ Len(published) \in Nat
        /\ Len(live) <= Len(published) /\ Len(received) \in Nat
    BY <1>1, <1>5 DEF LatestOf
  <2>4. /\ live' \in Seq(E) /\ Len(live') = Len(live) - 1
        /\ \A i \in 1 .. Len(live) - 1 : live'[i] = live[i + 1]
    BY <1>1, <1>5, <2>1
  <2>5. LatestOf(live', published)
    <3>1. ASSUME NEW i \in 1 .. Len(live) - 1
          PROVE  live'[i] = published[Len(published) - (Len(live) - 1) + i]
      <4>1. /\ i + 1 \in 1 .. Len(live)
            /\ Len(published) - Len(live) + (i + 1) = Len(published) - (Len(live) - 1) + i
        BY <2>3
      <4>2. live[i + 1] = published[Len(published) - Len(live) + (i + 1)]
        BY <1>1, <4>1 DEF LatestOf
      <4> QED BY <2>4, <4>1, <4>2
    <3> QED BY <2>3, <2>4, <3>1 DEF LatestOf
  <2> DEFINE p == Len(published) - Len(live) + 1
  <2>6. /\ p \in 1 .. Len(published) /\ live[1] = published[p] /\ Place(live[1]) = p
    <3>1. p \in 1 .. Len(published) /\ 1 \in 1 .. Len(live)
      BY <2>3
    <3>2. live[1] = published[p]
      BY <1>1, <3>1 DEF LatestOf
    <3> QED BY <3>1, <3>2, PublishedPlaces
  <2>7. /\ received' \in Seq(E) /\ Len(Older') = Len(received) + 1
        /\ Older'[Len(received) + 1] = live[1]
        /\ \A i \in 1 .. Len(received) : Older'[i] = received[i]
    <3>1. live[1] \in E
      BY <1>1, <2>3
    <3>2. Head(live) = live[1]
      BY <1>1, <1>5
    <3> QED BY <1>1, <2>1, <2>2, <3>1, <3>2
  <2>8. /\ Len(published) - Len(live') = p
        /\ \A i \in 1 .. Len(received) :
              /\ Place(received[i]) \in 1 .. p - 1
              /\ received[i] = published[Place(received[i])]
        /\ \A i, j \in 1 .. Len(received) : i < j => Place(received[i]) < Place(received[j])
    BY <2>2, <2>3, <2>4 DEF SInv, SubscriberInv
  <2>9. \A i \in 1 .. Len(received) + 1 : i \in 1 .. Len(received) \/ i = Len(received) + 1
    BY <2>3
  <2> HIDE DEF p
  <2>10. p \in Nat
    BY <2>6
  <2>11. \A i \in 1 .. Len(Older') :
            /\ Place(Older'[i]) \in 1 .. p
            /\ Older'[i] = published[Place(Older'[i])]
    <3> SUFFICES ASSUME NEW i \in 1 .. Len(received) + 1
                 PROVE  /\ Place(Older'[i]) \in 1 .. p
                        /\ Older'[i] = published[Place(Older'[i])]
      BY <2>7
    <3>1. CASE i \in 1 .. Len(received)
      BY <2>7, <2>8, <2>10, <3>1
    <3>2. CASE i = Len(received) + 1
      BY <2>6, <2>7, <2>10, <3>2
    <3> QED BY <2>9, <3>1, <3>2
  <2>12. \A i, j \in 1 .. Len(Older') : i < j => Place(Older'[i]) < Place(Older'[j])
    <3> SUFFICES ASSUME NEW i \in 1 .. Len(received) + 1, NEW j \in 1 .. Len(received) + 1,
                        i < j
                 PROVE  Place(Older'[i]) < Place(Older'[j])
      BY <2>7
    <3>1. i \in 1 .. Len(received)
      BY <2>3
    <3>2. CASE j \in 1 .. Len(received)
      BY <2>7, <2>8, <3>1, <3>2
    <3>3. CASE j = Len(received) + 1
      BY <2>6, <2>7, <2>8, <2>10, <3>1, <3>3
    <3> QED BY <2>9, <3>2, <3>3
  <2>13. Len(published) <= EventCapacity => Len(Older') = p
    <3>1. Len(published) <= EventCapacity => Len(received) = Len(published) - Len(live)
      BY <1>1, <2>2 DEF SInv, SubscriberInv
    <3> QED BY <2>3, <2>7, <3>1 DEF p
  <2>14. live' = <<>> => Older' # <<>> /\ Place(Older'[Len(Older')]) = Len(published)
    <3> SUFFICES ASSUME live' = <<>>
                 PROVE  Older' # <<>> /\ Place(Older'[Len(Older')]) = Len(published)
      OBVIOUS
    <3>0. Len(live') = 0
      OBVIOUS
    <3>1. Len(live) = 1 /\ p = Len(published)
      <4>1. Len(live) - 1 = 0
        BY <2>4, <3>0
      <4>2. Len(live) = 1
        BY <2>3, <4>1
      <4>3. Len(published) - 1 + 1 = Len(published)
        BY <2>3
      <4> QED BY <4>2, <4>3 DEF p
    <3>2. Older' # <<>>
      BY <2>3, <2>7
    <3> QED BY <2>6, <2>7, <3>1, <3>2
  <2>15. SubscriberInv'
    BY <1>1, <1>3, <1>5, <2>1, <2>4, <2>5, <2>7, <2>8, <2>11, <2>12, <2>13, <2>14
    DEF SubscriberInv
  <2> QED BY <1>2, <2>15 DEF SInv
<1> QED BY <1>4, <1>5 DEF Recv

\* A strictly increasing function from 1 .. N to itself is the identity: its
\* least point below itself and its greatest above itself cannot be.
LEMMA IncreasingIsIdentity ==
  ASSUME NEW N \in Nat, NEW f \in [1 .. N -> 1 .. N],
         \A m, n \in 1 .. N : m < n => f[m] < f[n]
  PROVE  \A n \in 1 .. N : f[n] = n
<1>1. \A n \in 1 .. N : f[n] >= n
  <2> DEFINE T == {n \in 1 .. N : f[n] < n}
  <2>1. SUFFICES ASSUME T # {} PROVE FALSE
    <3>1. T = {} => \A n \in 1 .. N : ~ f[n] < n
      OBVIOUS
    <3> QED BY <2>1, <3>1
  <2>2. PICK m \in T : \A n \in T : m <= n
    <3>1. T \in SUBSET Nat
      OBVIOUS
    <3> HIDE DEF T
    <3> QED BY <2>1, <3>1, LeastNatural
  <2>3. m \in 1 .. N /\ f[m] \in 1 .. N /\ f[m] < m
    OBVIOUS
  <2>4. f[f[m]] < f[m]
    BY <2>3
  <2>5. f[m] \in T
    BY <2>3, <2>4
  <2> QED BY <2>2, <2>3, <2>5
<1>2. \A n \in 1 .. N : f[n] <= n
  <2> DEFINE T == {k \in Nat : N - k \in 1 .. N /\ f[N - k] > N - k}
  <2>1. SUFFICES ASSUME NEW n \in 1 .. N, f[n] > n PROVE FALSE
    OBVIOUS
  <2>2. N - n \in T
    <3>1. N - n \in Nat /\ N - (N - n) = n
      OBVIOUS
    <3> QED BY <2>1, <3>1
  <2>3. PICK k \in T : \A l \in T : k <= l
    <3>1. T \in SUBSET Nat
      OBVIOUS
    <3> HIDE DEF T
    <3> QED BY <2>2, <3>1, LeastNatural
  <2> DEFINE m == N - k
  <2>4. m \in 1 .. N /\ f[m] \in 1 .. N /\ m < f[m] /\ k \in Nat
    OBVIOUS
  <2>5. f[m] < f[f[m]]
    BY <2>4
  <2>6. N - f[m] \in T
    <3>1. N - f[m] \in Nat /\ N - (N - f[m]) = f[m]
      BY <2>4
    <3> QED BY <2>4, <2>5, <3>1
  <2>7. N - f[m] < k
    BY <2>4
  <2> QED BY <2>3, <2>4, <2>6, <2>7
<1> QED BY <1>1, <1>2

\* Every step keeps the log and the subscriber's queues.
LEMMA SubscriberStepInv ==
  PInv /\ PInv' /\ EInv /\ EInv' /\ SInv /\ [EventsNext]_eventVars => SInv'
<1> SUFFICES ASSUME PInv, PInv', EInv, EInv', SInv, [EventsNext]_eventVars PROVE SInv'
  OBVIOUS
<1> DEFINE E == Events \cup {Failed}
<1>0. /\ lastPublished \in Nat /\ lastPublished' \in Nat
      /\ published' \in Seq(E)
  BY DEF EInv, FollowsServer
<1>1. CASE UNCHANGED <<published, lastPublished, subscriberVars>>
  <2>1. UNCHANGED <<published, lastPublished, log, subscribed, replay, live, received>>
    BY <1>1 DEF subscriberVars
  <2>2. Older' = Older /\ \A e : Place(e)' = Place(e)
    BY <2>1 DEF Older, Place
  <2>3. LogIsLatest'
    BY <2>1 DEF SInv, LogIsLatest, LatestOf
  <2>4. SubscriberInv'
    BY <2>1, <2>2 DEF SInv, SubscriberInv, LatestOf
  <2> QED BY <2>3, <2>4 DEF SInv
<1>2. ASSUME NEW i \in DOMAIN sent, Arrive(i) PROVE SInv'
  <2>1. CASE ~ (routed /\ sent[i].seq > lastPublished)
    <3>1. UNCHANGED <<published, lastPublished, subscriberVars>>
      BY <1>2, <2>1 DEF Arrive, subscriberVars
    <3> QED BY <1>1, <3>1
  <2>2. CASE routed /\ sent[i].seq > lastPublished
    <3> DEFINE waiting == pending \cup {sent[i]}
    <3>1. FromServer(waiting)
      BY FS_AddElement DEF EInv, FromServer
    <3>2. PICK k \in Nat : /\ lastPublished + k <= Len(sent)
                           /\ Ready(waiting) = [n \in 1 .. k |-> sent[lastPublished + n]]
      BY <3>1, ReadyIsNext DEF EInv
    <3>3. sent \in Seq(Events) /\ Len(sent) \in Nat
      BY DEF PInv, OutputTypeOK
    <3>4. \A n \in 1 .. k : lastPublished + n \in 1 .. Len(sent)
      BY <1>0, <3>2, <3>3
    <3>5. \A n \in 1 .. k : sent[lastPublished + n] \in E
      BY <3>3, <3>4
    <3>6. Ready(waiting) \in Seq(E)
      BY <3>2, <3>5
    <3>7. Publish(Ready(waiting)) /\ UNCHANGED <<subscribed, replay, received>>
      BY <1>2, <2>2 DEF Arrive
    <3> QED BY <1>0, <2>2, <3>6, <3>7, PublishKeepsSubscriber
  <2> QED BY <2>1, <2>2
<1>3. CASE Disconnect
  <2>1. CASE routed
    <3>1. <<Failed>> \in Seq(E)
      OBVIOUS
    <3>2. Publish(<<Failed>>) /\ UNCHANGED <<subscribed, replay, received>>
      BY <1>3, <2>1 DEF Disconnect
    <3> QED BY <1>0, <2>1, <3>1, <3>2, PublishKeepsSubscriber
  <2>2. CASE ~ routed
    BY <1>1, <1>3, <2>2 DEF Disconnect, subscriberVars
  <2> QED BY <2>1, <2>2
<1>4. CASE Subscribe
  BY <1>4, SubscribeKeeps
<1>5. CASE Recv
  BY <1>5, RecvKeeps
<1>6. CASE ServerStep \/ Serve \/ Unregister \/ UNCHANGED eventVars
  BY <1>1, <1>6 DEF ServerStep, Serve, Unregister, eventVars, sessionVars, subscriberVars
<1> QED BY <1>2, <1>3, <1>4, <1>5, <1>6 DEF EventsNext

\* A subscriber that does not lag gets every event once; one that lags gets
\* what is left in order, once, and the newest event is always ahead of it.
THEOREM SubscribersHearInOrder == EventsSpec => []SubscriberInOrder
<1>1. PInv /\ EInv /\ SInv => SubscriberInOrder
  <2> SUFFICES ASSUME PInv, EInv, SInv, subscribed PROVE
           /\ Len(published) <= EventCapacity => Stream = published
           /\ \A m, n \in DOMAIN Stream :
                 m < n /\ Stream[n] # Failed => Stream[m].seq < Stream[n].seq
           /\ published # <<>> => Last(Stream) = Last(published)
    BY DEF SubscriberInOrder
  <2> DEFINE E == Events \cup {Failed}
  <2>1. /\ published \in Seq(E) /\ live \in Seq(E) /\ Older \in Seq(E)
        /\ LatestOf(live, published)
    BY Joined DEF EInv, FollowsServer, SInv, SubscriberInv, Older
  <2>2. /\ Len(published) \in Nat /\ Len(live) \in Nat /\ Len(Older) \in Nat
        /\ Len(live) <= Len(published)
    BY <2>1 DEF LatestOf
  <2>3. /\ Stream = Older \o live
        /\ Stream \in Seq(E)
        /\ Len(Stream) = Len(Older) + Len(live) /\ DOMAIN Stream = 1 .. Len(Older) + Len(live)
        /\ \A n \in 1 .. Len(Older) : Stream[n] = Older[n]
        /\ \A n \in 1 .. Len(live) : Stream[Len(Older) + n] = live[n]
    <3>1. Stream = Older \o live
      BY DEF Stream, Older
    <3> QED BY <2>1, <3>1, Joined
  <2>4. \A n \in 1 .. Len(live) :
           /\ Len(published) - Len(live) + n \in 1 .. Len(published)
           /\ live[n] = published[Len(published) - Len(live) + n]
           /\ Place(live[n]) = Len(published) - Len(live) + n
    <3> SUFFICES ASSUME NEW n \in 1 .. Len(live)
                 PROVE  /\ Len(published) - Len(live) + n \in 1 .. Len(published)
                        /\ live[n] = published[Len(published) - Len(live) + n]
                        /\ Place(live[n]) = Len(published) - Len(live) + n
      OBVIOUS
    <3>1. Len(published) - Len(live) + n \in 1 .. Len(published)
      BY <2>2
    <3>2. live[n] = published[Len(published) - Len(live) + n]
      BY <2>1 DEF LatestOf
    <3> QED BY <3>1, <3>2, PublishedPlaces
  <2>5. \A n \in 1 .. Len(Older) :
           /\ Place(Older[n]) \in 1 .. Len(published) - Len(live)
           /\ Older[n] = published[Place(Older[n])]
    BY DEF SInv, SubscriberInv
  <2>6. \A m, n \in 1 .. Len(Older) : m < n => Place(Older[m]) < Place(Older[n])
    BY DEF SInv, SubscriberInv
  <2>7. \A n \in 1 .. Len(Older) + Len(live) :
           \/ n \in 1 .. Len(Older)
           \/ n - Len(Older) \in 1 .. Len(live) /\ Len(Older) + (n - Len(Older)) = n
    BY <2>2
  <2>8. \A n \in DOMAIN Stream :
           /\ Place(Stream[n]) \in 1 .. Len(published)
           /\ Stream[n] = published[Place(Stream[n])]
    <3> SUFFICES ASSUME NEW n \in 1 .. Len(Older) + Len(live)
                 PROVE  /\ Place(Stream[n]) \in 1 .. Len(published)
                        /\ Stream[n] = published[Place(Stream[n])]
      BY <2>3
    <3>1. CASE n \in 1 .. Len(Older)
      BY <2>2, <2>3, <2>5, <3>1
    <3>2. CASE n - Len(Older) \in 1 .. Len(live) /\ Len(Older) + (n - Len(Older)) = n
      <4>1. Stream[n] = live[n - Len(Older)]
        BY <2>3, <3>2
      <4> QED BY <2>4, <3>2, <4>1
    <3> QED BY <2>7, <3>1, <3>2
  <2>9. \A m, n \in DOMAIN Stream : m < n => Place(Stream[m]) < Place(Stream[n])
    <3> SUFFICES ASSUME NEW m \in 1 .. Len(Older) + Len(live),
                        NEW n \in 1 .. Len(Older) + Len(live), m < n
                 PROVE  Place(Stream[m]) < Place(Stream[n])
      BY <2>3
    <3>1. CASE n \in 1 .. Len(Older)
      <4>1. m \in 1 .. Len(Older)
        BY <2>2, <3>1
      <4> QED BY <2>3, <2>6, <3>1, <4>1
    <3>2. CASE n - Len(Older) \in 1 .. Len(live) /\ Len(Older) + (n - Len(Older)) = n
      <4>1. Place(Stream[n]) = Len(published) - Len(live) + (n - Len(Older))
        <5>1. Stream[n] = live[n - Len(Older)]
          BY <2>3, <3>2
        <5> QED BY <2>4, <3>2, <5>1
      <4>2. CASE m \in 1 .. Len(Older)
        <5>1. Place(Stream[m]) \in 1 .. Len(published) - Len(live)
          BY <2>3, <2>5, <4>2
        <5> QED BY <2>2, <3>2, <4>1, <5>1
      <4>3. CASE m - Len(Older) \in 1 .. Len(live) /\ Len(Older) + (m - Len(Older)) = m
        <5>1. Stream[m] = live[m - Len(Older)]
          BY <2>3, <4>3
        <5>2. Place(Stream[m]) = Len(published) - Len(live) + (m - Len(Older))
          BY <2>4, <4>3, <5>1
        <5> QED BY <2>2, <4>1, <5>2
      <4> QED BY <2>7, <4>2, <4>3
    <3> QED BY <2>7, <3>1, <3>2
  <2>10. ASSUME NEW m \in DOMAIN Stream, NEW n \in DOMAIN Stream, m < n, Stream[n] # Failed
         PROVE  Stream[m].seq < Stream[n].seq
    <3>1. /\ Place(Stream[m]) \in 1 .. Len(published) /\ Place(Stream[n]) \in 1 .. Len(published)
          /\ Place(Stream[m]) < Place(Stream[n])
          /\ Stream[m] = published[Place(Stream[m])]
      BY <2>8, <2>9, <2>10
    <3>2. Place(Stream[n]) = Stream[n].seq
      BY <2>10 DEF Place
    <3>3. Stream[m] # Failed
      <4>1. Place(Stream[m]) # Len(published)
        BY <2>2, <3>1
      <4>2. published[Place(Stream[m])].kind \notin {"closed", "failed"}
        <5>1. Place(Stream[m]) \in DOMAIN published
          BY <2>1, <3>1
        <5> QED BY <4>1, <5>1 DEF EInv, EndsSession
      <4> QED BY <3>1, <4>2 DEF Failed
    <3>4. Place(Stream[m]) = Stream[m].seq
      BY <3>3 DEF Place
    <3> QED BY <3>1, <3>2, <3>4
  <2>11. ASSUME published # <<>> PROVE Last(Stream) = Last(published)
    <3>1. Last(published) = published[Len(published)] /\ Len(published) # 0
      BY <2>1, <2>11 DEF Last
    <3>2. Last(Stream) = Stream[Len(Older) + Len(live)]
      BY <2>3 DEF Last
    <3>3. CASE Len(live) # 0
      <4>1. Len(live) \in 1 .. Len(live)
        BY <2>2, <3>3
      <4>2. live[Len(live)] = published[Len(published) - Len(live) + Len(live)]
        BY <2>4, <4>1
      <4>3. Stream[Len(Older) + Len(live)] = live[Len(live)]
        BY <2>3, <4>1
      <4> QED BY <2>2, <3>1, <3>2, <4>2, <4>3
    <3>4. CASE Len(live) = 0
      <4>1. Older # <<>> /\ Place(Older[Len(Older)]) = Len(published)
        BY <2>1, <2>11, <3>4 DEF SInv, SubscriberInv
      <4>2. Len(Older) \in 1 .. Len(Older)
        BY <2>1, <2>2, <4>1
      <4>3. Older[Len(Older)] = published[Len(published)]
        BY <2>5, <4>1, <4>2
      <4>4. Len(Older) + Len(live) = Len(Older)
        BY <2>2, <3>4
      <4> QED BY <2>3, <3>1, <3>2, <4>2, <4>3, <4>4
    <3> QED BY <3>3, <3>4
  <2>12. ASSUME Len(published) <= EventCapacity PROVE Stream = published
    <3>1. Len(Stream) = Len(published)
      <4>1. Len(Older) = Len(published) - Len(live)
        BY <2>12 DEF SInv, SubscriberInv
      <4> QED BY <2>2, <2>3, <4>1
    <3>2. \A n \in 1 .. Len(published) : Place(Stream[n]) = n
      <4>1. /\ \A n \in 1 .. Len(published) : Place(Stream[n]) \in 1 .. Len(published)
            /\ \A m, n \in 1 .. Len(published) :
                  m < n => Place(Stream[m]) < Place(Stream[n])
        BY <2>2, <2>3, <2>8, <2>9, <3>1
      <4> DEFINE place == [n \in 1 .. Len(published) |-> Place(Stream[n])]
      <4>2. /\ place \in [1 .. Len(published) -> 1 .. Len(published)]
            /\ \A m, n \in 1 .. Len(published) : m < n => place[m] < place[n]
        BY <4>1
      <4>3. \A n \in 1 .. Len(published) : place[n] = n
        <5> HIDE DEF place
        <5> QED BY <2>2, <4>2, IncreasingIsIdentity
      <4> QED BY <4>3
    <3>3. \A n \in 1 .. Len(published) : Stream[n] = published[n]
      BY <2>2, <2>3, <2>8, <3>1, <3>2
    <3>4. \A s \in Seq(E) : s = [n \in 1 .. Len(s) |-> s[n]]
      OBVIOUS
    <3>5. /\ Stream = [n \in 1 .. Len(published) |-> Stream[n]]
          /\ published = [n \in 1 .. Len(published) |-> published[n]]
      <4> HIDE DEF E
      <4> QED BY <2>1, <2>3, <3>1, <3>4
    <3> QED BY <3>3, <3>5
  <2> QED BY <2>10, <2>11, <2>12
<1> QED
  BY <1>1, EventsUseProcess, OutputInv, EventsInitInv, EventsStepInv, SubscriberInitInv,
     SubscriberStepInv, PTL DEF EventsSpec

\* What is proved of the process holds in the composition.
THEOREM EventsKeepNumbering == EventsSpec => [](NumberedWithoutGaps /\ ClosedIsLast)
  BY EventsUseProcess, NumberingHasNoGaps, ClosingIsLast, PTL
-----------------------------------------------------------------------------
(***************************************************************************)
(* The calls of the client.                                                *)
(***************************************************************************)
\* The reader ends and the failure is recorded in one step, and a call has a
\* future from its registration on.
FailureEndsReader ==
    /\ reader = "ended" <=> failure
    /\ \A c \in Calls : call[c] = "new" => future[c] = "none"
    /\ \A c \in Calls : Waits(c) => future[c] # "none"

\* No message is twice in a queue; disconnections may be.
Once(s) == \A i, j \in DOMAIN s : s[i] = s[j] => i = j \/ s[i] = Gone

\* Where a request is: in the outgoing queue, with the server, or its response
\* in the incoming queue.
Placed(c) == c \in Range(outgoing) \/ c \in asked \/ c \in Range(incoming)

\* A request is in one place at most, once, and nowhere before it is put.
InOnePlace ==
    /\ Once(outgoing) /\ Once(incoming)
    /\ \A c \in Calls :
          /\ c \in Range(outgoing) => c \notin asked /\ c \notin Range(incoming)
          /\ c \in asked => c \notin Range(incoming)
          /\ call[c] \in {"new", "putting"} => ~ Placed(c) /\ future[c] # "result"

\* The inductive invariants: who fails the calls, and whose the answers are.
WInv == CallsTypeOK /\ FailureEndsReader /\ WaitingIsRegistered
AInv == InOnePlace /\ AnswerIsOwn

Messages == Calls \cup {Gone}

\* What a queue holds after a message that it does not hold is put on it.
LEMMA QueueAppend ==
  ASSUME NEW s \in Seq(Messages), NEW m \in Messages, Once(s), m = Gone \/ m \notin Range(s)
  PROVE  Once(Append(s, m)) /\ Range(Append(s, m)) = Range(s) \cup {m}
<1>1. /\ DOMAIN s = 1 .. Len(s) /\ Len(s) \in Nat
      /\ DOMAIN Append(s, m) = 1 .. Len(s) + 1
      /\ \A i \in 1 .. Len(s) : Append(s, m)[i] = s[i]
      /\ Append(s, m)[Len(s) + 1] = m
  OBVIOUS
<1>2. \A i \in 1 .. Len(s) + 1 : i \in 1 .. Len(s) \/ i = Len(s) + 1
  BY <1>1
<1>3. Range(Append(s, m)) = Range(s) \cup {m}
  BY <1>1, <1>2 DEF Range
<1>4. Once(Append(s, m))
  BY <1>1, <1>2 DEF Once, Range
<1> QED BY <1>3, <1>4

\* What a queue holds after its first message is taken.
LEMMA QueueTail ==
  ASSUME NEW s \in Seq(Messages), s # <<>>, Once(s)
  PROVE  /\ Tail(s) \in Seq(Messages) /\ Head(s) \in Messages
         /\ Once(Tail(s))
         /\ Range(s) = Range(Tail(s)) \cup {Head(s)}
         /\ Head(s) # Gone => Head(s) \notin Range(Tail(s))
<1>1. /\ DOMAIN s = 1 .. Len(s) /\ Len(s) \in Nat \ {0}
      /\ Tail(s) \in Seq(Messages) /\ Head(s) = s[1] /\ s[1] \in Messages
      /\ DOMAIN Tail(s) = 1 .. Len(s) - 1
      /\ \A i \in 1 .. Len(s) - 1 : Tail(s)[i] = s[i + 1]
  OBVIOUS
<1>2. \A i \in 1 .. Len(s) : i = 1 \/ (i - 1 \in 1 .. Len(s) - 1 /\ Tail(s)[i - 1] = s[i])
  BY <1>1
<1>3. Range(s) = Range(Tail(s)) \cup {Head(s)}
  <2>1. ASSUME NEW e \in Range(s) PROVE e \in Range(Tail(s)) \cup {Head(s)}
    <3>1. PICK i \in 1 .. Len(s) : s[i] = e
      BY <2>1, <1>1 DEF Range
    <3>2. CASE i = 1
      BY <3>1, <3>2, <1>1
    <3>3. CASE i - 1 \in DOMAIN Tail(s) /\ Tail(s)[i - 1] = s[i]
      BY <3>1, <3>3 DEF Range
    <3> QED BY <1>1, <1>2, <3>2, <3>3
  <2>2. ASSUME NEW e \in Range(Tail(s)) PROVE e \in Range(s)
    BY <1>1 DEF Range
  <2>3. Head(s) \in Range(s)
    BY <1>1 DEF Range
  <2> QED BY <2>1, <2>2, <2>3
<1>4. Once(Tail(s))
  BY <1>1 DEF Once
<1>5. Head(s) # Gone => Head(s) \notin Range(Tail(s))
  BY <1>1 DEF Once, Range
<1> QED BY <1>1, <1>3, <1>4, <1>5

\* Initially no call is made.
LEMMA CallsInitInv == CallsInit => WInv /\ AInv
<1> SUFFICES ASSUME CallsInit PROVE WInv /\ AInv
  OBVIOUS
<1>1. WInv
  <2>1. /\ call \in [Calls -> {"new", "putting", "awaiting", "answered", "failed", "cancelled"}]
        /\ future \in [Calls -> {"none", "unset", "result", "error"}]
        /\ outgoing \in Seq(Calls) /\ incoming \in Seq(Messages) /\ Len(outgoing) <= Capacity
    BY CallsAssumption DEF CallsInit
  <2> QED BY <2>1 DEF CallsInit, WInv, CallsTypeOK, Messages, FailureEndsReader, WaitingIsRegistered, Waits
<1>2. Range(outgoing) = {} /\ Range(incoming) = {} /\ Once(outgoing) /\ Once(incoming)
  BY DEF CallsInit, Range, Once
<1>3. AInv
  BY <1>2 DEF CallsInit, AInv, InOnePlace, AnswerIsOwn, Placed
<1> QED BY <1>1, <1>3

\* Putting a request keeps the types of what it moves.
LEMMA PutType ==
  ASSUME CallsTypeOK, NEW c \in Calls, Put(c)
  PROVE  /\ call' \in [Calls -> {"new", "putting", "awaiting", "answered", "failed", "cancelled"}]
         /\ outgoing' \in Seq(Calls) /\ Len(outgoing') <= Capacity
         /\ \A d \in Calls : d # c => call'[d] = call[d]
         /\ \/ call'[c] = "putting" /\ outgoing' = outgoing
            \/ call'[c] = "awaiting" /\ outgoing' = Append(outgoing, c)
<1> USE DEF CallsTypeOK
<1>1. CASE Full
  BY <1>1 DEF Put
<1>2. CASE ~ Full
  <2>1. call' = [call EXCEPT ![c] = "awaiting"] /\ outgoing' = Append(outgoing, c)
    BY <1>2 DEF Put
  <2>2. outgoing \in Seq(Calls) /\ Len(outgoing) < Capacity
    BY <1>2, CallsAssumption DEF Full
  <2>3. outgoing' \in Seq(Calls) /\ Len(outgoing') <= Capacity
    BY <2>1, <2>2, CallsAssumption
  <2> QED BY <2>1, <2>3
<1> QED BY <1>1, <1>2

\* Every step preserves who fails the calls; one case per action.
LEMMA WaitStepInv == WInv /\ [CallsNext]_clientVars => WInv'
<1> SUFFICES ASSUME WInv, [CallsNext]_clientVars PROVE WInv'
  OBVIOUS
<1> USE DEF WInv
<1>1. ASSUME NEW c \in Calls, Start(c) PROVE WInv'
  BY <1>1, PutType DEF Start, loopVars, CallsTypeOK, FailureEndsReader, WaitingIsRegistered, Waits
<1>2. ASSUME NEW c \in Calls, StartRejected(c) PROVE WInv'
  BY <1>2 DEF StartRejected, loopVars, connectionVars, CallsTypeOK, FailureEndsReader,
     WaitingIsRegistered, Waits
<1>3. ASSUME NEW c \in Calls, PutResumes(c) PROVE WInv'
  BY <1>3, PutType DEF PutResumes, loopVars, CallsTypeOK, FailureEndsReader, WaitingIsRegistered, Waits
<1>4. ASSUME NEW c \in Calls, Return(c) PROVE WInv'
  BY <1>4 DEF Return, loopVars, connectionVars, CallsTypeOK, FailureEndsReader,
     WaitingIsRegistered, Waits
<1>5. ASSUME NEW c \in Calls, Cancel(c) PROVE WInv'
  BY <1>5 DEF Cancel, loopVars, connectionVars, CallsTypeOK, FailureEndsReader,
     WaitingIsRegistered, Waits
<1>6. ASSUME NEW c \in Calls, Respond(c) PROVE WInv'
  BY <1>6 DEF Respond, loopVars, callVars, CallsTypeOK, FailureEndsReader,
     WaitingIsRegistered, Waits
<1>7. CASE Write
  <2>1. Tail(outgoing) \in Seq(Calls) /\ Len(Tail(outgoing)) <= Capacity /\ Head(outgoing) \in Calls
    BY <1>7, CallsAssumption DEF Write, CallsTypeOK
  <2> QED BY <1>7, <2>1 DEF Write, loopVars, callVars, CallsTypeOK, FailureEndsReader,
        WaitingIsRegistered, Waits
<1>8. CASE WriteFails
  <2>1. Tail(outgoing) \in Seq(Calls) /\ Len(Tail(outgoing)) <= Capacity
    BY <1>8, CallsAssumption DEF WriteFails, CallsTypeOK
  <2> QED BY <1>8, <2>1 DEF WriteFails, loopVars, callVars, CallsTypeOK, FailureEndsReader,
        WaitingIsRegistered, Waits
<1>13. CASE Resume
  BY <1>13 DEF Resume, loopVars, callVars, CallsTypeOK, FailureEndsReader,
     WaitingIsRegistered, Waits
<1>14. CASE RelaySendFails
  <2>1. outgoing' \in Seq(Calls) /\ Len(outgoing') <= Capacity
    BY <1>14, CallsAssumption DEF RelaySendFails, CallsTypeOK
  <2> QED BY <1>14, <2>1 DEF RelaySendFails, loopVars, callVars, CallsTypeOK, FailureEndsReader,
        WaitingIsRegistered, Waits
<1>9. CASE ReadEnds
  BY <1>9 DEF ReadEnds, loopVars, callVars, CallsTypeOK, FailureEndsReader,
     WaitingIsRegistered, Waits
<1>15. CASE Malformed
  BY <1>15 DEF Malformed, loopVars, callVars, CallsTypeOK, FailureEndsReader,
     WaitingIsRegistered, Waits
<1>10. CASE ReadResponse
  <2>1. /\ incoming # <<>> /\ incoming' = Tail(incoming)
        /\ \A c \in Calls : future'[c] \in {future[c], "result"}
        /\ \A c \in Calls : future'[c] # future[c] => future[c] = "unset"
        /\ future' \in [Calls -> {"none", "unset", "result", "error"}]
        /\ UNCHANGED <<call, pendingCalls, outgoing, writer, asked, disconnected, loopVars>>
    BY <1>10 DEF ReadResponse, CallsTypeOK
  <2>2. CallsTypeOK'
    <3>1. incoming' \in Seq(Calls \cup {Gone})
      BY <2>1 DEF CallsTypeOK
    <3> QED BY <2>1, <3>1 DEF CallsTypeOK, loopVars
  <2>3. FailureEndsReader'
    BY <2>1 DEF FailureEndsReader, Waits, CallsTypeOK, loopVars
  <2>4. WaitingIsRegistered'
    BY <2>1 DEF WaitingIsRegistered, Waits, loopVars
  <2> QED BY <2>2, <2>3, <2>4
<1>11. CASE ReadGone
  <2>1. /\ incoming # <<>> /\ incoming' = Tail(incoming)
        /\ reader' = "ended" /\ failure' = TRUE /\ pendingCalls' = {}
        /\ \A c \in Calls : future'[c] = IF c \in pendingCalls /\ future[c] = "unset" THEN "error"
                                       ELSE future[c]
        /\ future' \in [Calls -> {"none", "unset", "result", "error"}]
        /\ UNCHANGED <<call, outgoing, writer, asked, disconnected>>
    BY <1>11 DEF ReadGone, CallsTypeOK
  <2>2. CallsTypeOK'
    <3>1. incoming' \in Seq(Calls \cup {Gone})
      BY <2>1 DEF CallsTypeOK
    <3> QED BY <2>1, <3>1 DEF CallsTypeOK
  <2>3. FailureEndsReader'
    BY <2>1 DEF FailureEndsReader, Waits, CallsTypeOK
  <2>4. WaitingIsRegistered'
    BY <2>1 DEF WaitingIsRegistered, Waits
  <2> QED BY <2>2, <2>3, <2>4
<1>12. CASE UNCHANGED clientVars
  BY <1>12 DEF clientVars, callVars, connectionVars, loopVars, CallsTypeOK, FailureEndsReader,
     WaitingIsRegistered, Waits
<1> QED
  BY <1>1, <1>2, <1>3, <1>4, <1>5, <1>6, <1>7, <1>8, <1>9, <1>10, <1>11, <1>12,
     <1>13, <1>14, <1>15
     DEF CallsNext, CallerStep

\* Every step keeps each request in one place; one case per action.
LEMMA AnswerStepInv == WInv /\ AInv /\ [CallsNext]_clientVars => AInv'
<1> SUFFICES ASSUME WInv, AInv, [CallsNext]_clientVars PROVE AInv'
  OBVIOUS
<1> USE CallsAssumption DEF WInv, AInv
<1>0. /\ outgoing \in Seq(Messages) /\ incoming \in Seq(Messages) /\ outgoing \in Seq(Calls)
      /\ asked \subseteq Calls
      /\ Once(outgoing) /\ Once(incoming)
  BY DEF CallsTypeOK, InOnePlace, Messages
<1>01. ASSUME NEW c \in Calls, call[c] \in {"new", "putting"},
              UNCHANGED <<asked, incoming>>,
              \A d \in Calls : d # c => call'[d] = call[d] /\ future'[d] = future[d],
              future'[c] # "result",
              \/ call'[c] = "putting" /\ outgoing' = outgoing
              \/ call'[c] = "awaiting" /\ outgoing' = Append(outgoing, c)
       PROVE  AInv'
  <2>1. c \notin Range(outgoing) /\ c \notin asked /\ c \notin Range(incoming) /\ c # Gone
    BY <1>01 DEF InOnePlace, Placed
  <2>2. CASE call'[c] = "putting" /\ outgoing' = outgoing
    BY <1>01, <2>1, <2>2 DEF InOnePlace, AnswerIsOwn, Placed
  <2>3. CASE call'[c] = "awaiting" /\ outgoing' = Append(outgoing, c)
    <3>1. Once(outgoing') /\ Range(outgoing') = Range(outgoing) \cup {c}
      BY <1>0, <2>1, <2>3, QueueAppend DEF Messages
    <3> QED BY <1>01, <2>1, <2>3, <3>1 DEF InOnePlace, AnswerIsOwn, Placed
  <2> QED BY <1>01, <2>2, <2>3
<1>02. ASSUME UNCHANGED <<outgoing, asked, incoming>>,
              \A c \in Calls : future'[c] = future[c],
              \A c \in Calls : call'[c] = call[c] \/ call'[c] \notin {"new", "putting"}
       PROVE  AInv'
  BY <1>02 DEF InOnePlace, AnswerIsOwn, Placed
<1>1. ASSUME NEW c \in Calls, Start(c) PROVE AInv'
  BY <1>1, <1>01, PutType DEF Start, CallsTypeOK
<1>2. ASSUME NEW c \in Calls, StartRejected(c) PROVE AInv'
  BY <1>2, <1>02 DEF StartRejected, connectionVars, CallsTypeOK
<1>3. ASSUME NEW c \in Calls, PutResumes(c) PROVE AInv'
  <2>1. future'[c] # "result"
    BY <1>3 DEF PutResumes, InOnePlace
  <2> QED BY <1>3, <2>1, <1>01, PutType DEF PutResumes
<1>4. ASSUME NEW c \in Calls, Return(c) PROVE AInv'
  BY <1>4, <1>02 DEF Return, connectionVars, CallsTypeOK
<1>5. ASSUME NEW c \in Calls, Cancel(c) PROVE AInv'
  BY <1>5, <1>02 DEF Cancel, connectionVars, CallsTypeOK
<1>6. ASSUME NEW c \in Calls, Respond(c) PROVE AInv'
  <2>1. c \notin Range(incoming) /\ c \notin Range(outgoing)
    BY <1>6 DEF Respond, InOnePlace
  <2>2. Once(incoming') /\ Range(incoming') = Range(incoming) \cup {c}
    BY <1>0, <1>6, <2>1, QueueAppend DEF Respond, Messages
  <2> QED BY <1>6, <2>1, <2>2 DEF Respond, callVars, InOnePlace, AnswerIsOwn, Placed
<1>7. CASE Write
  <2>1. /\ Once(outgoing') /\ Range(outgoing) = Range(outgoing') \cup {Head(outgoing)}
        /\ Head(outgoing) \in Calls /\ Head(outgoing) \notin Range(outgoing')
    BY <1>0, <1>7, QueueTail DEF Write
  <2> QED BY <1>7, <2>1 DEF Write, callVars, InOnePlace, AnswerIsOwn, Placed
<1>8. CASE WriteFails
  <2>1. Once(outgoing') /\ Range(outgoing) = Range(outgoing') \cup {Head(outgoing)}
    BY <1>0, <1>8, QueueTail DEF WriteFails
  <2>2. Once(incoming') /\ Range(incoming') = Range(incoming) \cup {Gone}
    BY <1>0, <1>8, QueueAppend DEF WriteFails, Messages
  <2> QED BY <1>8, <2>1, <2>2 DEF WriteFails, callVars, InOnePlace, AnswerIsOwn, Placed
<1>13. CASE Resume
  BY <1>13, <1>02 DEF Resume, callVars
<1>14. CASE RelaySendFails
  <2>1. CASE UNCHANGED outgoing
    BY <1>0, <1>14, <2>1 DEF RelaySendFails, callVars, InOnePlace, AnswerIsOwn, Placed
  <2>2. CASE outgoing # <<>> /\ outgoing' = Tail(outgoing)
    <3>1. Once(outgoing') /\ Range(outgoing) = Range(outgoing') \cup {Head(outgoing)}
      BY <1>0, <2>2, QueueTail
    <3> QED BY <1>14, <3>1 DEF RelaySendFails, callVars, InOnePlace, AnswerIsOwn, Placed
  <2> QED BY <1>14, <2>1, <2>2 DEF RelaySendFails
<1>9. CASE ReadEnds
  <2>1. Once(incoming') /\ Range(incoming') = Range(incoming) \cup {Gone}
    BY <1>0, <1>9, QueueAppend DEF ReadEnds, Messages
  <2> QED BY <1>9, <2>1 DEF ReadEnds, callVars, InOnePlace, AnswerIsOwn, Placed
<1>15. CASE Malformed
  <2>1. Once(incoming') /\ Range(incoming') = Range(incoming) \cup {Gone}
    BY <1>0, <1>15, QueueAppend DEF Malformed, Messages
  <2> QED BY <1>15, <2>1 DEF Malformed, callVars, InOnePlace, AnswerIsOwn, Placed
<1>10. CASE ReadResponse
  <2> DEFINE h == Head(incoming)
  <2>1. /\ Once(incoming') /\ Range(incoming) = Range(incoming') \cup {h}
        /\ h \in Calls /\ h \notin Range(incoming')
    BY <1>0, <1>10, QueueTail DEF ReadResponse, Messages
  <2>2. h \notin Range(outgoing) /\ h \notin asked /\ call[h] \notin {"new", "putting"}
    BY <2>1 DEF InOnePlace, Placed
  <2>3. /\ \A c \in Calls : c # h => future'[c] = future[c]
        /\ UNCHANGED <<call, outgoing, asked>>
    BY <1>10 DEF ReadResponse
  <2> HIDE DEF h
  <2> QED BY <2>1, <2>2, <2>3 DEF InOnePlace, AnswerIsOwn, Placed
<1>11. CASE ReadGone
  <2>1. Once(incoming') /\ Range(incoming) = Range(incoming') \cup {Gone}
    BY <1>0, <1>11, QueueTail DEF ReadGone
  <2>2. /\ \A c \in Calls : future'[c] = "result" => future[c] = "result"
        /\ UNCHANGED <<call, outgoing, asked>>
    BY <1>11 DEF ReadGone
  <2> QED BY <2>1, <2>2 DEF InOnePlace, AnswerIsOwn, Placed
<1>12. CASE UNCHANGED clientVars
  BY <1>12, <1>02 DEF clientVars, callVars, connectionVars
<1> QED
  BY <1>1, <1>2, <1>3, <1>4, <1>5, <1>6, <1>7, <1>8, <1>9, <1>10, <1>11, <1>12,
     <1>13, <1>14, <1>15
     DEF CallsNext, CallerStep

\* The variables keep their types, however calls, losses and answers interleave.
THEOREM CallsAreTyped == CallsSpec => []CallsTypeOK
<1>1. WInv => CallsTypeOK
  BY DEF WInv
<1> QED
  BY <1>1, CallsInitInv, WaitStepInv, PTL DEF CallsSpec

\* ExecServerClient.call checks, registers and suspends in such an order that
\* whoever waits on an undecided future is known to a reader that still runs.
THEOREM WaitersAreRegistered == CallsSpec => []WaitingIsRegistered
<1>1. WInv => WaitingIsRegistered
  BY DEF WInv
<1> QED
  BY <1>1, CallsInitInv, WaitStepInv, PTL DEF CallsSpec

\* The reader loop resolves a call only with the response to its own request.
THEOREM AnswersAreOwn == CallsSpec => []AnswerIsOwn
<1>1. AInv => AnswerIsOwn
  BY DEF AInv
<1> QED
  BY <1>1, CallsInitInv, WaitStepInv, AnswerStepInv, PTL DEF CallsSpec
=============================================================================
