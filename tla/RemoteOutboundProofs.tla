------------------------ MODULE RemoteOutboundProofs ------------------------
(***************************************************************************)
(* Proofs about RemoteOutbound for any streams, any capacity, any split of *)
(* the events and any number of lost websockets: the client gets every     *)
(* envelope once and in order, and the events keep theirs.                 *)
(*                                                                         *)
(* The buffer's filter is a recursive function.  What it returns is proved *)
(* by hand: a least length at which the claim fails is found and refuted.  *)
(***************************************************************************)
EXTENDS RemoteOutbound, FiniteSetTheorems, SequenceTheorems, WellFoundedInduction, TLAPS

\* No envelope of Y is at or before one of X.
Precedes(X, Y) == \A x \in X, y \in Y : ~ AtMost(y, x)

\* The envelopes that were sent to the client or that the writer will send.
Coming(s) == flight[s] \o unsent[s]

WriterHolds ==
    /\ writer = "down" => current = NoEvent /\ \A s \in Streams : Coming(s) = <<>>
    /\ writer = "polling" => current # NoEvent /\ AllSent

\* What comes to the client is in order, and while there is a websocket all
\* that the client does not have is among it.
OnItsWay ==
    \A s \in Streams :
        /\ InCursorOrder(Coming(s)) /\ ToSet(Coming(s)) \subseteq Made(s)
        /\ writer # "down" => Made(s) \subseteq ToSet(got[s]) \cup ToSet(Coming(s))

\* The inductive invariant for the envelopes.
EnvInv == OutboundTypeOK /\ WriterHolds /\ OnItsWay /\ KeptUntilTaken

-----------------------------------------------------------------------------
\* A nonempty set of natural numbers has a least element.
LEMMA LeastNatural ==
  ASSUME NEW T \in SUBSET Nat, T # {}
  PROVE  \E m \in T : \A n \in T : m <= n
<1>1. PICK m \in T : \A n \in T : ~ <<n, m>> \in OpToRel(<, Nat)
  BY NatLessThanWellFounded, WFMin
<1>2. \A n \in T : ~ n < m
  BY <1>1 DEF OpToRel
<1> QED BY <1>2

\* Cursors are in a total order.
LEMMA CursorFacts ==
  \A e, f, g \in Envelopes : /\ AtMost(e, e)
                             /\ AtMost(e, f) \/ AtMost(f, e)
                             /\ AtMost(e, f) /\ AtMost(f, e) => e = f
                             /\ AtMost(e, f) /\ AtMost(f, g) => AtMost(e, g)
<1>1. \A e, f \in Envelopes : e.seq = f.seq /\ e.segment = f.segment => e = f
  BY DEF Envelopes
<1>2. \A e \in Envelopes : e.seq \in Nat /\ e.segment \in Nat
  BY DEF Envelopes
<1> QED BY <1>1, <1>2 DEF AtMost

\* The envelopes of a sequence that is put together, and their order.
LEMMA SetOfConcat ==
  ASSUME NEW s \in Seq(Envelopes), NEW t \in Seq(Envelopes)
  PROVE  /\ s \o t \in Seq(Envelopes) /\ ToSet(s) \subseteq Envelopes
         /\ ToSet(s \o t) = ToSet(s) \cup ToSet(t)
<1>1. /\ s \o t \in Seq(Envelopes) /\ DOMAIN s = 1 .. Len(s) /\ DOMAIN t = 1 .. Len(t)
      /\ DOMAIN (s \o t) = 1 .. Len(s) + Len(t)
  OBVIOUS
<1>2. ASSUME NEW i \in 1 .. Len(s) PROVE (s \o t)[i] = s[i] /\ i \in 1 .. Len(s) + Len(t)
  OBVIOUS
<1>3. ASSUME NEW i \in 1 .. Len(t)
      PROVE  (s \o t)[i + Len(s)] = t[i] /\ i + Len(s) \in 1 .. Len(s) + Len(t)
  OBVIOUS
<1>4. ASSUME NEW i \in 1 .. Len(s) + Len(t), ~ i \in 1 .. Len(s)
      PROVE  (s \o t)[i] = t[i - Len(s)] /\ i - Len(s) \in 1 .. Len(t)
  BY <1>4
<1>5. ToSet(s) \cup ToSet(t) \subseteq ToSet(s \o t)
  BY <1>1, <1>2, <1>3 DEF ToSet
<1>6. ToSet(s \o t) \subseteq ToSet(s) \cup ToSet(t)
  BY <1>1, <1>2, <1>4 DEF ToSet
<1>7. ToSet(s) \subseteq Envelopes
  BY DEF ToSet
<1> QED BY <1>1, <1>5, <1>6, <1>7

LEMMA SetOfFew ==
  /\ ToSet(<<>>) = {} /\ InCursorOrder(<<>>)
  /\ \A e : ToSet(<<e>>) = {e} /\ InCursorOrder(<<e>>)
BY DEF ToSet, InCursorOrder

LEMMA OrderOfConcat ==
  ASSUME NEW s \in Seq(Envelopes), NEW t \in Seq(Envelopes)
  PROVE  InCursorOrder(s \o t)
            <=> InCursorOrder(s) /\ InCursorOrder(t) /\ Precedes(ToSet(s), ToSet(t))
<1>1. /\ DOMAIN s = 1 .. Len(s) /\ DOMAIN t = 1 .. Len(t)
      /\ DOMAIN (s \o t) = 1 .. Len(s) + Len(t) /\ Len(s) \in Nat /\ Len(t) \in Nat
  OBVIOUS
<1>2. ASSUME NEW i \in 1 .. Len(s) PROVE (s \o t)[i] = s[i] /\ i \in 1 .. Len(s) + Len(t)
  OBVIOUS
<1>3. ASSUME NEW i \in 1 .. Len(t)
      PROVE  (s \o t)[i + Len(s)] = t[i] /\ i + Len(s) \in 1 .. Len(s) + Len(t)
  OBVIOUS
<1>4. ASSUME InCursorOrder(s \o t)
      PROVE  InCursorOrder(s) /\ InCursorOrder(t) /\ Precedes(ToSet(s), ToSet(t))
  <2>1. InCursorOrder(s)
    BY <1>1, <1>2, <1>4 DEF InCursorOrder
  <2>2. InCursorOrder(t)
    <3> SUFFICES ASSUME NEW i \in 1 .. Len(t), NEW j \in 1 .. Len(t), i < j
                 PROVE  ~ AtMost(t[j], t[i])
      BY <1>1 DEF InCursorOrder
    <3>1. i + Len(s) < j + Len(s)
      BY <1>1
    <3> QED BY <1>1, <1>3, <1>4, <3>1 DEF InCursorOrder
  <2>3. Precedes(ToSet(s), ToSet(t))
    <3> SUFFICES ASSUME NEW i \in 1 .. Len(s), NEW j \in 1 .. Len(t)
                 PROVE  ~ AtMost(t[j], s[i])
      BY <1>1 DEF Precedes, ToSet
    <3>1. i < j + Len(s)
      BY <1>1
    <3> QED BY <1>1, <1>2, <1>3, <1>4, <3>1 DEF InCursorOrder
  <2> QED BY <2>1, <2>2, <2>3
<1>5. ASSUME InCursorOrder(s), InCursorOrder(t), Precedes(ToSet(s), ToSet(t))
      PROVE  InCursorOrder(s \o t)
  <2> SUFFICES ASSUME NEW i \in 1 .. Len(s) + Len(t), NEW j \in 1 .. Len(s) + Len(t), i < j
               PROVE  ~ AtMost((s \o t)[j], (s \o t)[i])
    BY <1>1 DEF InCursorOrder
  <2>1. ASSUME NEW k \in 1 .. Len(s) + Len(t), ~ k \in 1 .. Len(s)
        PROVE  (s \o t)[k] = t[k - Len(s)] /\ k - Len(s) \in 1 .. Len(t)
    BY <2>1
  <2>2. CASE i \in 1 .. Len(s) /\ j \in 1 .. Len(s)
    BY <1>1, <1>2, <1>5, <2>2 DEF InCursorOrder
  <2>3. CASE i \in 1 .. Len(s) /\ j \notin 1 .. Len(s)
    <3>1. s[i] \in ToSet(s) /\ t[j - Len(s)] \in ToSet(t)
      BY <1>1, <2>1, <2>3 DEF ToSet
    <3> QED BY <1>2, <1>5, <2>1, <2>3, <3>1 DEF Precedes
  <2>4. CASE i \notin 1 .. Len(s)
    <3>1. i - Len(s) < j - Len(s) /\ j \notin 1 .. Len(s)
      BY <1>1, <2>4
    <3> QED BY <1>1, <1>5, <2>1, <2>4, <3>1 DEF InCursorOrder
  <2> QED BY <2>2, <2>3, <2>4
<1> QED BY <1>4, <1>5

\* One envelope more, and one less.
LEMMA AppendOne ==
  ASSUME NEW s \in Seq(Envelopes), NEW e \in Envelopes
  PROVE  /\ Append(s, e) \in Seq(Envelopes) /\ ToSet(Append(s, e)) = ToSet(s) \cup {e}
         /\ InCursorOrder(Append(s, e)) <=> InCursorOrder(s) /\ Precedes(ToSet(s), {e})
<1>0. <<e>> \in Seq(Envelopes)
  OBVIOUS
<1>1. PICK t \in Seq(Envelopes) : t = <<e>>
  BY <1>0
<1>2. Append(s, e) = s \o t /\ ToSet(t) = {e} /\ InCursorOrder(t)
  BY <1>1, SetOfFew
<1>3. s \o t \in Seq(Envelopes) /\ ToSet(s \o t) = ToSet(s) \cup ToSet(t)
  BY SetOfConcat
<1>4. InCursorOrder(s \o t) <=> InCursorOrder(s) /\ InCursorOrder(t) /\ Precedes(ToSet(s), ToSet(t))
  BY OrderOfConcat
<1> QED BY <1>2, <1>3, <1>4, Zenon

LEMMA SplitHead ==
  ASSUME NEW s \in Seq(Envelopes), s # <<>>
  PROVE  /\ Head(s) \in Envelopes /\ Tail(s) \in Seq(Envelopes)
         /\ ToSet(s) = {Head(s)} \cup ToSet(Tail(s))
         /\ InCursorOrder(s) =>
               InCursorOrder(Tail(s)) /\ Precedes({Head(s)}, ToSet(Tail(s)))
         /\ s = <<Head(s)>> \o Tail(s)
<1>1. /\ Head(s) \in Envelopes /\ Tail(s) \in Seq(Envelopes)
      /\ s = <<Head(s)>> \o Tail(s) /\ <<Head(s)>> \in Seq(Envelopes)
  OBVIOUS
<1>2. PICK h \in Seq(Envelopes) : h = <<Head(s)>>
  BY <1>1
<1>3. PICK t \in Seq(Envelopes) : t = Tail(s)
  BY <1>1
<1>4. ToSet(h) = {Head(s)} /\ s = h \o t
  BY <1>1, <1>2, <1>3, SetOfFew
<1>5. ToSet(h \o t) = ToSet(h) \cup ToSet(t)
  BY SetOfConcat
<1>6. InCursorOrder(h \o t) => InCursorOrder(t) /\ Precedes(ToSet(h), ToSet(t))
  BY OrderOfConcat
<1> QED BY <1>1, <1>3, <1>4, <1>5, <1>6, Zenon

\* The segments of one event share its number and are in order.
LEMMA SegmentFacts ==
  ASSUME NEW seq \in Nat, NEW parts \in Nat
  PROVE  /\ Segments(seq, parts) \in Seq(Envelopes) /\ InCursorOrder(Segments(seq, parts))
         /\ \A e \in ToSet(Segments(seq, parts)) : e.seq = seq /\ e \in Envelopes
<1> DEFINE new == [n \in 1 .. parts |-> [seq |-> seq, segment |-> n - 1]]
<1>1. \A n \in 1 .. parts : /\ [seq |-> seq, segment |-> n - 1] \in Envelopes
                            /\ n - 1 \in Nat
  BY DEF Envelopes
<1>2. new \in Seq(Envelopes) /\ DOMAIN new = 1 .. parts
  BY <1>1
<1>3. \A n \in 1 .. parts : new[n].seq = seq /\ new[n].segment = n - 1
  OBVIOUS
<1>4. Segments(seq, parts) = new
  BY DEF Segments
<1> HIDE DEF new
<1>5. InCursorOrder(new)
  <2> SUFFICES ASSUME NEW m \in 1 .. parts, NEW n \in 1 .. parts, m < n
               PROVE  ~ AtMost(new[n], new[m])
    BY <1>2 DEF InCursorOrder
  <2> QED BY <1>3 DEF AtMost
<1>6. \A e \in ToSet(new) : e.seq = seq /\ e \in Envelopes
  BY <1>2, <1>3 DEF ToSet
<1> QED BY <1>2, <1>4, <1>5, <1>6

\* The function that collects, for every front part of the envelopes, what is
\* left of it.
Keeps(f, envelopes, e, n) ==
    f = [k \in 0 .. n |-> IF k = 0 THEN <<>>
                          ELSE IF AtMost(envelopes[k], e) THEN f[k - 1]
                               ELSE Append(f[k - 1], envelopes[k])]

LEMMA RetainedIsKept ==
  ASSUME NEW b, NEW e
  PROVE  Retained(b, e) = (CHOOSE f : Keeps(f, b, e, Len(b)))[Len(b)]
BY DEF Retained, Keeps

LEMMA KeepsExists ==
  ASSUME NEW b, NEW e, NEW n \in Nat
  PROVE  \E f : Keeps(f, b, e, n)
<1> DEFINE Bad == {k \in Nat : ~ \E f : Keeps(f, b, e, k)}
<1>1. SUFFICES ASSUME Bad # {} PROVE FALSE
  OBVIOUS
<1>2. PICK k \in Bad : \A j \in Bad : k <= j
  BY <1>1, LeastNatural
<1>3. k # 0
  <2> DEFINE f == [j \in 0 .. 0 |-> <<>>]
  <2>1. Keeps(f, b, e, 0)
    BY DEF Keeps
  <2> HIDE DEF f
  <2> QED BY <1>2, <2>1
<1>4. k \in Nat /\ k - 1 \in Nat /\ k - 1 \notin Bad
  BY <1>2, <1>3
<1>5. PICK f : Keeps(f, b, e, k - 1)
  BY <1>4
<1> DEFINE last == IF AtMost(b[k], e) THEN f[k - 1] ELSE Append(f[k - 1], b[k])
           g == [j \in 0 .. k |-> IF j = k THEN last ELSE f[j]]
<1>6. \A j \in 0 .. k : g[j] = IF j = 0 THEN <<>>
                               ELSE IF AtMost(b[j], e) THEN g[j - 1]
                                    ELSE Append(g[j - 1], b[j])
  <2> HIDE DEF last
  <2> SUFFICES ASSUME NEW j \in 0 .. k
               PROVE  g[j] = IF j = 0 THEN <<>>
                             ELSE IF AtMost(b[j], e) THEN g[j - 1]
                                  ELSE Append(g[j - 1], b[j])
    OBVIOUS
  <2>1. CASE j = k
    <3>1. g[j] = last /\ g[j - 1] = f[k - 1]
      BY <1>3, <1>4, <2>1
    <3> QED BY <1>3, <2>1, <3>1 DEF last
  <2>2. CASE j # k
    <3>1. j \in 0 .. k - 1 /\ g[j] = f[j]
      BY <1>4, <2>2
    <3>2. j # 0 => g[j - 1] = f[j - 1]
      BY <1>4, <2>2
    <3>3. f[j] = IF j = 0 THEN <<>>
                 ELSE IF AtMost(b[j], e) THEN f[j - 1]
                      ELSE Append(f[j - 1], b[j])
      BY <1>5, <3>1 DEF Keeps
    <3> HIDE DEF g
    <3> QED BY <3>1, <3>2, <3>3
  <2> QED BY <2>1, <2>2
<1>7. DOMAIN g = 0 .. k /\ g = [j \in 0 .. k |-> g[j]]
  OBVIOUS
<1> HIDE DEF g
<1>8. g = [j \in 0 .. k |-> IF j = 0 THEN <<>>
                            ELSE IF AtMost(b[j], e) THEN g[j - 1]
                                 ELSE Append(g[j - 1], b[j])]
  BY <1>6, <1>7
<1>9. Keeps(g, b, e, k)
  BY <1>8, Zenon DEF Keeps
<1> QED BY <1>2, <1>9

\* The buffer's filter keeps just the envelopes behind the acknowledged one,
\* in their order.
LEMMA RetainedFacts ==
  ASSUME NEW b \in Seq(Envelopes), NEW e \in Envelopes
  PROVE  /\ Retained(b, e) \in Seq(Envelopes)
         /\ ToSet(Retained(b, e)) = {x \in ToSet(b) : ~ AtMost(x, e)}
         /\ InCursorOrder(b) => InCursorOrder(Retained(b, e))
<1>1. Len(b) \in Nat /\ DOMAIN b = 1 .. Len(b) /\ \A k \in 1 .. Len(b) : b[k] \in Envelopes
  OBVIOUS
<1>2. PICK f : f = (CHOOSE g : Keeps(g, b, e, Len(b)))
  OBVIOUS
<1>3. Keeps(f, b, e, Len(b)) /\ Retained(b, e) = f[Len(b)]
  BY <1>1, <1>2, KeepsExists, RetainedIsKept
<1>4. \A k \in 0 .. Len(b) :
         f[k] = IF k = 0 THEN <<>> ELSE IF AtMost(b[k], e) THEN f[k - 1]
                                        ELSE Append(f[k - 1], b[k])
  BY <1>1, <1>3 DEF Keeps
<1> DEFINE Left(k)  == {x \in Envelopes : ~ AtMost(x, e) /\ \E i \in 1 .. k : x = b[i]}
           Right(k) == /\ f[k] \in Seq(Envelopes) /\ ToSet(f[k]) = Left(k)
                       /\ InCursorOrder(b) => InCursorOrder(f[k])
           Bad      == {k \in 0 .. Len(b) : ~ Right(k)}
<1>5. ASSUME NEW k \in 1 .. Len(b), Right(k - 1) PROVE Right(k)
  <2>1. k \in 0 .. Len(b) /\ k # 0 /\ b[k] \in Envelopes /\ k - 1 \in 0 .. Len(b)
    BY <1>1
  <2>2. \A i : i \in 1 .. k <=> (i \in 1 .. k - 1 \/ i = k)
    BY <2>1
  <2>3. CASE AtMost(b[k], e)
    <3>1. f[k] = f[k - 1]
      BY <1>4, <2>1, <2>3
    <3>2. Left(k) = Left(k - 1)
      BY <2>1, <2>2, <2>3
    <3> HIDE DEF Left
    <3> QED BY <1>5, <3>1, <3>2
  <2>4. CASE ~ AtMost(b[k], e)
    <3>1. f[k] = Append(f[k - 1], b[k])
      BY <1>4, <2>1, <2>4
    <3>2. Left(k) = Left(k - 1) \cup {b[k]}
      BY <2>1, <2>2, <2>4
    <3>3. ASSUME InCursorOrder(b) PROVE Precedes(Left(k - 1), {b[k]})
      <4> SUFFICES ASSUME NEW i \in 1 .. k - 1 PROVE ~ AtMost(b[k], b[i])
        BY DEF Precedes
      <4>1. i \in DOMAIN b /\ k \in DOMAIN b /\ i < k
        BY <1>1, <2>1
      <4> QED BY <3>3, <4>1 DEF InCursorOrder
    <3> HIDE DEF Left
    <3>4. PICK s \in Seq(Envelopes) : s = f[k - 1]
      BY <1>5
    <3>5. PICK x \in Envelopes : x = b[k]
      BY <2>1
    <3>6. /\ Append(s, x) \in Seq(Envelopes) /\ ToSet(Append(s, x)) = ToSet(s) \cup {x}
          /\ InCursorOrder(Append(s, x)) <=> InCursorOrder(s) /\ Precedes(ToSet(s), {x})
      BY AppendOne
    <3> QED BY <1>5, <3>1, <3>2, <3>3, <3>4, <3>5, <3>6, Zenon
  <2> QED BY <2>3, <2>4
<1>6. Right(0)
  <2>1. f[0] = <<>> /\ Left(0) = {}
    BY <1>1, <1>4
  <2> QED BY <2>1, SetOfFew
<1>7. Bad = {}
  <2> SUFFICES ASSUME Bad # {} PROVE FALSE
    OBVIOUS
  <2>1. PICK k \in Bad : \A j \in Bad : k <= j
    <3>1. Bad \in SUBSET Nat
      BY <1>1
    <3> HIDE DEF Bad
    <3> QED BY <3>1, LeastNatural
  <2> HIDE DEF Right
  <2>2. k \in 1 .. Len(b) /\ k - 1 \in 0 .. Len(b) /\ ~ Right(k) /\ k - 1 \notin Bad
    BY <1>1, <1>6, <2>1
  <2> QED BY <1>5, <2>2
<1>8. Right(Len(b))
  <2> HIDE DEF Right
  <2> QED BY <1>1, <1>7
<1>9. Left(Len(b)) = {x \in ToSet(b) : ~ AtMost(x, e)}
  BY <1>1 DEF ToSet
<1> QED BY <1>3, <1>8, <1>9
-----------------------------------------------------------------------------
\* What was made of a list of events, and the properties of one stream as
\* relations of what its client has (g), what is kept (b), what comes (c) and
\* what was made (m).
MadeOf(list)     == UNION {ToSet(Segments(n, list[n].parts)) : n \in DOMAIN list}
Lists            == Seq([event : 1 .. MaxEvents, parts : Parts])
KeptOf(g, b, m)  == /\ ToSet(g) \cup ToSet(b) = m
                    /\ InCursorOrder(g) /\ InCursorOrder(b)
                    /\ \A e \in ToSet(g), f \in m : AtMost(f, e) => f \in ToSet(g)
                    /\ \A e \in ToSet(b), f \in m : AtMost(e, f) => f \in ToSet(b)
ComesOf(c, m)    == InCursorOrder(c) /\ ToSet(c) \subseteq m

LEMMA ByStream ==
  /\ KeptUntilTaken <=> \A s \in Streams : KeptOf(got[s], buffer[s], MadeOf(numbered[s]))
  /\ OnItsWay <=> \A s \in Streams :
        /\ ComesOf(Coming(s), MadeOf(numbered[s]))
        /\ writer # "down" => MadeOf(numbered[s]) \subseteq ToSet(got[s]) \cup ToSet(Coming(s))
<1>1. \A s : Made(s) = MadeOf(numbered[s])
  BY DEF Made, MadeOf
<1> QED BY <1>1, Zenon DEF KeptUntilTaken, OnItsWay, KeptOf, ComesOf

\* All that was made carries the number of an event that was numbered.
LEMMA MadeFacts ==
  ASSUME NEW list \in Lists
  PROVE  \A e \in MadeOf(list) : e \in Envelopes /\ e.seq <= Len(list)
<1>1. \A n \in DOMAIN list : n \in Nat /\ n <= Len(list) /\ list[n].parts \in Nat
  <2>0. PICK S : S = [event : 1 .. MaxEvents, parts : Parts]
    OBVIOUS
  <2>1. \A n \in DOMAIN list : n \in Nat /\ n <= Len(list) /\ list[n].parts \in Parts
    <3>1. list \in Seq(S) /\ \A x \in S : x.parts \in Parts
      BY <2>0 DEF Lists
    <3>2. \A n \in DOMAIN list : n \in Nat /\ n <= Len(list) /\ list[n] \in S
      BY <3>1
    <3> QED BY <3>1, <3>2
  <2>2. Parts \subseteq Nat
    BY OutboundAssumption
  <2> QED BY <2>1, <2>2
<1>2. ASSUME NEW n \in DOMAIN list, NEW e \in ToSet(Segments(n, list[n].parts))
      PROVE  e \in Envelopes /\ e.seq <= Len(list)
  BY <1>1, <1>2, SegmentFacts
<1> QED BY <1>2 DEF MadeOf

LEMMA MadeGrows ==
  ASSUME NEW list \in Lists, NEW k \in 1 .. MaxEvents, NEW parts \in Parts
  PROVE  LET more == Append(list, [event |-> k, parts |-> parts])
         IN  /\ more \in Lists
             /\ MadeOf(more) = MadeOf(list) \cup ToSet(Segments(Len(list) + 1, parts))
<1> DEFINE more == Append(list, [event |-> k, parts |-> parts])
<1>1. /\ more \in Lists /\ DOMAIN more = (DOMAIN list) \cup {Len(list) + 1}
      /\ \A n \in DOMAIN list : more[n] = list[n]
      /\ more[Len(list) + 1] = [event |-> k, parts |-> parts]
  BY DEF Lists
<1>2. \A n \in DOMAIN list : more[n].parts = list[n].parts
  BY <1>1
<1>3. more[Len(list) + 1].parts = parts
  BY <1>1
<1> HIDE DEF more
<1>4. MadeOf(more) = MadeOf(list) \cup ToSet(Segments(Len(list) + 1, parts))
  BY <1>1, <1>2, <1>3 DEF MadeOf
<1> QED BY <1>1, <1>4 DEF more

\* The client passes over just those envelopes that it has.
LEMMA SeenIsTaken ==
  ASSUME NEW g \in Seq(Envelopes), NEW m \in SUBSET Envelopes, NEW e \in m, InCursorOrder(g),
         \A x \in ToSet(g), f \in m : AtMost(f, x) => f \in ToSet(g)
  PROVE  (g # <<>> /\ AtMost(e, Last(g))) <=> e \in ToSet(g)
<1>1. DOMAIN g = 1 .. Len(g) /\ Len(g) \in Nat
  OBVIOUS
<1>2. ASSUME g # <<>>, AtMost(e, Last(g)) PROVE e \in ToSet(g)
  <2>1. Last(g) \in ToSet(g)
    BY <1>1, <1>2 DEF Last, ToSet
  <2> QED BY <1>2, <2>1
<1>3. ASSUME e \in ToSet(g) PROVE g # <<>> /\ AtMost(e, Last(g))
  <2>0. PICK n \in Nat : n = Len(g)
    OBVIOUS
  <2>1. PICK i \in 1 .. n : g[i] = e
    BY <1>1, <1>3, <2>0 DEF ToSet
  <2>2. g # <<>> /\ Last(g) = g[Len(g)] /\ g[Len(g)] \in Envelopes
    BY <1>1, <2>0, <2>1 DEF Last
  <2>3. CASE i = Len(g)
    BY <2>1, <2>2, <2>3, CursorFacts
  <2>4. CASE i # Len(g)
    <3>0. i \in DOMAIN g /\ Len(g) \in DOMAIN g /\ i < Len(g)
      <4>1. i < n /\ n \in 1 .. n
        BY <2>0, <2>4
      <4> QED BY <1>1, <2>0, <4>1
    <3>1. ~ AtMost(g[Len(g)], g[i])
      BY <3>0 DEF InCursorOrder
    <3> QED BY <2>1, <2>2, <3>1, CursorFacts
  <2> QED BY <2>3, <2>4
<1> QED BY <1>2, <1>3

\* An envelope that is acknowledged was taken, and so were those before it.
LEMMA AckForgetsTaken ==
  ASSUME NEW g \in Seq(Envelopes), NEW b \in Seq(Envelopes), NEW m \in SUBSET Envelopes,
         KeptOf(g, b, m), NEW e \in ToSet(g)
  PROVE  KeptOf(g, Retained(b, e), m) /\ Retained(b, e) \in Seq(Envelopes)
<1>1. e \in Envelopes
  BY SetOfConcat
<1>2. /\ Retained(b, e) \in Seq(Envelopes)
      /\ ToSet(Retained(b, e)) = {x \in ToSet(b) : ~ AtMost(x, e)}
      /\ InCursorOrder(b) => InCursorOrder(Retained(b, e))
  BY <1>1, RetainedFacts
<1>3. ToSet(g) \cup ToSet(Retained(b, e)) = m
  BY <1>2 DEF KeptOf
<1>4. ASSUME NEW x \in ToSet(Retained(b, e)), NEW f \in m, AtMost(x, f)
      PROVE  f \in ToSet(Retained(b, e))
  <2>1. f \in ToSet(b) /\ x \in Envelopes /\ f \in Envelopes /\ ~ AtMost(x, e)
    BY <1>2, <1>4 DEF KeptOf
  <2>2. ~ AtMost(f, e)
    BY <1>1, <1>4, <2>1, CursorFacts
  <2> QED BY <1>2, <2>1, <2>2
<1> QED BY <1>2, <1>3, <1>4 DEF KeptOf

\* The first envelope that comes is one the client has, or the next one.
LEMMA ReadTakesNext ==
  ASSUME NEW g \in Seq(Envelopes), NEW b \in Seq(Envelopes), NEW c \in Seq(Envelopes),
         NEW m \in SUBSET Envelopes, KeptOf(g, b, m), ComesOf(c, m), c # <<>>,
         m \subseteq ToSet(g) \cup ToSet(c)
  PROVE  LET e    == Head(c)
             seen == g # <<>> /\ AtMost(e, Last(g))
             more == IF seen THEN g ELSE Append(g, e)
         IN  /\ more \in Seq(Envelopes) /\ KeptOf(more, b, m)
             /\ ComesOf(Tail(c), m) /\ m \subseteq ToSet(more) \cup ToSet(Tail(c))
<1>1. PICK e \in Envelopes : e = Head(c)
  BY SplitHead
<1>2. /\ ToSet(c) = {e} \cup ToSet(Tail(c)) /\ InCursorOrder(Tail(c))
      /\ Precedes({e}, ToSet(Tail(c))) /\ e \in m
  BY <1>1, SplitHead DEF ComesOf
<1>3. ComesOf(Tail(c), m)
  BY <1>2 DEF ComesOf
<1>4. (g # <<>> /\ AtMost(e, Last(g))) <=> e \in ToSet(g)
  BY <1>2, SeenIsTaken DEF KeptOf
<1>5. CASE e \in ToSet(g)
  <2>1. m \subseteq ToSet(g) \cup ToSet(Tail(c))
    BY <1>2, <1>5
  <2> QED BY <1>1, <1>3, <1>4, <1>5, <2>1
<1>6. CASE e \notin ToSet(g)
  <2>1. \A y \in ToSet(g) : ~ AtMost(e, y)
    BY <1>2, <1>6 DEF KeptOf
  <2>2. PICK more : more = Append(g, e)
    OBVIOUS
  <2>3. more \in Seq(Envelopes) /\ ToSet(more) = ToSet(g) \cup {e} /\ InCursorOrder(more)
    BY <2>1, <2>2, AppendOne DEF KeptOf, Precedes
  <2>4. ASSUME NEW f \in m, AtMost(f, e) PROVE f \in ToSet(more)
    BY <1>2, <2>3, <2>4 DEF Precedes
  <2>5. KeptOf(more, b, m) /\ m \subseteq ToSet(more) \cup ToSet(Tail(c))
    BY <1>2, <2>3, <2>4 DEF KeptOf
  <2> QED BY <1>1, <1>3, <1>4, <1>6, <2>2, <2>3, <2>5
<1> QED BY <1>5, <1>6

\* Envelopes that are made anew come after all others.
LEMMA NewComesLast ==
  ASSUME NEW g \in Seq(Envelopes), NEW b \in Seq(Envelopes), NEW c \in Seq(Envelopes),
         NEW m \in SUBSET Envelopes, KeptOf(g, b, m), ComesOf(c, m),
         NEW new \in Seq(Envelopes), InCursorOrder(new),
         \A x \in m, y \in ToSet(new) : x.seq < y.seq,
         m \subseteq ToSet(g) \cup ToSet(c)
  PROVE  /\ b \o new \in Seq(Envelopes) /\ KeptOf(g, b \o new, m \cup ToSet(new))
         /\ c \o new \in Seq(Envelopes) /\ ComesOf(c \o new, m \cup ToSet(new))
         /\ m \cup ToSet(new) \subseteq ToSet(g) \cup ToSet(c \o new)
<1>1. \A x \in m, y \in ToSet(new) : AtMost(x, y) /\ ~ AtMost(y, x)
  <2> SUFFICES ASSUME NEW x \in m, NEW y \in ToSet(new) PROVE AtMost(x, y) /\ ~ AtMost(y, x)
    OBVIOUS
  <2>1. x \in Envelopes /\ y \in Envelopes /\ x.seq < y.seq
    BY SetOfConcat
  <2>2. x.seq \in Nat /\ y.seq \in Nat
    BY <2>1 DEF Envelopes
  <2> QED BY <2>1, <2>2 DEF AtMost
<1>2. /\ b \o new \in Seq(Envelopes) /\ ToSet(b \o new) = ToSet(b) \cup ToSet(new)
      /\ c \o new \in Seq(Envelopes) /\ ToSet(c \o new) = ToSet(c) \cup ToSet(new)
  BY SetOfConcat
<1>3. ToSet(b) \subseteq m /\ ToSet(c) \subseteq m /\ ToSet(g) \subseteq m
  BY DEF KeptOf, ComesOf
<1>4. InCursorOrder(b \o new) /\ InCursorOrder(c \o new)
  BY <1>1, <1>3, OrderOfConcat DEF KeptOf, ComesOf, Precedes
<1>5. KeptOf(g, b \o new, m \cup ToSet(new))
  <2>1. ToSet(g) \cup ToSet(b \o new) = m \cup ToSet(new)
    BY <1>2 DEF KeptOf
  <2>2. ASSUME NEW e \in ToSet(g), NEW f \in m \cup ToSet(new), AtMost(f, e)
        PROVE  f \in ToSet(g)
    BY <1>1, <1>3, <2>2 DEF KeptOf
  <2>3. ASSUME NEW e \in ToSet(b \o new), NEW f \in m \cup ToSet(new), AtMost(e, f)
        PROVE  f \in ToSet(b \o new)
    BY <1>1, <1>2, <1>3, <2>3 DEF KeptOf
  <2> QED BY <1>4, <2>1, <2>2, <2>3 DEF KeptOf
<1>6. ComesOf(c \o new, m \cup ToSet(new)) /\ m \cup ToSet(new) \subseteq ToSet(g) \cup ToSet(c \o new)
  BY <1>2, <1>3, <1>4 DEF ComesOf
<1> QED BY <1>2, <1>5, <1>6

\* The parts of the type invariant that a step of the envelopes uses.
LEMMA StreamTypes ==
  ASSUME OutboundTypeOK
  PROVE  /\ \A s \in Streams : /\ unsent[s] \in Seq(Envelopes) /\ buffer[s] \in Seq(Envelopes)
                               /\ flight[s] \in Seq(Envelopes) /\ got[s] \in Seq(Envelopes)
                               /\ numbered[s] \in Lists
                               /\ Coming(s) \in Seq(Envelopes)
                               /\ MadeOf(numbered[s]) \in SUBSET Envelopes
         /\ unsent \in [Streams -> Seq(Envelopes)] /\ buffer \in [Streams -> Seq(Envelopes)]
         /\ flight \in [Streams -> Seq(Envelopes)] /\ got \in [Streams -> Seq(Envelopes)]
         /\ numbered \in [Streams -> Lists]
<1>1. /\ unsent \in [Streams -> Seq(Envelopes)] /\ buffer \in [Streams -> Seq(Envelopes)]
      /\ flight \in [Streams -> Seq(Envelopes)] /\ got \in [Streams -> Seq(Envelopes)]
      /\ numbered \in [Streams -> Lists]
  BY DEF OutboundTypeOK, Lists
<1>2. ASSUME NEW s \in Streams PROVE MadeOf(numbered[s]) \in SUBSET Envelopes
  BY <1>1, MadeFacts
<1>3. ASSUME NEW s \in Streams PROVE Coming(s) \in Seq(Envelopes)
  BY <1>1, SetOfConcat DEF Coming
<1> QED BY <1>1, <1>2, <1>3

LEMMA EnvInit == Init => EnvInv
<1> SUFFICES ASSUME Init PROVE EnvInv
  OBVIOUS
<1>1. OutboundTypeOK
  <2>1. /\ emitted \in [Streams -> 0 .. MaxEvents] /\ drops \in 0 .. MaxDrops
        /\ queue \in Seq(Events) /\ Len(queue) <= Capacity
    BY OutboundAssumption DEF Init
  <2>2. /\ unsent \in [Streams -> Seq(Envelopes)] /\ buffer \in [Streams -> Seq(Envelopes)]
        /\ flight \in [Streams -> Seq(Envelopes)] /\ got \in [Streams -> Seq(Envelopes)]
        /\ numbered \in [Streams -> Lists]
    BY DEF Init, Lists
  <2>3. /\ writer = "down" /\ current = NoEvent
        /\ written = {} /\ torn = {} /\ lost = {}
    BY DEF Init
  <2> QED BY <2>1, <2>2, <2>3 DEF OutboundTypeOK, Lists
<1>2. \A s \in Streams : /\ Coming(s) = <<>> /\ MadeOf(numbered[s]) = {}
                         /\ got[s] = <<>> /\ buffer[s] = <<>>
  BY DEF Init, Coming, MadeOf
<1>3. WriterHolds
  BY <1>2 DEF WriterHolds, Init
<1>4. \A s \in Streams : /\ KeptOf(got[s], buffer[s], MadeOf(numbered[s]))
                         /\ ComesOf(Coming(s), MadeOf(numbered[s]))
  BY <1>2, SetOfFew DEF KeptOf, ComesOf
<1>5. writer = "down"
  BY DEF Init
<1> QED BY <1>1, <1>3, <1>4, <1>5, ByStream DEF EnvInv

\* What a step establishes for every stream, it establishes for the properties.
LEMMA FromStreams ==
  ASSUME OutboundTypeOK', WriterHolds',
         \A s \in Streams : /\ KeptOf(got'[s], buffer'[s], MadeOf(numbered'[s]))
                            /\ ComesOf(Coming(s)', MadeOf(numbered'[s]))
                            /\ writer' # "down" =>
                                  MadeOf(numbered'[s]) \subseteq ToSet(got'[s]) \cup ToSet(Coming(s)')
  PROVE  EnvInv'
<1>1. \A s : Made(s)' = MadeOf(numbered'[s])
  BY DEF Made, MadeOf
<1>2. KeptUntilTaken'
  BY <1>1, Zenon DEF KeptUntilTaken, KeptOf
<1>3. OnItsWay'
  BY <1>1, Zenon DEF OnItsWay, ComesOf
<1> QED BY <1>2, <1>3 DEF EnvInv

\* Events enter the queue, and leave it for the writer's hands or for good.
LEMMA EventStepsKeep ==
  ASSUME EnvInv, NEW s \in Streams, Emit(s) \/ Take \/ Complete PROVE EnvInv'
<1>0. /\ UNCHANGED <<unsent, numbered, buffer, flight, got, torn, lost, drops>>
      /\ (writer' = "down") <=> (writer = "down")
  BY DEF Emit, Take, Complete, writerVars, clientVars, fateVars
<1>1. /\ queue \in Seq(Events) /\ Len(queue) <= Capacity /\ Capacity \in Nat
      /\ emitted \in [Streams -> 0 .. MaxEvents] /\ MaxEvents \in Nat
      /\ current \in Events \cup {NoEvent} /\ written \subseteq Events
      /\ writer \in {"down", "polling", "sending"} /\ NoEvent \notin Events
  BY OutboundAssumption DEF EnvInv, OutboundTypeOK, Events
<1>2. /\ emitted' \in [Streams -> 0 .. MaxEvents]
      /\ queue' \in Seq(Events) /\ Len(queue') <= Capacity
      /\ writer' \in {"down", "polling", "sending"} /\ current' \in Events \cup {NoEvent}
      /\ written' \subseteq Events
      /\ writer' = "down" => current' = NoEvent
      /\ writer' = "polling" => current' # NoEvent /\ AllSent
  <2>1. CASE Emit(s)
    <3>1. emitted[s] + 1 \in 1 .. MaxEvents /\ Len(queue) < Capacity
      BY <1>1, <2>1 DEF Emit
    <3>2. <<s, emitted[s] + 1>> \in Events
      BY <3>1 DEF Events
    <3>3. queue' \in Seq(Events) /\ Len(queue') <= Capacity
      BY <1>1, <2>1, <3>1, <3>2 DEF Emit
    <3>4. emitted' \in [Streams -> 0 .. MaxEvents]
      BY <1>1, <2>1, <3>1 DEF Emit
    <3>5. UNCHANGED <<writer, current, written>>
      BY <2>1 DEF Emit, writerVars, fateVars
    <3> QED BY <1>1, <3>3, <3>4, <3>5 DEF EnvInv, WriterHolds
  <2>2. CASE Take
    <3>1. /\ queue # <<>> /\ current' = Head(queue) /\ queue' = Tail(queue)
          /\ writer' = "polling" /\ AllSent /\ UNCHANGED <<emitted, written>>
      BY <2>2 DEF Take, fateVars
    <3>2. Head(queue) \in Events /\ Tail(queue) \in Seq(Events) /\ Len(Tail(queue)) = Len(queue) - 1
      BY <1>1, <3>1, HeadTailProperties
    <3>3. Len(queue') <= Capacity
      BY <1>1, <3>1, <3>2
    <3> QED BY <1>1, <3>1, <3>2, <3>3
  <2>3. CASE Complete
    <3>1. /\ current' = NoEvent /\ written' = written \cup {current} /\ current # NoEvent
          /\ writer = "sending" /\ UNCHANGED <<emitted, queue, writer>>
      BY <2>3 DEF Complete
    <3> QED BY <1>1, <3>1
  <2> QED BY <2>1, <2>2, <2>3
<1>3. OutboundTypeOK'
  BY <1>0, <1>2 DEF EnvInv, OutboundTypeOK
<1>4. \A t : Coming(t)' = Coming(t)
  BY <1>0 DEF Coming
<1>5. WriterHolds'
  BY <1>0, <1>2, <1>4 DEF EnvInv, WriterHolds, AllSent
<1>6. \A t \in Streams :
         /\ KeptOf(got[t], buffer[t], MadeOf(numbered[t]))
         /\ ComesOf(Coming(t), MadeOf(numbered[t]))
         /\ writer # "down" => MadeOf(numbered[t]) \subseteq ToSet(got[t]) \cup ToSet(Coming(t))
  BY ByStream DEF EnvInv
<1> QED BY <1>0, <1>3, <1>4, <1>5, <1>6, FromStreams

\* A new websocket starts with all that is kept; a lost one takes with it what
\* was on its way.
LEMMA WebsocketStepsKeep == ASSUME EnvInv, Connect \/ Drop PROVE EnvInv'
<1>0. UNCHANGED <<emitted, queue, numbered, buffer, got, written>>
  BY DEF Connect, Drop, clientVars, fateVars
<1>1. /\ \A s \in Streams : /\ unsent[s] \in Seq(Envelopes) /\ buffer[s] \in Seq(Envelopes)
                            /\ flight[s] \in Seq(Envelopes)
      /\ buffer \in [Streams -> Seq(Envelopes)] /\ flight \in [Streams -> Seq(Envelopes)]
  BY StreamTypes DEF EnvInv
<1>2. \A s \in Streams :
         /\ KeptOf(got[s], buffer[s], MadeOf(numbered[s]))
         /\ ComesOf(Coming(s), MadeOf(numbered[s]))
  BY ByStream DEF EnvInv
<1>3. CASE Connect
  <2>1. /\ writer = "down" /\ writer' = "sending" /\ unsent' = buffer
        /\ UNCHANGED <<current, flight, torn, lost, drops>>
    BY <1>3 DEF Connect, clientVars, fateVars
  <2>2. OutboundTypeOK'
    BY <1>0, <1>1, <2>1 DEF EnvInv, OutboundTypeOK
  <2>3. WriterHolds'
    BY <2>1 DEF WriterHolds
  <2>4. ASSUME NEW s \in Streams PROVE Coming(s)' = buffer[s]
    <3>1. flight[s] \o unsent[s] = <<>>
      BY <2>1 DEF EnvInv, WriterHolds, Coming
    <3>2. flight[s] = <<>>
      BY <1>1, <3>1
    <3>3. <<>> \o buffer[s] = buffer[s]
      BY <1>1
    <3> QED BY <2>1, <3>2, <3>3 DEF Coming
  <2>5. \A s \in Streams : ComesOf(buffer[s], MadeOf(numbered[s]))
    BY <1>2 DEF KeptOf, ComesOf
  <2>6. \A s \in Streams : MadeOf(numbered[s]) \subseteq ToSet(got[s]) \cup ToSet(buffer[s])
    BY <1>2 DEF KeptOf
  <2> QED BY <1>0, <1>2, <2>2, <2>3, <2>4, <2>5, <2>6, FromStreams
<1>4. CASE Drop
  <2>1. /\ writer # "down" /\ drops < MaxDrops /\ drops' = drops + 1
        /\ lost' = IF writer = "polling" THEN lost \cup {current} ELSE lost
        /\ torn' = IF writer = "sending" /\ current # NoEvent THEN torn \cup {current} ELSE torn
        /\ writer' = "down" /\ current' = NoEvent
        /\ unsent' = [s \in Streams |-> <<>>] /\ flight' = [s \in Streams |-> <<>>]
    BY <1>4 DEF Drop
  <2>2. OutboundTypeOK'
    <3>1. /\ unsent' \in [Streams -> Seq(Envelopes)] /\ flight' \in [Streams -> Seq(Envelopes)]
      BY <2>1
    <3>2. drops' \in 0 .. MaxDrops
      BY <2>1, OutboundAssumption DEF EnvInv, OutboundTypeOK
    <3>3. lost' \subseteq Events /\ torn' \subseteq Events
      BY <2>1 DEF EnvInv, OutboundTypeOK, WriterHolds
    <3>4. writer' \in {"down", "polling", "sending"} /\ current' \in Events \cup {NoEvent}
      BY <2>1
    <3> QED BY <1>0, <3>1, <3>2, <3>3, <3>4 DEF EnvInv, OutboundTypeOK
  <2>3. \A s \in Streams : Coming(s)' = <<>>
    BY <2>1 DEF Coming
  <2>4. WriterHolds'
    BY <2>1, <2>3 DEF WriterHolds
  <2>5. \A s \in Streams : ComesOf(<<>>, MadeOf(numbered[s]))
    BY SetOfFew DEF ComesOf
  <2> QED BY <1>0, <1>2, <2>1, <2>2, <2>3, <2>4, <2>5, FromStreams
<1> QED BY <1>3, <1>4

\* A send moves an envelope on its way.
LEMMA SendKeeps == ASSUME EnvInv, NEW s \in Streams, Send(s) PROVE EnvInv'
<1>0. /\ UNCHANGED <<emitted, queue, writer, current, numbered, buffer, got, written, torn, lost,
                     drops>>
      /\ writer = "sending" /\ unsent[s] # <<>>
      /\ unsent' = [unsent EXCEPT ![s] = Tail(unsent[s])]
      /\ flight' = [flight EXCEPT ![s] = Append(flight[s], Head(unsent[s]))]
  BY DEF Send, fateVars
<1>1. /\ unsent[s] \in Seq(Envelopes) /\ flight[s] \in Seq(Envelopes)
      /\ unsent \in [Streams -> Seq(Envelopes)] /\ flight \in [Streams -> Seq(Envelopes)]
  BY StreamTypes DEF EnvInv
<1>2. /\ Head(unsent[s]) \in Envelopes /\ Tail(unsent[s]) \in Seq(Envelopes)
      /\ Append(flight[s], Head(unsent[s])) \in Seq(Envelopes)
  BY <1>0, <1>1, SplitHead, AppendOne
<1>3. unsent' \in [Streams -> Seq(Envelopes)] /\ flight' \in [Streams -> Seq(Envelopes)]
  BY <1>0, <1>1, <1>2
<1>4. OutboundTypeOK'
  BY <1>0, <1>3 DEF EnvInv, OutboundTypeOK
<1>5. ASSUME NEW f \in Seq(Envelopes), NEW u \in Seq(Envelopes), u # <<>>
      PROVE  Append(f, Head(u)) \o Tail(u) = f \o u
  BY <1>5
<1>6. ASSUME NEW t \in Streams PROVE Coming(t)' = Coming(t)
  <2>1. CASE t = s
    <3>1. unsent'[s] = Tail(unsent[s]) /\ flight'[s] = Append(flight[s], Head(unsent[s]))
      BY <1>0, <1>1
    <3>2. Append(flight[s], Head(unsent[s])) \o Tail(unsent[s]) = flight[s] \o unsent[s]
      BY <1>0, <1>1, <1>5
    <3> QED BY <2>1, <3>1, <3>2 DEF Coming
  <2>2. CASE t # s
    <3>1. unsent'[t] = unsent[t] /\ flight'[t] = flight[t]
      BY <1>0, <1>1, <2>2
    <3> QED BY <3>1 DEF Coming
  <2> QED BY <2>1, <2>2
<1>7. WriterHolds'
  BY <1>0 DEF WriterHolds
<1>8. \A t \in Streams :
         /\ KeptOf(got[t], buffer[t], MadeOf(numbered[t]))
         /\ ComesOf(Coming(t), MadeOf(numbered[t]))
         /\ writer # "down" => MadeOf(numbered[t]) \subseteq ToSet(got[t]) \cup ToSet(Coming(t))
  BY ByStream DEF EnvInv
<1> QED BY <1>0, <1>4, <1>6, <1>7, <1>8, FromStreams

\* The client reads.
LEMMA ReadKeeps == ASSUME EnvInv, NEW s \in Streams, Read(s) PROVE EnvInv'
<1> DEFINE e    == Head(flight[s])
           seen == got[s] # <<>> /\ AtMost(e, Last(got[s]))
           more == IF seen THEN got[s] ELSE Append(got[s], e)
<1>0. /\ UNCHANGED <<emitted, queue, writer, current, unsent, numbered, buffer, written, torn,
                     lost, drops>>
      /\ flight[s] # <<>>
      /\ flight' = [flight EXCEPT ![s] = Tail(flight[s])]
      /\ got' = IF seen THEN got ELSE [got EXCEPT ![s] = Append(got[s], e)]
  BY DEF Read, writerVars, fateVars
<1>1. /\ unsent[s] \in Seq(Envelopes) /\ flight[s] \in Seq(Envelopes) /\ got[s] \in Seq(Envelopes)
      /\ buffer[s] \in Seq(Envelopes) /\ Coming(s) \in Seq(Envelopes)
      /\ MadeOf(numbered[s]) \in SUBSET Envelopes
      /\ flight \in [Streams -> Seq(Envelopes)] /\ got \in [Streams -> Seq(Envelopes)]
  BY StreamTypes DEF EnvInv
<1>2. \A t \in Streams :
         /\ KeptOf(got[t], buffer[t], MadeOf(numbered[t]))
         /\ ComesOf(Coming(t), MadeOf(numbered[t]))
         /\ writer # "down" => MadeOf(numbered[t]) \subseteq ToSet(got[t]) \cup ToSet(Coming(t))
  BY ByStream DEF EnvInv
<1>3. ASSUME NEW f \in Seq(Envelopes), NEW u \in Seq(Envelopes), f # <<>>
      PROVE  /\ f \o u # <<>> /\ Head(f \o u) = Head(f) /\ Tail(f \o u) = Tail(f) \o u
  BY <1>3
<1>4. /\ Coming(s) # <<>> /\ Head(Coming(s)) = e
      /\ Tail(Coming(s)) = Tail(flight[s]) \o unsent[s]
  BY <1>0, <1>1, <1>3 DEF Coming
<1>5. writer # "down"
  BY <1>4 DEF EnvInv, WriterHolds
<1>6. /\ more \in Seq(Envelopes) /\ KeptOf(more, buffer[s], MadeOf(numbered[s]))
      /\ ComesOf(Tail(Coming(s)), MadeOf(numbered[s]))
      /\ MadeOf(numbered[s]) \subseteq ToSet(more) \cup ToSet(Tail(Coming(s)))
  BY <1>1, <1>2, <1>4, <1>5, ReadTakesNext
<1>7. /\ got' = [got EXCEPT ![s] = more] /\ Tail(flight[s]) \in Seq(Envelopes)
  BY <1>0, <1>1, SplitHead
<1> HIDE DEF more, e, seen
<1>8. flight' \in [Streams -> Seq(Envelopes)] /\ got' \in [Streams -> Seq(Envelopes)]
  BY <1>0, <1>1, <1>6, <1>7
<1>9. OutboundTypeOK'
  BY <1>0, <1>8 DEF EnvInv, OutboundTypeOK
<1>10. WriterHolds'
  BY <1>0, <1>5 DEF EnvInv, WriterHolds, AllSent
<1>11. ASSUME NEW t \in Streams
       PROVE  /\ KeptOf(got'[t], buffer[t], MadeOf(numbered[t]))
              /\ ComesOf(Coming(t)', MadeOf(numbered[t]))
              /\ MadeOf(numbered[t]) \subseteq ToSet(got'[t]) \cup ToSet(Coming(t)')
  <2>1. CASE t = s
    <3>1. got'[s] = more /\ Coming(s)' = Tail(Coming(s))
      BY <1>0, <1>1, <1>4, <1>7 DEF Coming
    <3> QED BY <1>6, <2>1, <3>1
  <2>2. CASE t # s
    <3>1. got'[t] = got[t] /\ flight'[t] = flight[t]
      BY <1>0, <1>1, <1>7, <2>2
    <3>2. Coming(t)' = Coming(t)
      BY <1>0, <3>1 DEF Coming
    <3> QED BY <1>2, <1>5, <3>1, <3>2
  <2> QED BY <2>1, <2>2
<1> QED BY <1>0, <1>9, <1>10, <1>11, FromStreams

\* An acknowledgement is recorded.
LEMMA AckKeeps ==
  ASSUME EnvInv, NEW s \in Streams, NEW e \in ToSet(got[s]), Ack(s, e) PROVE EnvInv'
<1>0. /\ UNCHANGED <<emitted, queue, writer, current, unsent, numbered, flight, got, written, torn,
                     lost, drops>>
      /\ writer # "down" /\ buffer' = [buffer EXCEPT ![s] = Retained(buffer[s], e)]
  BY DEF Ack, writerVars, clientVars, fateVars
<1>1. /\ got[s] \in Seq(Envelopes) /\ buffer[s] \in Seq(Envelopes)
      /\ MadeOf(numbered[s]) \in SUBSET Envelopes
      /\ buffer \in [Streams -> Seq(Envelopes)]
  BY StreamTypes DEF EnvInv
<1>2. \A t \in Streams :
         /\ KeptOf(got[t], buffer[t], MadeOf(numbered[t]))
         /\ ComesOf(Coming(t), MadeOf(numbered[t]))
         /\ writer # "down" => MadeOf(numbered[t]) \subseteq ToSet(got[t]) \cup ToSet(Coming(t))
  BY ByStream DEF EnvInv
<1>3. /\ KeptOf(got[s], Retained(buffer[s], e), MadeOf(numbered[s]))
      /\ Retained(buffer[s], e) \in Seq(Envelopes)
  BY <1>1, <1>2, AckForgetsTaken
<1>4. buffer' \in [Streams -> Seq(Envelopes)]
  BY <1>0, <1>1, <1>3
<1>5. OutboundTypeOK'
  BY <1>0, <1>4 DEF EnvInv, OutboundTypeOK
<1>6. \A t : Coming(t)' = Coming(t)
  BY <1>0 DEF Coming
<1>7. WriterHolds'
  BY <1>0, <1>6 DEF EnvInv, WriterHolds, AllSent
<1>8. ASSUME NEW t \in Streams PROVE KeptOf(got[t], buffer'[t], MadeOf(numbered[t]))
  <2>1. buffer'[t] = IF t = s THEN Retained(buffer[s], e) ELSE buffer[t]
    BY <1>0, <1>1
  <2> QED BY <1>2, <1>3, <2>1
<1> QED BY <1>0, <1>2, <1>5, <1>6, <1>7, <1>8, FromStreams

\* The writer splits the event it holds and keeps its envelopes.
LEMMA NumberKeeps ==
  ASSUME EnvInv, NEW parts \in Parts, Number(parts) PROVE EnvInv'
<1>1. /\ numbered \in [Streams -> Lists] /\ current \in Events /\ parts \in Nat
      /\ unsent \in [Streams -> Seq(Envelopes)] /\ buffer \in [Streams -> Seq(Envelopes)]
      /\ AllSent
  BY StreamTypes, OutboundAssumption DEF EnvInv, OutboundTypeOK, WriterHolds, Number
<1>2. PICK s \in Streams : s = current[1]
  BY <1>1 DEF Events
<1>3. PICK k \in 1 .. MaxEvents : k = current[2]
  BY <1>1 DEF Events
<1>4. PICK seq \in Nat : seq = Len(numbered[s]) + 1
  BY <1>1 DEF Lists
<1>5. PICK new \in Seq(Envelopes) : new = Segments(seq, parts)
  BY <1>1, SegmentFacts
<1>6. PICK list \in Lists : list = Append(numbered[s], [event |-> k, parts |-> parts])
  BY <1>1, MadeGrows
<1>7. /\ UNCHANGED <<emitted, queue, current, flight, got, written, torn, lost, drops>>
      /\ numbered' = [numbered EXCEPT ![s] = list]
      /\ buffer' = [buffer EXCEPT ![s] = buffer[s] \o new]
      /\ unsent' = [unsent EXCEPT ![s] = new]
      /\ writer = "polling" /\ writer' = "sending"
  BY <1>2, <1>3, <1>4, <1>5, <1>6 DEF Number, clientVars, fateVars
<1>8. /\ got[s] \in Seq(Envelopes) /\ buffer[s] \in Seq(Envelopes) /\ flight[s] \in Seq(Envelopes)
      /\ Coming(s) \in Seq(Envelopes) /\ MadeOf(numbered[s]) \in SUBSET Envelopes
  BY StreamTypes DEF EnvInv
<1>9. \A t \in Streams :
         /\ KeptOf(got[t], buffer[t], MadeOf(numbered[t]))
         /\ ComesOf(Coming(t), MadeOf(numbered[t]))
         /\ MadeOf(numbered[t]) \subseteq ToSet(got[t]) \cup ToSet(Coming(t))
  BY <1>7, ByStream DEF EnvInv
<1>10. Coming(s) = flight[s]
  <2>1. unsent[s] = <<>>
    BY <1>1 DEF AllSent
  <2>2. flight[s] \o <<>> = flight[s]
    BY <1>8
  <2> QED BY <2>1, <2>2 DEF Coming
<1>11. MadeOf(list) = MadeOf(numbered[s]) \cup ToSet(new)
  BY <1>1, <1>4, <1>5, <1>6, MadeGrows
<1>12. \A x \in MadeOf(numbered[s]), y \in ToSet(new) : x.seq < y.seq
  <2> SUFFICES ASSUME NEW x \in MadeOf(numbered[s]), NEW y \in ToSet(new) PROVE x.seq < y.seq
    OBVIOUS
  <2>0. numbered[s] \in Lists /\ Len(numbered[s]) \in Nat
    <3>1. \A list0 \in Lists : Len(list0) \in Nat
      BY DEF Lists
    <3> QED BY <1>1, <3>1
  <2>1. x \in Envelopes /\ x.seq <= Len(numbered[s])
    BY <2>0, MadeFacts
  <2>2. x.seq \in Nat
    BY <2>1 DEF Envelopes
  <2>3. y.seq = seq
    BY <1>1, <1>5, SegmentFacts
  <2> QED BY <1>4, <2>0, <2>1, <2>2, <2>3
<1>13. InCursorOrder(new)
  BY <1>1, <1>5, SegmentFacts
<1>14. /\ buffer[s] \o new \in Seq(Envelopes)
       /\ KeptOf(got[s], buffer[s] \o new, MadeOf(list))
       /\ ComesOf(flight[s] \o new, MadeOf(list))
       /\ MadeOf(list) \subseteq ToSet(got[s]) \cup ToSet(flight[s] \o new)
  <2>1. PICK m \in SUBSET Envelopes : m = MadeOf(numbered[s])
    BY <1>8
  <2>2. PICK c \in Seq(Envelopes) : c = flight[s]
    BY <1>8
  <2>3. /\ KeptOf(got[s], buffer[s], m) /\ ComesOf(c, m) /\ m \subseteq ToSet(got[s]) \cup ToSet(c)
        /\ \A x \in m, y \in ToSet(new) : x.seq < y.seq
    BY <1>9, <1>10, <1>12, <2>1, <2>2
  <2>4. /\ buffer[s] \o new \in Seq(Envelopes) /\ KeptOf(got[s], buffer[s] \o new, m \cup ToSet(new))
        /\ ComesOf(c \o new, m \cup ToSet(new))
        /\ m \cup ToSet(new) \subseteq ToSet(got[s]) \cup ToSet(c \o new)
    BY <1>8, <1>13, <2>3, NewComesLast
  <2>5. MadeOf(list) = m \cup ToSet(new)
    BY <1>11, <2>1
  <2> QED BY <2>2, <2>4, <2>5, Zenon
<1>15. OutboundTypeOK'
  <2>1. /\ numbered' \in [Streams -> Lists] /\ buffer' \in [Streams -> Seq(Envelopes)]
        /\ unsent' \in [Streams -> Seq(Envelopes)]
    BY <1>1, <1>7, <1>14
  <2> QED BY <1>7, <2>1 DEF EnvInv, OutboundTypeOK, Lists
<1>16. WriterHolds'
  BY <1>7 DEF WriterHolds
<1>17. ASSUME NEW t \in Streams
       PROVE  /\ KeptOf(got'[t], buffer'[t], MadeOf(numbered'[t]))
              /\ ComesOf(Coming(t)', MadeOf(numbered'[t]))
              /\ MadeOf(numbered'[t]) \subseteq ToSet(got'[t]) \cup ToSet(Coming(t)')
  <2>1. CASE t = s
    <3>1. /\ numbered'[s] = list /\ buffer'[s] = buffer[s] \o new /\ got'[s] = got[s]
          /\ Coming(s)' = flight[s] \o new
      BY <1>1, <1>7 DEF Coming
    <3> QED BY <1>14, <2>1, <3>1
  <2>2. CASE t # s
    <3>1. /\ numbered'[t] = numbered[t] /\ buffer'[t] = buffer[t] /\ unsent'[t] = unsent[t]
      BY <1>1, <1>7, <2>2
    <3>2. Coming(t)' = Coming(t) /\ got' = got
      BY <1>7, <3>1 DEF Coming
    <3> QED BY <1>9, <3>1, <3>2
  <2> QED BY <2>1, <2>2
<1> QED BY <1>15, <1>16, <1>17, FromStreams

LEMMA EnvelopesInvariant == Spec => []EnvInv
<1>1. Init => EnvInv
  BY EnvInit
<1>2. EnvInv /\ [Next]_vars => EnvInv'
  <2> SUFFICES ASSUME EnvInv, [Next]_vars PROVE EnvInv'
    OBVIOUS
  <2>1. CASE Connect \/ Drop
    BY <2>1, WebsocketStepsKeep
  <2>2. CASE Complete \/ Take \/ \E s \in Streams : Emit(s)
    <3>1. ASSUME Streams = {} PROVE FALSE
      BY <2>2, <3>1 DEF EnvInv, OutboundTypeOK, Events, WriterHolds, Complete, Take
    <3> QED BY <2>2, <3>1, EventStepsKeep
  <2>3. ASSUME NEW s \in Streams, Send(s) PROVE EnvInv'
    BY <2>3, SendKeeps
  <2>4. ASSUME NEW s \in Streams, Read(s) PROVE EnvInv'
    BY <2>4, ReadKeeps
  <2>5. ASSUME NEW parts \in Parts, Number(parts) PROVE EnvInv'
    BY <2>5, NumberKeeps
  <2>6. ASSUME NEW s \in Streams, NEW e \in ToSet(got[s]), Ack(s, e) PROVE EnvInv'
    BY <2>6, AckKeeps
  <2>7. CASE UNCHANGED vars
    <3>1. UNCHANGED <<emitted, queue, writer, current, unsent, numbered, buffer, flight, got,
                      written, torn, lost, drops>>
      BY <2>7 DEF vars, writerVars, clientVars, fateVars
    <3>2. OutboundTypeOK'
      BY <3>1 DEF EnvInv, OutboundTypeOK
    <3>3. \A t : Coming(t)' = Coming(t)
      BY <3>1 DEF Coming
    <3>4. WriterHolds'
      BY <3>1, <3>3 DEF EnvInv, WriterHolds, AllSent
    <3>5. \A t \in Streams :
             /\ KeptOf(got[t], buffer[t], MadeOf(numbered[t]))
             /\ ComesOf(Coming(t), MadeOf(numbered[t]))
             /\ writer # "down" =>
                   MadeOf(numbered[t]) \subseteq ToSet(got[t]) \cup ToSet(Coming(t))
      BY ByStream DEF EnvInv
    <3> QED BY <3>1, <3>2, <3>3, <3>4, <3>5, FromStreams
  <2> QED BY <2>1, <2>2, <2>3, <2>4, <2>5, <2>6, <2>7 DEF Next
<1> QED BY <1>1, <1>2, PTL DEF Spec

\* Every variable of the outbound side has its type, and the queue of events
\* its bound.
THEOREM OutboundTypeCorrect == Spec => []OutboundTypeOK
BY EnvelopesInvariant, PTL DEF EnvInv

\* For any streams, capacity and number of lost websockets: the outbound buffer
\* forgets an envelope only once its client has it, and the client takes the
\* envelopes in order, each once and without a gap.
THEOREM NothingForgotten == Spec => []KeptUntilTaken
BY EnvelopesInvariant, PTL DEF EnvInv
-----------------------------------------------------------------------------
\* The events of one stream as a line: those with a number (in list), the one
\* the writer holds (H) and those in the queue (Q), with the lost ones (L) all
\* that were emitted (count).
NumbersOf(list) == {list[n].event : n \in DOMAIN list}
Lost(s)         == {k \in 1 .. MaxEvents : <<s, k>> \in lost}
Line(list, H, Q, L, count) ==
    /\ \A m, n \in DOMAIN list : m < n => list[m].event < list[n].event
    /\ \A j \in NumbersOf(list), k \in H \cup Q : j < k
    /\ \A j \in H, k \in Q : j < k
    /\ NumbersOf(list) \cup H \cup Q \cup L = 1 .. count

QueueInOrder(q, s) ==
    \A m, n \in DOMAIN q : m < n /\ q[m][1] = s /\ q[n][1] = s => q[m][2] < q[n][2]

\* The event the writer sends has its number.
SendsNumbered ==
    writer = "sending" /\ current # NoEvent =>
        \E s \in Streams : \E k \in 1 .. MaxEvents : current = <<s, k>> /\ k \in Numbered(s)

\* The inductive invariant for the events, on top of the one for the envelopes.
NumInv == /\ IsFiniteSet(lost) /\ Cardinality(lost) <= drops /\ SendsNumbered
          /\ \A s \in Streams :
                /\ Line(numbered[s], Held(s), Queued(s), Lost(s), emitted[s])
                /\ QueueInOrder(queue, s)
                /\ \A k \in 1 .. MaxEvents : <<s, k>> \in written => k \in Numbered(s)

LEMMA NumberedIsInvariant == NumInv => NumberedInOrder
BY Zenon DEF NumInv, NumberedInOrder, Line, QueueInOrder, Lost, NumbersOf, Numbered

\* What the steps do with the line of their stream.
LEMMA LineSteps ==
  ASSUME NEW list \in Lists, NEW H \in SUBSET (1 .. MaxEvents), NEW Q \in SUBSET (1 .. MaxEvents),
         NEW L \in SUBSET (1 .. MaxEvents), NEW count \in Nat, Line(list, H, Q, L, count)
  PROVE  /\ Line(list, H, Q \cup {count + 1}, L, count + 1)
         /\ Line(list, {}, Q, L \cup H, count)
         /\ \A J, R \in SUBSET Nat :
               Q = J \cup R /\ H = {} /\ (\A j \in J, k \in R : j < k) => Line(list, J, R, L, count)
<1>1. /\ \A m, n \in DOMAIN list : m < n => list[m].event < list[n].event
      /\ \A j \in NumbersOf(list), k \in H \cup Q : j < k
      /\ \A j \in H, k \in Q : j < k
      /\ NumbersOf(list) \cup H \cup Q \cup L = 1 .. count
  BY DEF Line
<1>2. Line(list, H, Q \cup {count + 1}, L, count + 1)
  <2>1. \A j \in NumbersOf(list) \cup H : j < count + 1
    BY <1>1
  <2>2. NumbersOf(list) \cup H \cup (Q \cup {count + 1}) \cup L = 1 .. count + 1
    BY <1>1
  <2> QED BY <1>1, <2>1, <2>2 DEF Line
<1>3. Line(list, {}, Q, L \cup H, count)
  <2>1. NumbersOf(list) \cup {} \cup Q \cup (L \cup H) = 1 .. count
    BY <1>1
  <2> QED BY <1>1, <2>1 DEF Line
<1>4. ASSUME NEW J \in SUBSET Nat, NEW R \in SUBSET Nat, Q = J \cup R, H = {},
             \A j \in J, k \in R : j < k
      PROVE  Line(list, J, R, L, count)
  <2>1. NumbersOf(list) \cup J \cup R \cup L = 1 .. count
    BY <1>1, <1>4
  <2> QED BY <1>1, <1>4, <2>1 DEF Line
<1> QED BY <1>2, <1>3, <1>4

LEMMA LineNumber ==
  ASSUME NEW list \in Lists, NEW k \in 1 .. MaxEvents, NEW Q \in SUBSET (1 .. MaxEvents),
         NEW L \in SUBSET (1 .. MaxEvents), NEW count \in Nat, Line(list, {k}, Q, L, count),
         NEW parts \in Parts
  PROVE  LET more == Append(list, [event |-> k, parts |-> parts])
         IN  /\ Line(more, {}, Q, L, count)
             /\ NumbersOf(more) = NumbersOf(list) \cup {k}
<1> DEFINE more == Append(list, [event |-> k, parts |-> parts])
<1>1. /\ DOMAIN list = 1 .. Len(list) /\ Len(list) \in Nat
      /\ DOMAIN more = 1 .. Len(list) + 1
      /\ \A n \in DOMAIN list : more[n] = list[n]
      /\ more[Len(list) + 1] = [event |-> k, parts |-> parts]
  BY DEF Lists
<1>2. more[Len(list) + 1].event = k
  BY <1>1
<1>3. \A n \in 1 .. Len(list) + 1 : n \in DOMAIN list \/ n = Len(list) + 1
  BY <1>1
<1> HIDE DEF more
<1>4. NumbersOf(more) = NumbersOf(list) \cup {k}
  BY <1>1, <1>2, <1>3 DEF NumbersOf
<1>5. /\ \A m, n \in DOMAIN list : m < n => list[m].event < list[n].event
      /\ \A j \in NumbersOf(list), i \in {k} \cup Q : j < i
      /\ \A j \in {k}, i \in Q : j < i
      /\ NumbersOf(list) \cup {k} \cup Q \cup L = 1 .. count
  BY DEF Line
<1>6. ASSUME NEW m \in DOMAIN more, NEW n \in DOMAIN more, m < n
      PROVE  more[m].event < more[n].event
  <2>1. m \in DOMAIN list
    BY <1>1, <1>6
  <2>2. CASE n \in DOMAIN list
    BY <1>1, <1>5, <1>6, <2>1, <2>2
  <2>3. CASE n = Len(list) + 1
    <3>1. list[m].event \in NumbersOf(list)
      BY <2>1 DEF NumbersOf
    <3> QED BY <1>1, <1>2, <1>5, <2>1, <2>3, <3>1
  <2> QED BY <1>1, <1>3, <2>2, <2>3
<1>7. Line(more, {}, Q, L, count)
  BY <1>4, <1>5, <1>6 DEF Line
<1> QED BY <1>4, <1>7 DEF more

\* The queue grows at its end and is taken from its front.
LEMMA QueueAppend ==
  ASSUME NEW q \in Seq(Events), NEW x \in Events
  PROVE  /\ ToSet(Append(q, x)) = ToSet(q) \cup {x}
         /\ \A s : QueueInOrder(q, s) /\ (x[1] = s => \A y \in ToSet(q) : y[1] = s => y[2] < x[2])
                      => QueueInOrder(Append(q, x), s)
<1>1. /\ DOMAIN q = 1 .. Len(q) /\ Len(q) \in Nat
      /\ DOMAIN Append(q, x) = 1 .. Len(q) + 1
      /\ \A n \in 1 .. Len(q) : Append(q, x)[n] = q[n]
      /\ Append(q, x)[Len(q) + 1] = x
  OBVIOUS
<1>2. PICK more : more = Append(q, x)
  OBVIOUS
<1>3. \A n \in 1 .. Len(q) + 1 : n \in 1 .. Len(q) \/ n = Len(q) + 1
  BY <1>1
<1>4. ToSet(more) = ToSet(q) \cup {x}
  BY <1>1, <1>2, <1>3 DEF ToSet
<1>5. ASSUME NEW s, QueueInOrder(q, s), x[1] = s => \A y \in ToSet(q) : y[1] = s => y[2] < x[2]
      PROVE  QueueInOrder(more, s)
  <2> SUFFICES ASSUME NEW m \in 1 .. Len(q) + 1, NEW n \in 1 .. Len(q) + 1, m < n,
                      more[m][1] = s, more[n][1] = s
               PROVE  more[m][2] < more[n][2]
    BY <1>1, <1>2 DEF QueueInOrder
  <2>1. m \in 1 .. Len(q) /\ more[m] = q[m] /\ q[m] \in ToSet(q)
    BY <1>1, <1>2 DEF ToSet
  <2>2. CASE n \in 1 .. Len(q)
    BY <1>1, <1>2, <1>5, <2>1, <2>2 DEF QueueInOrder
  <2>3. CASE n = Len(q) + 1
    BY <1>1, <1>2, <1>5, <2>1, <2>3
  <2> QED BY <1>3, <2>2, <2>3
<1> QED BY <1>2, <1>4, <1>5

LEMMA QueueTail ==
  ASSUME NEW q \in Seq(Events), q # <<>>
  PROVE  /\ Head(q) \in Events /\ ToSet(q) = {Head(q)} \cup ToSet(Tail(q))
         /\ ToSet(q) \subseteq Events
         /\ \A s : QueueInOrder(q, s) =>
               /\ QueueInOrder(Tail(q), s)
               /\ Head(q)[1] = s => \A y \in ToSet(Tail(q)) : y[1] = s => Head(q)[2] < y[2]
<1>1. PICK rest \in Seq(Events) : rest = Tail(q)
  BY HeadTailProperties
<1>2. PICK x \in Events : x = Head(q)
  BY HeadTailProperties
<1>3. /\ DOMAIN q = 1 .. Len(q) /\ Len(q) \in Nat \ {0} /\ DOMAIN rest = 1 .. Len(q) - 1
      /\ \A n \in 1 .. Len(q) - 1 : rest[n] = q[n + 1] /\ n + 1 \in 1 .. Len(q)
      /\ q[1] = x
  BY <1>1, <1>2
<1>4. \A n \in 1 .. Len(q) : n = 1 \/ (n - 1 \in 1 .. Len(q) - 1 /\ q[n] = rest[n - 1])
  BY <1>3
<1>5. ToSet(q) = {x} \cup ToSet(rest) /\ ToSet(q) \subseteq Events
  <2>1. ASSUME NEW y \in ToSet(q) PROVE y \in {x} \cup ToSet(rest) /\ y \in Events
    <3>1. PICK n \in 1 .. Len(q) : y = q[n]
      BY <1>3 DEF ToSet
    <3>2. y \in Events
      BY <3>1
    <3> QED BY <1>3, <1>4, <3>1, <3>2 DEF ToSet
  <2>2. ASSUME NEW y \in {x} \cup ToSet(rest) PROVE y \in ToSet(q)
    <3>1. CASE y = x
      <4>1. 1 \in 1 .. Len(q)
        BY <1>3
      <4> QED BY <1>3, <3>1, <4>1 DEF ToSet
    <3>2. CASE y \in ToSet(rest)
      <4>1. PICK n \in 1 .. Len(q) - 1 : y = rest[n]
        BY <1>3, <3>2 DEF ToSet
      <4> QED BY <1>3, <4>1 DEF ToSet
    <3> QED BY <3>1, <3>2
  <2> QED BY <2>1, <2>2
<1>6. ASSUME NEW s, QueueInOrder(q, s)
      PROVE  /\ QueueInOrder(rest, s)
             /\ x[1] = s => \A y \in ToSet(rest) : y[1] = s => x[2] < y[2]
  <2>1. ASSUME NEW m \in 1 .. Len(q) - 1, NEW n \in 1 .. Len(q) - 1, m < n,
               rest[m][1] = s, rest[n][1] = s
        PROVE  rest[m][2] < rest[n][2]
    <3>1. m + 1 < n + 1
      BY <2>1
    <3>2. /\ rest[m] = q[m + 1] /\ m + 1 \in DOMAIN q
          /\ rest[n] = q[n + 1] /\ n + 1 \in DOMAIN q
      BY <1>3
    <3>3. q[m + 1][1] = s /\ q[n + 1][1] = s => q[m + 1][2] < q[n + 1][2]
      BY <1>6, <3>1, <3>2 DEF QueueInOrder
    <3> QED BY <2>1, <3>2, <3>3
  <2>2. ASSUME NEW n \in 1 .. Len(q) - 1, x[1] = s, rest[n][1] = s PROVE x[2] < rest[n][2]
    <3>1. 1 < n + 1 /\ 1 \in 1 .. Len(q)
      BY <1>3
    <3> QED BY <1>3, <1>6, <2>2, <3>1 DEF QueueInOrder
  <2> QED BY <1>3, <2>1, <2>2 DEF QueueInOrder, ToSet
<1> QED BY <1>1, <1>2, <1>5, <1>6

\* The sets of a line, and the types that the lemmas about lines need.
LEMMA LineTypes ==
  ASSUME EnvInv, NEW s \in Streams
  PROVE  /\ numbered[s] \in Lists /\ emitted[s] \in Nat /\ emitted[s] <= MaxEvents
         /\ Held(s) \in SUBSET (1 .. MaxEvents) /\ Queued(s) \in SUBSET (1 .. MaxEvents)
         /\ Lost(s) \in SUBSET (1 .. MaxEvents) /\ Numbered(s) = NumbersOf(numbered[s])
         /\ MaxEvents \in Nat
<1>1. numbered[s] \in Lists /\ emitted[s] \in Nat /\ emitted[s] <= MaxEvents /\ MaxEvents \in Nat
  <2>1. numbered[s] \in Lists
    BY StreamTypes DEF EnvInv
  <2>2. emitted[s] \in 0 .. MaxEvents /\ MaxEvents \in Nat
    BY OutboundAssumption DEF EnvInv, OutboundTypeOK
  <2> QED BY <2>1, <2>2
<1> QED BY <1>1 DEF Held, Queued, Lost, Numbered, NumbersOf

LEMMA NumInit == Init => NumInv
<1> SUFFICES ASSUME Init PROVE NumInv
  OBVIOUS
<1>1. /\ queue = <<>> /\ writer = "down" /\ lost = {} /\ written = {} /\ drops = 0
      /\ \A s \in Streams : numbered[s] = <<>> /\ emitted[s] = 0
  BY DEF Init
<1>2. IsFiniteSet(lost) /\ Cardinality(lost) <= drops
  BY <1>1, FS_EmptySet
<1>3. ToSet(queue) = {}
  BY <1>1, SetOfFew
<1>4. ASSUME NEW s \in Streams
      PROVE  Held(s) = {} /\ Queued(s) = {} /\ Lost(s) = {} /\ NumbersOf(numbered[s]) = {}
  BY <1>1, <1>3 DEF Held, Queued, Lost, NumbersOf
<1>5. ASSUME NEW s \in Streams
      PROVE  /\ Line(numbered[s], Held(s), Queued(s), Lost(s), emitted[s])
             /\ QueueInOrder(queue, s)
  BY <1>1, <1>4 DEF Line, QueueInOrder
<1> QED BY <1>1, <1>2, <1>5 DEF NumInv, SendsNumbered

\* Steps of the websocket and of the client leave the events alone.
LEMMA QuietKeeps ==
  ASSUME NumInv, EnvInv, UNCHANGED <<emitted, queue, numbered, current, written, lost, drops>>,
         writer' = writer \/ (writer = "down" /\ writer' = "sending")
  PROVE  NumInv'
<1>1. \A s : /\ Held(s)' = Held(s) /\ Queued(s)' = Queued(s) /\ Lost(s)' = Lost(s)
             /\ Numbered(s)' = Numbered(s)
  BY DEF Held, Queued, Lost, Numbered
<1>2. SendsNumbered'
  BY <1>1 DEF EnvInv, WriterHolds, NumInv, SendsNumbered
<1> QED BY <1>1, <1>2 DEF NumInv

\* An event enters the queue behind all others of its stream.
LEMMA EmitNumbers == ASSUME NumInv, EnvInv, NEW s \in Streams, Emit(s) PROVE NumInv'
<1>1. /\ emitted[s] < MaxEvents /\ emitted' = [emitted EXCEPT ![s] = emitted[s] + 1]
      /\ queue' = Append(queue, <<s, emitted[s] + 1>>)
      /\ UNCHANGED <<writer, current, numbered, written, lost, drops>>
  BY DEF Emit, writerVars, fateVars
<1>2. /\ emitted \in [Streams -> 0 .. MaxEvents] /\ queue \in Seq(Events)
      /\ MaxEvents \in Nat
  BY OutboundAssumption DEF EnvInv, OutboundTypeOK
<1>3. PICK k \in 1 .. MaxEvents : k = emitted[s] + 1
  BY <1>1, <1>2
<1>4. PICK x \in Events : x = <<s, k>>
  BY DEF Events
<1>5. ToSet(queue') = ToSet(queue) \cup {x} /\ queue' = Append(queue, x)
  BY <1>1, <1>2, <1>3, <1>4, QueueAppend
<1>6. \A t : Held(t)' = Held(t) /\ Lost(t)' = Lost(t) /\ Numbered(t)' = Numbered(t)
  BY <1>1 DEF Held, Lost, Numbered
<1>7. ASSUME NEW t \in Streams
      PROVE  Queued(t)' = IF t = s THEN Queued(s) \cup {k} ELSE Queued(t)
  BY <1>4, <1>5 DEF Queued
<1>8. ASSUME NEW t \in Streams
      PROVE  Line(numbered[t], Held(t), Queued(t), Lost(t), emitted[t])
  BY DEF NumInv
<1>9. ASSUME NEW t \in Streams PROVE Line(numbered[t], Held(t), Queued(t)', Lost(t), emitted'[t])
  <2>1. CASE t = s
    <3>1. Line(numbered[s], Held(s), Queued(s) \cup {emitted[s] + 1}, Lost(s), emitted[s] + 1)
      BY <1>8, LineSteps, LineTypes
    <3>2. emitted'[s] = emitted[s] + 1
      BY <1>1, <1>2
    <3> QED BY <1>3, <1>7, <2>1, <3>1, <3>2
  <2>2. CASE t # s
    <3>1. emitted'[t] = emitted[t]
      BY <1>1, <1>2, <2>2
    <3> QED BY <1>7, <1>8, <2>2, <3>1
  <2> QED BY <2>1, <2>2
<1>10. \A y \in ToSet(queue) : y[1] = s => y[2] < k
  <2> SUFFICES ASSUME NEW y \in ToSet(queue), y[1] = s PROVE y[2] < k
    OBVIOUS
  <2>1. y \in Events
    BY <1>2 DEF ToSet
  <2>2. y[2] \in 1 .. MaxEvents /\ y = <<s, y[2]>>
    BY <2>1 DEF Events
  <2>3. y[2] \in Queued(s)
    BY <2>2 DEF Queued
  <2>4. y[2] \in 1 .. emitted[s]
    BY <1>8, <2>3 DEF Line
  <2> QED BY <1>2, <1>3, <2>4
<1>11. ASSUME NEW t \in Streams PROVE QueueInOrder(queue', t)
  <2>1. QueueInOrder(queue, t)
    BY DEF NumInv
  <2>2. x[1] = t => \A y \in ToSet(queue) : y[1] = t => y[2] < x[2]
    BY <1>4, <1>10
  <2> QED BY <1>2, <1>5, <2>1, <2>2, QueueAppend
<1>12. SendsNumbered'
  BY <1>1, <1>6 DEF NumInv, SendsNumbered
<1> QED BY <1>1, <1>6, <1>9, <1>11, <1>12 DEF NumInv

\* The writer takes the first event of the queue.
LEMMA TakeNumbers == ASSUME NumInv, EnvInv, Take PROVE NumInv'
<1>1. /\ queue # <<>> /\ current' = Head(queue) /\ queue' = Tail(queue)
      /\ writer = "sending" /\ writer' = "polling"
      /\ UNCHANGED <<emitted, numbered, written, lost, drops>>
  BY DEF Take, fateVars
<1>2. queue \in Seq(Events)
  BY DEF EnvInv, OutboundTypeOK
<1>3. /\ current' \in Events /\ ToSet(queue) = {current'} \cup ToSet(queue')
      /\ ToSet(queue) \subseteq Events
      /\ \A s : QueueInOrder(queue, s) =>
            /\ QueueInOrder(queue', s)
            /\ current'[1] = s => \A y \in ToSet(queue') : y[1] = s => current'[2] < y[2]
  BY <1>1, <1>2, QueueTail
<1>4. \A t : Lost(t)' = Lost(t) /\ Numbered(t)' = Numbered(t)
  BY <1>1 DEF Lost, Numbered
<1>5. ASSUME NEW t \in Streams PROVE Line(numbered[t], Held(t)', Queued(t)', Lost(t), emitted[t])
  <2>1. Line(numbered[t], Held(t), Queued(t), Lost(t), emitted[t]) /\ QueueInOrder(queue, t)
    BY DEF NumInv
  <2>2. Held(t) = {} /\ Held(t)' = {k \in 1 .. MaxEvents : current' = <<t, k>>}
    BY <1>1 DEF Held
  <2>3. Queued(t) = Held(t)' \cup Queued(t)'
    BY <1>1, <1>3, <2>2 DEF Queued
  <2>4. \A j \in Held(t)', k \in Queued(t)' : j < k
    <3> SUFFICES ASSUME NEW j \in Held(t)', NEW k \in Queued(t)' PROVE j < k
      OBVIOUS
    <3>1. current' = <<t, j>> /\ <<t, k>> \in ToSet(queue')
      BY <1>1, <2>2 DEF Queued
    <3>2. current'[1] = t /\ current'[2] = j /\ <<t, k>>[1] = t /\ <<t, k>>[2] = k
      BY <3>1
    <3> QED BY <1>3, <2>1, <3>1, <3>2
  <2>5. Held(t)' \in SUBSET Nat /\ Queued(t)' \in SUBSET Nat
    BY <1>1, <2>2 DEF Queued
  <2> QED BY <2>1, <2>2, <2>3, <2>4, <2>5, LineSteps, LineTypes
<1>6. ASSUME NEW t \in Streams PROVE QueueInOrder(queue', t)
  BY <1>3 DEF NumInv
<1>7. SendsNumbered'
  BY <1>1 DEF SendsNumbered
<1> QED BY <1>1, <1>4, <1>5, <1>6, <1>7 DEF NumInv

\* The event that was sent is reported.
LEMMA CompleteNumbers == ASSUME NumInv, EnvInv, Complete PROVE NumInv'
<1>1. /\ writer = "sending" /\ current # NoEvent /\ current' = NoEvent
      /\ written' = written \cup {current}
      /\ UNCHANGED <<emitted, queue, writer, numbered, lost, drops>>
  BY DEF Complete
<1>2. \A t : /\ Held(t)' = Held(t) /\ Queued(t)' = Queued(t) /\ Lost(t)' = Lost(t)
             /\ Numbered(t)' = Numbered(t)
  BY <1>1 DEF Held, Queued, Lost, Numbered
<1>3. PICK s \in Streams, k \in 1 .. MaxEvents : current = <<s, k>> /\ k \in Numbered(s)
  BY <1>1 DEF NumInv, SendsNumbered
<1>4. ASSUME NEW t \in Streams, NEW j \in 1 .. MaxEvents, <<t, j>> \in written'
      PROVE  j \in Numbered(t)
  <2>1. CASE <<t, j>> \in written
    BY <2>1 DEF NumInv
  <2>2. CASE <<t, j>> = current
    <3>1. t = s /\ j = k
      BY <1>3, <2>2
    <3> QED BY <1>3, <3>1
  <2> QED BY <1>1, <1>4, <2>1, <2>2
<1>5. SendsNumbered'
  BY <1>1 DEF SendsNumbered
<1> QED BY <1>1, <1>2, <1>4, <1>5 DEF NumInv

\* The event the writer holds gets its number.
LEMMA NumberNumbers ==
  ASSUME NumInv, EnvInv, NEW parts \in Parts, Number(parts) PROVE NumInv'
<1>1. /\ numbered \in [Streams -> Lists] /\ current \in Events /\ writer = "polling"
  BY StreamTypes DEF EnvInv, OutboundTypeOK, WriterHolds, Number
<1>2. PICK s \in Streams : s = current[1]
  BY <1>1 DEF Events
<1>3. PICK k \in 1 .. MaxEvents : k = current[2]
  BY <1>1 DEF Events
<1>4. PICK list \in Lists : list = Append(numbered[s], [event |-> k, parts |-> parts])
  BY <1>1, MadeGrows
<1>5. /\ UNCHANGED <<emitted, queue, current, written, lost, drops>>
      /\ numbered' = [numbered EXCEPT ![s] = list] /\ writer' = "sending"
  BY <1>2, <1>3, <1>4 DEF Number, fateVars
<1>6. current = <<s, k>>
  BY <1>1, <1>2, <1>3 DEF Events
<1>7. \A t : Queued(t)' = Queued(t) /\ Lost(t)' = Lost(t) /\ Held(t)' = {}
  BY <1>5 DEF Queued, Lost, Held
<1>8. ASSUME NEW t \in Streams PROVE Held(t) = IF t = s THEN {k} ELSE {}
  BY <1>1, <1>6 DEF Held
<1>9. ASSUME NEW t \in Streams
      PROVE  Line(numbered[t], Held(t), Queued(t), Lost(t), emitted[t])
  BY DEF NumInv
<1>10. /\ Line(list, {}, Queued(s), Lost(s), emitted[s])
       /\ NumbersOf(list) = NumbersOf(numbered[s]) \cup {k}
  <2>1. Line(numbered[s], {k}, Queued(s), Lost(s), emitted[s])
    BY <1>8, <1>9
  <2>2. /\ numbered[s] \in Lists /\ emitted[s] \in Nat
        /\ Queued(s) \in SUBSET (1 .. MaxEvents) /\ Lost(s) \in SUBSET (1 .. MaxEvents)
    BY LineTypes
  <2> QED BY <1>4, <2>1, <2>2, LineNumber
<1>11. ASSUME NEW t \in Streams
       PROVE  /\ numbered'[t] = IF t = s THEN list ELSE numbered[t]
              /\ Numbered(t)' = NumbersOf(numbered'[t])
  BY <1>1, <1>5 DEF Numbered, NumbersOf
<1>12. ASSUME NEW t \in Streams
       PROVE  Line(numbered'[t], {}, Queued(t), Lost(t), emitted[t])
  BY <1>8, <1>9, <1>10, <1>11
<1>13. ASSUME NEW t \in Streams PROVE Numbered(t) \subseteq Numbered(t)'
  BY <1>10, <1>11, LineTypes
<1>14. SendsNumbered'
  <2>1. k \in Numbered(s)'
    BY <1>10, <1>11
  <2> QED BY <1>5, <1>6, <2>1 DEF SendsNumbered
<1> QED BY <1>5, <1>7, <1>12, <1>13, <1>14 DEF NumInv

\* A lost websocket costs at most the event its writer holds.
LEMMA DropNumbers == ASSUME NumInv, EnvInv, Drop PROVE NumInv'
<1>1. /\ writer # "down" /\ drops' = drops + 1
      /\ lost' = IF writer = "polling" THEN lost \cup {current} ELSE lost
      /\ writer' = "down" /\ UNCHANGED <<emitted, queue, numbered, written>>
  BY DEF Drop
<1>2. drops \in Nat
  BY OutboundAssumption DEF EnvInv, OutboundTypeOK
<1>3. IsFiniteSet(lost') /\ Cardinality(lost') <= drops'
  <2>1. IsFiniteSet(lost) /\ Cardinality(lost) <= drops /\ Cardinality(lost) \in Nat
    BY FS_CardinalityType DEF NumInv
  <2>2. /\ IsFiniteSet(lost \cup {current})
        /\ Cardinality(lost \cup {current}) \in {Cardinality(lost), Cardinality(lost) + 1}
    BY <2>1, FS_AddElement
  <2> QED BY <1>1, <1>2, <2>1, <2>2
<1>4. \A t : Held(t)' = {} /\ Queued(t)' = Queued(t) /\ Numbered(t)' = Numbered(t)
  BY <1>1 DEF Held, Queued, Numbered
<1>5. ASSUME NEW t \in Streams PROVE Lost(t)' = Lost(t) \cup Held(t)
  BY <1>1 DEF Lost, Held
<1>6. ASSUME NEW t \in Streams PROVE Line(numbered[t], {}, Queued(t), Lost(t)', emitted[t])
  <2>1. Line(numbered[t], Held(t), Queued(t), Lost(t), emitted[t])
    BY DEF NumInv
  <2>2. Line(numbered[t], {}, Queued(t), Lost(t) \cup Held(t), emitted[t])
    BY <2>1, LineSteps, LineTypes
  <2> QED BY <1>5, <2>2
<1>7. SendsNumbered'
  BY <1>1 DEF SendsNumbered
<1> QED BY <1>1, <1>3, <1>4, <1>6, <1>7 DEF NumInv

LEMMA EventsInvariant == Spec => []NumInv
<1>1. Init => NumInv
  BY NumInit
<1>2. NumInv /\ EnvInv /\ [Next]_vars => NumInv'
  <2> SUFFICES ASSUME NumInv, EnvInv, [Next]_vars PROVE NumInv'
    OBVIOUS
  <2>1. CASE Connect
    BY <2>1, QuietKeeps DEF Connect, fateVars
  <2>2. CASE Complete
    BY <2>2, CompleteNumbers
  <2>3. CASE Take
    BY <2>3, TakeNumbers
  <2>4. CASE Drop
    BY <2>4, DropNumbers
  <2>5. ASSUME NEW s \in Streams, Emit(s) PROVE NumInv'
    BY <2>5, EmitNumbers
  <2>6. ASSUME NEW s \in Streams, Send(s) PROVE NumInv'
    BY <2>6, QuietKeeps DEF Send, fateVars
  <2>7. ASSUME NEW s \in Streams, Read(s) PROVE NumInv'
    BY <2>7, QuietKeeps DEF Read, fateVars, writerVars
  <2>8. ASSUME NEW s \in Streams, NEW e \in ToSet(got[s]), Ack(s, e) PROVE NumInv'
    BY <2>8, QuietKeeps DEF Ack, fateVars, writerVars
  <2>9. ASSUME NEW parts \in Parts, Number(parts) PROVE NumInv'
    BY <2>9, NumberNumbers
  <2>10. CASE UNCHANGED vars
    BY <2>10, QuietKeeps DEF vars, fateVars, writerVars
  <2> QED
    BY <2>1, <2>2, <2>3, <2>4, <2>5, <2>6, <2>7, <2>8, <2>9, <2>10 DEF Next
<1> QED BY <1>1, <1>2, EnvelopesInvariant, PTL DEF Spec

\* For any streams and any number of lost websockets: the events of a stream
\* are numbered in the order they were queued in, none vanishes but the one a
\* writer held when its websocket was lost, and what is reported written has
\* its number.
THEOREM EventsKeepTheirOrder == Spec => []NumberedInOrder
BY EventsInvariant, NumberedIsInvariant, PTL
=============================================================================
