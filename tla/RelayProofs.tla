----------------------------- MODULE RelayProofs -----------------------------
(***************************************************************************)
(* Proofs about Relay for any streams, capacities, numbers of messages and *)
(* of virtual streams: what a processor says leaves in order, and every    *)
(* message of a stream reaches one virtual stream.                         *)
(***************************************************************************)
EXTENDS Relay, FiniteSetTheorems, SequenceTheorems, WellFoundedInduction, TLAPS

-----------------------------------------------------------------------------
(***************************************************************************)
(* What disconnecting a list of virtual streams does.                      *)
(***************************************************************************)
Distinct(list) == \A m, n \in DOMAIN list : list[m] = list[n] => m = n

\* A nonempty set of natural numbers has a least element.
LEMMA LeastNatural ==
  ASSUME NEW T \in SUBSET Nat, T # {}
  PROVE  \E m \in T : \A n \in T : m <= n
<1>1. PICK m \in T : \A n \in T : ~ <<n, m>> \in OpToRel(<, Nat)
  BY NatLessThanWellFounded, WFMin
<1>2. \A n \in T : ~ n < m
  BY <1>1 DEF OpToRel
<1> QED BY <1>2

\* A set of positions that holds all those before each of its own is an
\* initial interval, and its cardinality is the last one.
LEMMA InitialInterval ==
  ASSUME NEW N \in Nat, NEW T \in SUBSET (1 .. N),
         \A n \in T : \A m \in 1 .. n : m \in T
  PROVE  Cardinality(T) \in 0 .. N /\ T = 1 .. Cardinality(T)
<1> DEFINE Ends == {k \in Nat : k + 1 \notin T}
<1>1. Ends # {}
  <2>1. N \in Ends
    OBVIOUS
  <2> QED BY <2>1
<1>2. PICK k \in Ends : \A j \in Ends : k <= j
  BY <1>1, LeastNatural
<1>3. k \in Nat /\ k + 1 \notin T
  BY <1>2
<1>4. ASSUME NEW n \in 1 .. k PROVE n \in T
  <2>1. n - 1 \in Nat /\ ~ k <= n - 1
    BY <1>3
  <2>2. n - 1 \notin Ends
    BY <1>2, <2>1
  <2> QED BY <2>1, <2>2
<1>5. ASSUME NEW n \in T PROVE n \in 1 .. k
  <2>1. ~ k + 1 \in 1 .. n
    BY <1>3
  <2> QED BY <1>3, <2>1
<1>6. T = 1 .. k
  BY <1>4, <1>5
<1>7. k <= N
  <2>1. N \in Ends
    OBVIOUS
  <2> QED BY <1>2, <2>1
<1>8. Cardinality(1 .. k) = k
  BY <1>3, FS_Interval
<1> QED BY <1>3, <1>6, <1>7, <1>8

\* The front part of a list of distinct elements and the rest have nothing in
\* common.
LEMMA RestOfList ==
  ASSUME NEW list \in Seq(Virtual), NEW k \in Nat, k <= Len(list),
         NEW rest, rest = SubSeq(list, k + 1, Len(list))
  PROVE  /\ rest \in Seq(Virtual) /\ DOMAIN rest = 1 .. Len(list) - k
         /\ \A n \in DOMAIN rest : n + k \in DOMAIN list /\ rest[n] = list[n + k]
         /\ Distinct(list) => Distinct(rest)
         /\ Distinct(list) => \A n \in DOMAIN rest, m \in 1 .. k : rest[n] # list[m]
<1>1. PICK size \in Nat : size = Len(list) /\ DOMAIN list = 1 .. size
  OBVIOUS
<1>2. rest = SubSeq(list, k + 1, size)
  BY <1>1
<1>3. /\ rest \in Seq(Virtual)
      /\ Len(rest) = IF k + 1 <= size THEN size - (k + 1) + 1 ELSE 0
      /\ \A n \in 1 .. size - (k + 1) + 1 : rest[n] = list[k + 1 + n - 1]
  BY <1>1, <1>2, SubSeqProperties
<1>4. k <= size /\ size - (k + 1) + 1 = size - k /\ \A n \in Nat : k + 1 + n - 1 = n + k
  BY <1>1
<1>5. DOMAIN rest = 1 .. size - k
  BY <1>3, <1>4
<1>6. ASSUME NEW n \in 1 .. size - k PROVE n + k \in 1 .. size /\ rest[n] = list[n + k]
  <2>1. n \in 1 .. size - (k + 1) + 1 /\ k + 1 + n - 1 = n + k /\ n + k \in 1 .. size
    BY <1>4
  <2> QED BY <1>3, <2>1
<1>7. ASSUME Distinct(list) PROVE Distinct(rest)
  <2> SUFFICES ASSUME NEW m \in 1 .. size - k, NEW n \in 1 .. size - k, rest[m] = rest[n]
               PROVE  m = n
    BY <1>5 DEF Distinct
  <2>1. m + k \in DOMAIN list /\ n + k \in DOMAIN list /\ list[m + k] = list[n + k]
    BY <1>1, <1>6
  <2>2. m + k = n + k
    BY <1>7, <2>1 DEF Distinct
  <2> QED BY <2>2
<1>8. ASSUME Distinct(list), NEW n \in DOMAIN rest, NEW m \in 1 .. k PROVE rest[n] # list[m]
  <2>1. n + k # m /\ n + k \in DOMAIN list /\ m \in DOMAIN list /\ rest[n] = list[n + k]
    BY <1>1, <1>4, <1>5, <1>6
  <2> QED BY <1>8, <2>1 DEF Distinct
<1> QED BY <1>1, <1>2, <1>3, <1>5, <1>6, <1>7, <1>8

\* The event is put on the queues of the front part of the list, as far as they
\* have room; the others are still to be told, the first of them already knows.
LEMMA DisconnectFacts ==
  ASSUME RelayTypeOK, NEW list \in Seq(Virtual), NEW during, NEW afterwards,
         Disconnect(list, during, afterwards)
  PROVE  /\ victims' \in Seq(Virtual) /\ env' = IF victims' = <<>> THEN afterwards ELSE during
         /\ inbox' \in [Virtual -> Seq(Nat)] /\ delivered' \in [Virtual -> Seq(Nat)]
         /\ disconnected \subseteq disconnected'
         /\ disconnected' \subseteq disconnected \cup ToSet(list)
         /\ \A v \in Virtual : \/ delivered'[v] = delivered[v]
                              \/ /\ delivered'[v] = Append(delivered[v], Gone)
                                 /\ v \in ToSet(list) /\ v \in disconnected'
         /\ Distinct(list) => /\ Distinct(victims')
                              /\ \A n \in DOMAIN victims' :
                                    /\ victims'[n] \in ToSet(list)
                                    /\ delivered'[victims'[n]] = delivered[victims'[n]]
         /\ Len(list) = 1 => list[1] \in disconnected'
<1>1. PICK through \in SUBSET (1 .. Len(list)) :
         through = {n \in 1 .. Len(list) : \A m \in 1 .. n : ~ Full(inbox[list[m]])}
  OBVIOUS
<1>2. \A n \in through : \A m \in 1 .. n : m \in through
  <2> SUFFICES ASSUME NEW n \in through, NEW m \in 1 .. n PROVE m \in through
    OBVIOUS
  <2>1. n \in 1 .. Len(list) /\ Len(list) \in Nat /\ \A j \in 1 .. n : ~ Full(inbox[list[j]])
    BY <1>1
  <2>2. m \in 1 .. Len(list) /\ \A j \in 1 .. m : j \in 1 .. n
    BY <2>1
  <2> QED BY <1>1, <2>1, <2>2
<1>3. Cardinality(through) \in 0 .. Len(list) /\ through = 1 .. Cardinality(through)
  BY <1>2, InitialInterval
<1>4. PICK k \in Nat : k = Cardinality(through) /\ k <= Len(list) /\ through = 1 .. k
  BY <1>3
<1>5. PICK told \in SUBSET Virtual : told = {list[n] : n \in 1 .. k}
  <2>1. \A n \in 1 .. k : list[n] \in Virtual
    BY <1>4
  <2> QED BY <2>1
<1>6. PICK rest : rest = SubSeq(list, k + 1, Len(list))
  OBVIOUS
<1>7. /\ rest \in Seq(Virtual) /\ DOMAIN rest = 1 .. Len(list) - k
      /\ \A n \in DOMAIN rest : n + k \in DOMAIN list /\ rest[n] = list[n + k]
      /\ Distinct(list) => Distinct(rest)
      /\ Distinct(list) => \A n \in DOMAIN rest, m \in 1 .. k : rest[n] # list[m]
  <2>1. k <= Len(list) /\ rest = SubSeq(list, k + 1, Len(list))
    BY <1>4, <1>6
  <2>2. rest \in Seq(Virtual) /\ DOMAIN rest = 1 .. Len(list) - k
    BY <2>1, RestOfList
  <2>3. \A n \in DOMAIN rest : n + k \in DOMAIN list /\ rest[n] = list[n + k]
    BY <2>1, RestOfList
  <2>4. Distinct(list) => Distinct(rest)
    BY <2>1, RestOfList DEF Distinct
  <2>5. Distinct(list) => \A n \in DOMAIN rest, m \in 1 .. k : rest[n] # list[m]
    BY <2>1, RestOfList DEF Distinct
  <2> QED BY <2>2, <2>3, <2>4, <2>5, Zenon
<1>8. /\ inbox' = [v \in Virtual |-> IF v \in told THEN Append(inbox[v], Gone) ELSE inbox[v]]
      /\ delivered' = [v \in Virtual |-> IF v \in told THEN Append(delivered[v], Gone)
                                          ELSE delivered[v]]
      /\ victims' = rest
      /\ disconnected' = disconnected \cup told \cup (IF rest = <<>> THEN {} ELSE {Head(rest)})
      /\ env' = IF rest = <<>> THEN afterwards ELSE during
  BY <1>1, <1>4, <1>5, <1>6, Zenon DEF Disconnect
<1>9. \A v \in told : v \in ToSet(list)
  BY <1>4, <1>5 DEF ToSet
<1>10. \A n \in DOMAIN rest : rest[n] \in ToSet(list)
  BY <1>7 DEF ToSet
<1>11. rest # <<>> => Head(rest) = rest[1] /\ 1 \in DOMAIN rest
  BY <1>7
<1>12. inbox' \in [Virtual -> Seq(Nat)] /\ delivered' \in [Virtual -> Seq(Nat)]
  BY <1>8 DEF RelayTypeOK, Gone
<1>13. ASSUME Distinct(list), NEW n \in DOMAIN rest PROVE delivered'[rest[n]] = delivered[rest[n]]
  <2>1. rest[n] \notin told /\ rest[n] \in Virtual
    BY <1>5, <1>7, <1>13
  <2> QED BY <1>8, <2>1
<1>14. ASSUME Len(list) = 1 PROVE list[1] \in disconnected'
  <2>1. CASE k = 0
    <3>1. 1 \in DOMAIN rest /\ rest[1] = list[1] /\ rest # <<>>
      <4>1. 1 \in DOMAIN rest
        BY <1>7, <1>14, <2>1
      <4> QED BY <1>7, <2>1, <4>1
    <3> QED BY <1>8, <1>11, <3>1
  <2>2. CASE k # 0
    <3>1. 1 \in 1 .. k
      BY <2>2
    <3> QED BY <1>5, <1>8, <3>1
  <2> QED BY <2>1, <2>2
<1>15. \A v \in Virtual : \/ delivered'[v] = delivered[v]
                         \/ /\ delivered'[v] = Append(delivered[v], Gone)
                            /\ v \in ToSet(list) /\ v \in disconnected'
  BY <1>8, <1>9
<1>16. /\ disconnected \subseteq disconnected'
       /\ disconnected' \subseteq disconnected \cup ToSet(list)
  BY <1>8, <1>9, <1>10, <1>11
<1> QED BY <1>7, <1>8, <1>10, <1>12, <1>13, <1>14, <1>15, <1>16

\* The function that lists, for every number, the virtual streams up to it.
Lists(f, streams, n) ==
    f = [v \in 0 .. n |-> IF v = 0 THEN <<>>
                          ELSE IF v \in streams THEN Append(f[v - 1], v) ELSE f[v - 1]]

LEMMA ListIsChosen ==
  ASSUME NEW streams
  PROVE  InSpawnOrder(streams) = (CHOOSE f : Lists(f, streams, MaxSpawned))[MaxSpawned]
BY DEF InSpawnOrder, Lists

LEMMA ListsExists ==
  ASSUME NEW streams, NEW n \in Nat
  PROVE  \E f : Lists(f, streams, n)
<1> DEFINE Bad == {k \in Nat : ~ \E f : Lists(f, streams, k)}
<1>1. SUFFICES ASSUME Bad # {} PROVE FALSE
  OBVIOUS
<1>2. PICK k \in Bad : \A j \in Bad : k <= j
  BY <1>1, LeastNatural
<1>3. k # 0
  <2> DEFINE f == [j \in 0 .. 0 |-> <<>>]
  <2>1. Lists(f, streams, 0)
    BY DEF Lists
  <2> HIDE DEF f
  <2> QED BY <1>2, <2>1
<1>4. k \in Nat /\ k - 1 \in Nat /\ k - 1 \notin Bad
  BY <1>2, <1>3
<1>5. PICK f : Lists(f, streams, k - 1)
  BY <1>4
<1> DEFINE last == IF k \in streams THEN Append(f[k - 1], k) ELSE f[k - 1]
           g == [j \in 0 .. k |-> IF j = k THEN last ELSE f[j]]
<1>6. \A j \in 0 .. k : g[j] = IF j = 0 THEN <<>>
                               ELSE IF j \in streams THEN Append(g[j - 1], j) ELSE g[j - 1]
  <2> HIDE DEF last
  <2> SUFFICES ASSUME NEW j \in 0 .. k
               PROVE  g[j] = IF j = 0 THEN <<>>
                             ELSE IF j \in streams THEN Append(g[j - 1], j) ELSE g[j - 1]
    OBVIOUS
  <2>1. CASE j = k
    <3>1. g[j] = last /\ g[j - 1] = f[k - 1]
      BY <1>3, <1>4, <2>1
    <3> QED BY <1>3, <2>1, <3>1 DEF last
  <2>2. CASE j # k
    <3>1. j \in 0 .. k - 1 /\ g[j] = f[j]
      BY <1>4, <2>2
    <3>2. j # 0 => g[j - 1] = f[j - 1]
      BY <1>4, <2>2
    <3>3. f[j] = IF j = 0 THEN <<>> ELSE IF j \in streams THEN Append(f[j - 1], j) ELSE f[j - 1]
      BY <1>5, <3>1 DEF Lists
    <3> HIDE DEF g
    <3> QED BY <3>1, <3>2, <3>3
  <2> QED BY <2>1, <2>2
<1>7. DOMAIN g = 0 .. k /\ g = [j \in 0 .. k |-> g[j]]
  OBVIOUS
<1> HIDE DEF g
<1>8. g = [j \in 0 .. k |-> IF j = 0 THEN <<>>
                            ELSE IF j \in streams THEN Append(g[j - 1], j) ELSE g[j - 1]]
  BY <1>6, <1>7
<1>9. Lists(g, streams, k)
  BY <1>8, Zenon DEF Lists
<1> QED BY <1>2, <1>9

\* One virtual stream more, above all of the list.
LEMMA AppendGreater ==
  ASSUME NEW k \in Nat \ {0}, NEW list \in Seq(1 .. k - 1), Distinct(list)
  PROVE  /\ Append(list, k) \in Seq(1 .. k) /\ Distinct(Append(list, k))
         /\ ToSet(Append(list, k)) = ToSet(list) \cup {k}
<1>1. PICK size \in Nat : size = Len(list) /\ DOMAIN list = 1 .. size
  OBVIOUS
<1>2. PICK more : more = Append(list, k)
  OBVIOUS
<1>3. \A n \in 1 .. size : list[n] \in 1 .. k - 1
  BY <1>1
<1>4. /\ DOMAIN more = 1 .. size + 1 /\ more[size + 1] = k
      /\ \A n \in 1 .. size : more[n] = list[n]
  BY <1>1, <1>2
<1>5. \A n \in 1 .. size + 1 : n \in 1 .. size \/ n = size + 1
  OBVIOUS
<1>6. more \in Seq(1 .. k)
  <2>1. \A n \in 1 .. size : list[n] \in 1 .. k
    BY <1>3
  <2>2. list \in Seq(1 .. k) /\ k \in 1 .. k
    BY <1>1, <2>1
  <2> QED BY <1>2, <2>2
<1>7. Distinct(more)
  <2> SUFFICES ASSUME NEW m \in 1 .. size + 1, NEW n \in 1 .. size + 1, more[m] = more[n]
               PROVE  m = n
    BY <1>4 DEF Distinct
  <2>1. \A j \in 1 .. size : more[j] # k
    BY <1>3, <1>4
  <2>2. CASE m \in 1 .. size /\ n \in 1 .. size
    BY <1>1, <1>4, <2>2 DEF Distinct
  <2>3. CASE ~ (m \in 1 .. size /\ n \in 1 .. size)
    BY <1>4, <1>5, <2>1, <2>3
  <2> QED BY <2>2, <2>3
<1>8. ToSet(more) = ToSet(list) \cup {k}
  BY <1>1, <1>4, <1>5 DEF ToSet
<1> QED BY <1>2, <1>6, <1>7, <1>8

\* The virtual streams in spawn order are all of them, each once.
LEMMA InSpawnOrderFacts ==
  ASSUME NEW streams
  PROVE  /\ InSpawnOrder(streams) \in Seq(Virtual) /\ Distinct(InSpawnOrder(streams))
         /\ ToSet(InSpawnOrder(streams)) = streams \cap Virtual
<1>1. PICK f : f = (CHOOSE g : Lists(g, streams, MaxSpawned))
  OBVIOUS
<1>2. MaxSpawned \in Nat /\ Lists(f, streams, MaxSpawned) /\ InSpawnOrder(streams) = f[MaxSpawned]
  BY <1>1, BoundsAssumption, ListsExists, ListIsChosen
<1>3. \A k \in 0 .. MaxSpawned :
         f[k] = IF k = 0 THEN <<>> ELSE IF k \in streams THEN Append(f[k - 1], k) ELSE f[k - 1]
  BY <1>2 DEF Lists
<1> DEFINE Right(k) == /\ f[k] \in Seq(1 .. k) /\ Distinct(f[k])
                       /\ ToSet(f[k]) = streams \cap (1 .. k)
           Bad      == {k \in 0 .. MaxSpawned : ~ Right(k)}
<1>4. ASSUME NEW k \in 1 .. MaxSpawned, Right(k - 1) PROVE Right(k)
  <2>1. k \in 0 .. MaxSpawned /\ k \in Nat \ {0} /\ 1 .. k = (1 .. k - 1) \cup {k}
    BY <1>2
  <2>2. PICK list \in Seq(1 .. k - 1) : list = f[k - 1]
    BY <1>4
  <2>3. CASE k \in streams
    <3>1. f[k] = Append(list, k)
      BY <1>3, <2>1, <2>2, <2>3
    <3>2. /\ Append(list, k) \in Seq(1 .. k) /\ Distinct(Append(list, k))
          /\ ToSet(Append(list, k)) = ToSet(list) \cup {k}
      BY <1>4, <2>1, <2>2, AppendGreater
    <3> QED BY <1>4, <2>1, <2>2, <2>3, <3>1, <3>2
  <2>4. CASE k \notin streams
    <3>1. f[k] = list
      BY <1>3, <2>1, <2>2, <2>4
    <3>2. \A n \in DOMAIN list : list[n] \in 1 .. k
      BY <2>1
    <3>3. list \in Seq(1 .. k)
      BY <3>2
    <3> QED BY <1>4, <2>1, <2>2, <2>4, <3>1, <3>3
  <2> QED BY <2>3, <2>4
<1>5. Right(0)
  <2>1. f[0] = <<>> /\ 1 .. 0 = {}
    BY <1>2, <1>3
  <2> QED BY <2>1 DEF Distinct, ToSet
<1>6. Bad = {}
  <2> SUFFICES ASSUME Bad # {} PROVE FALSE
    OBVIOUS
  <2>1. Bad \in SUBSET Nat
    BY <1>2
  <2>2. PICK k \in Bad : \A j \in Bad : k <= j
    BY <2>1, LeastNatural
  <2>3. k \in 1 .. MaxSpawned /\ k - 1 \in 0 .. MaxSpawned /\ ~ Right(k)
    <3>1. k \in 0 .. MaxSpawned /\ k # 0 /\ ~ Right(k)
      BY <1>5, <2>2
    <3> HIDE DEF Right
    <3> QED BY <1>2, <3>1
  <2>4. Right(k - 1)
    <3> HIDE DEF Right
    <3>1. k - 1 \notin Bad
      BY <2>1, <2>2, <2>3
    <3> QED BY <2>3, <3>1
  <2> HIDE DEF Right
  <2> QED BY <1>4, <2>3, <2>4
<1>7. Right(MaxSpawned)
  <2> HIDE DEF Right
  <2>1. MaxSpawned \in 0 .. MaxSpawned /\ MaxSpawned \notin Bad
    BY <1>2, <1>6
  <2> QED BY <2>1
<1> QED BY <1>2, <1>7 DEF Virtual

-----------------------------------------------------------------------------
(***************************************************************************)
(* What the processors say.                                                *)
(***************************************************************************)
OfStream(queue, v) == {m \in DOMAIN queue : queue[m].stream = v}

\* The frames of a virtual stream in the queue are those from one sequence id
\* up to another one, in their order.
FramesFrom(queue, v, from, next) ==
    /\ from <= next
    /\ {queue[m].seq : m \in OfStream(queue, v)} = from .. next - 1
    /\ \A m, n \in OfStream(queue, v) : m < n => queue[m].seq < queue[n].seq
    /\ \A m \in OfStream(queue, v) : queue[m].number = queue[m].seq + 1

\* While the loop runs, a virtual stream's frames in the queue follow those on
\* the wire, and what its processor said follows the frames.
Running == env \in {"up", "resetting"}

FramesFollow == \A v \in Virtual : Running => FramesFrom(physical, v, Len(wire[v]), nextSeq[v])

WireNumbered == \A v \in Virtual : \A n \in DOMAIN wire[v] :
                    wire[v][n].seq = n - 1 /\ wire[v][n].number = n

OutboxFollows ==
    \A v \in Virtual :
        /\ Len(outbox[v]) <= Capacity
        /\ \A n \in DOMAIN outbox[v] : outbox[v][n] = nextSeq[v] + n
        /\ proc[v] # "closed" => made[v] = nextSeq[v] + Len(outbox[v])
        /\ v > Len(name) => proc[v] = "unborn"

\* The frame in the hands of the loop is there.
PulledIsThere == pulled => physical # <<>>

\* The inductive invariant for the answers.
AInv == RelayTypeOK /\ FramesFollow /\ WireNumbered /\ OutboxFollows /\ PulledIsThere

\* One frame more at the end of the queue.
LEMMA FrameAppended ==
  ASSUME NEW queue \in Seq(Frames), NEW frame \in Frames, NEW v,
         NEW from \in Nat, NEW next \in Nat, FramesFrom(queue, v, from, next),
         frame.stream = v => frame.seq = next /\ frame.number = next + 1
  PROVE  /\ frame.stream = v => FramesFrom(Append(queue, frame), v, from, next + 1)
         /\ frame.stream # v => FramesFrom(Append(queue, frame), v, from, next)
<1>1. PICK size \in Nat : size = Len(queue) /\ DOMAIN queue = 1 .. size
  OBVIOUS
<1>2. PICK more : more = Append(queue, frame)
  OBVIOUS
<1>3. /\ DOMAIN more = 1 .. size + 1 /\ more[size + 1] = frame
      /\ \A n \in 1 .. size : more[n] = queue[n]
  BY <1>1, <1>2
<1>4. \A n \in 1 .. size + 1 : n \in 1 .. size \/ n = size + 1
  OBVIOUS
<1>5. CASE frame.stream = v
  <2>1. /\ OfStream(more, v) = OfStream(queue, v) \cup {size + 1}
        /\ OfStream(queue, v) \subseteq 1 .. size
    BY <1>1, <1>3, <1>4, <1>5 DEF OfStream
  <2>2. {more[m].seq : m \in OfStream(more, v)}
            = {queue[m].seq : m \in OfStream(queue, v)} \cup {next}
    BY <1>3, <1>5, <2>1
  <2>3. {more[m].seq : m \in OfStream(more, v)} = from .. next + 1 - 1
    <3>1. from <= next /\ {queue[m].seq : m \in OfStream(queue, v)} = from .. next - 1
      BY DEF FramesFrom
    <3>2. from .. next + 1 - 1 = (from .. next - 1) \cup {next}
      BY <3>1
    <3> QED BY <2>2, <3>1, <3>2
  <2>4. \A m \in OfStream(queue, v) : queue[m].seq \in from .. next - 1
    BY DEF FramesFrom
  <2>5. ASSUME NEW m \in OfStream(more, v), NEW n \in OfStream(more, v), m < n
        PROVE  more[m].seq < more[n].seq
    <3>1. m \in OfStream(queue, v) /\ m \in 1 .. size /\ more[m] = queue[m]
      BY <1>3, <1>4, <2>1, <2>5
    <3>2. CASE n = size + 1
      BY <1>3, <1>5, <2>4, <3>1, <3>2
    <3>3. CASE n # size + 1
      BY <1>3, <2>1, <2>5, <3>1, <3>3 DEF FramesFrom
    <3> QED BY <3>2, <3>3
  <2>6. \A m \in OfStream(more, v) : more[m].number = more[m].seq + 1
    BY <1>3, <1>5, <2>1 DEF FramesFrom
  <2>7. from <= next + 1
    BY DEF FramesFrom
  <2>8. FramesFrom(more, v, from, next + 1)
    BY <2>3, <2>5, <2>6, <2>7 DEF FramesFrom
  <2> QED BY <1>2, <1>5, <2>8
<1>6. CASE frame.stream # v
  <2>1. OfStream(more, v) = OfStream(queue, v) /\ \A m \in OfStream(queue, v) : more[m] = queue[m]
    BY <1>1, <1>3, <1>4, <1>6 DEF OfStream
  <2>2. FramesFrom(more, v, from, next)
    BY <2>1 DEF FramesFrom
  <2> QED BY <1>2, <1>6, <2>2
<1> QED BY <1>5, <1>6

\* The first frame of the queue is taken: of its stream it is the next one.
LEMMA FrameTaken ==
  ASSUME NEW queue \in Seq(Frames), queue # <<>>, NEW v, NEW from \in Nat, NEW next \in Nat,
         FramesFrom(queue, v, from, next)
  PROVE  /\ Head(queue).stream = v => /\ Head(queue).seq = from /\ Head(queue).number = from + 1
                                      /\ FramesFrom(Tail(queue), v, from + 1, next)
         /\ Head(queue).stream # v => FramesFrom(Tail(queue), v, from, next)
<1>1. PICK size \in Nat \ {0} : size = Len(queue) /\ DOMAIN queue = 1 .. size
  OBVIOUS
<1>2. PICK rest : rest = Tail(queue)
  OBVIOUS
<1>3. /\ DOMAIN rest = 1 .. size - 1 /\ Head(queue) = queue[1]
      /\ \A n \in 1 .. size - 1 : rest[n] = queue[n + 1]
  BY <1>1, <1>2
<1>4. \A n \in 1 .. size - 1 : n + 1 \in 1 .. size /\ n + 1 # 1
  OBVIOUS
<1>5. \A n \in 1 .. size : n # 1 => n - 1 \in 1 .. size - 1 /\ (n - 1) + 1 = n
  OBVIOUS
<1>6. /\ \A m \in OfStream(rest, v) : /\ m \in 1 .. size - 1 /\ rest[m] = queue[m + 1]
                                      /\ m + 1 \in OfStream(queue, v) /\ m + 1 # 1
      /\ \A n \in OfStream(queue, v) :
            n # 1 => n - 1 \in OfStream(rest, v) /\ queue[n] = rest[n - 1]
  BY <1>1, <1>3, <1>4, <1>5 DEF OfStream
<1>7. \A m \in OfStream(queue, v) : queue[m].seq \in from .. next - 1 /\ m \in 1 .. size
  BY <1>1 DEF FramesFrom, OfStream
<1>8. /\ \A m, n \in OfStream(rest, v) : m < n => rest[m].seq < rest[n].seq
      /\ \A m \in OfStream(rest, v) : rest[m].number = rest[m].seq + 1
  <2>1. ASSUME NEW m \in OfStream(rest, v), NEW n \in OfStream(rest, v), m < n
        PROVE  rest[m].seq < rest[n].seq
    <3>1. m + 1 < n + 1 /\ m + 1 \in OfStream(queue, v) /\ n + 1 \in OfStream(queue, v)
      BY <1>6, <2>1
    <3> QED BY <1>6, <3>1 DEF FramesFrom
  <2>2. ASSUME NEW m \in OfStream(rest, v) PROVE rest[m].number = rest[m].seq + 1
    BY <1>6 DEF FramesFrom
  <2> QED BY <2>1, <2>2
<1>9. CASE queue[1].stream = v
  <2>1. 1 \in OfStream(queue, v)
    BY <1>1, <1>9 DEF OfStream
  <2>2. \A n \in OfStream(queue, v) : n # 1 => queue[1].seq < queue[n].seq
    BY <1>7, <2>1 DEF FramesFrom
  <2>3. queue[1].seq = from
    <3>1. from \in from .. next - 1
      BY <1>7, <2>1
    <3>2. PICK n \in OfStream(queue, v) : queue[n].seq = from
      BY <3>1 DEF FramesFrom
    <3> QED BY <1>7, <2>1, <2>2, <3>2
  <2>4. from + 1 <= next
    BY <1>7, <2>1
  <2>5. {rest[m].seq : m \in OfStream(rest, v)} = from + 1 .. next - 1
    <3>1. ASSUME NEW m \in OfStream(rest, v) PROVE rest[m].seq \in from + 1 .. next - 1
      BY <1>6, <1>7, <2>2, <2>3
    <3>2. ASSUME NEW k \in from + 1 .. next - 1 PROVE \E m \in OfStream(rest, v) : rest[m].seq = k
      <4>1. k \in from .. next - 1 /\ k # from
        OBVIOUS
      <4>2. PICK n \in OfStream(queue, v) : queue[n].seq = k
        BY <4>1 DEF FramesFrom
      <4> QED BY <1>6, <2>3, <4>1, <4>2
    <3> QED BY <3>1, <3>2
  <2>6. FramesFrom(rest, v, from + 1, next)
    BY <1>8, <2>4, <2>5, Zenon DEF FramesFrom
  <2>7. queue[1].number = from + 1
    BY <2>1, <2>3 DEF FramesFrom
  <2> QED BY <1>2, <1>3, <1>9, <2>3, <2>6, <2>7
<1>10. CASE queue[1].stream # v
  <2>1. 1 \notin OfStream(queue, v)
    BY <1>10 DEF OfStream
  <2>2. {rest[m].seq : m \in OfStream(rest, v)} = {queue[m].seq : m \in OfStream(queue, v)}
    BY <1>6, <2>1
  <2>3. FramesFrom(rest, v, from, next)
    BY <1>8, <2>2 DEF FramesFrom
  <2> QED BY <1>2, <1>3, <1>10, <2>3
<1> QED BY <1>9, <1>10

\* How many frames there are.
LEMMA FrameCount ==
  ASSUME NEW queue \in Seq(Frames), NEW v, NEW from \in Nat, NEW next \in Nat,
         FramesFrom(queue, v, from, next)
  PROVE  Cardinality(OfStream(queue, v)) = next - from
<1> DEFINE f == [m \in OfStream(queue, v) |-> queue[m].seq]
<1>1. DOMAIN queue = 1 .. Len(queue) /\ Len(queue) \in Nat
  OBVIOUS
<1>2. OfStream(queue, v) \subseteq 1 .. Len(queue) /\ IsFiniteSet(1 .. Len(queue))
  BY <1>1, FS_Interval DEF OfStream
<1>3. IsFiniteSet(OfStream(queue, v))
  BY <1>2, FS_Subset
<1>4. f \in Bijection(OfStream(queue, v), from .. next - 1)
  <2>1. f \in [OfStream(queue, v) -> from .. next - 1]
    BY DEF FramesFrom
  <2>2. \A m, n \in OfStream(queue, v) : f[m] = f[n] => m = n
    <3> SUFFICES ASSUME NEW m \in OfStream(queue, v), NEW n \in OfStream(queue, v), f[m] = f[n]
                 PROVE  m = n
      OBVIOUS
    <3>1. m \in Int /\ n \in Int /\ f[m] \in Int
      BY <1>2, <2>1
    <3>2. ~ m < n /\ ~ n < m
      BY <3>1 DEF FramesFrom
    <3> QED BY <3>1, <3>2
  <2>3. \A k \in from .. next - 1 : \E m \in OfStream(queue, v) : f[m] = k
    BY DEF FramesFrom
  <2> QED BY <2>1, <2>2, <2>3 DEF Bijection, Injection, Surjection, IsInjective
<1>5. ExistsBijection(OfStream(queue, v), from .. next - 1)
  BY <1>4 DEF ExistsBijection
<1>6. Cardinality(OfStream(queue, v)) = Cardinality(from .. next - 1)
  BY <1>3, <1>5, FS_Bijection
<1>7. from <= next /\ Cardinality(from .. next - 1) = next - from
  <2>1. from <= next
    BY DEF FramesFrom
  <2>2. Cardinality(from .. next - 1) = IF from > next - 1 THEN 0 ELSE next - 1 - from + 1
    BY FS_Interval
  <2> QED BY <2>1, <2>2
<1> QED BY <1>6, <1>7

LEMMA AnswersInit == Init => AInv
<1> SUFFICES ASSUME Init PROVE AInv
  OBVIOUS
<1>1. MaxSpawned \in Nat /\ Capacity \in Nat \ {0} /\ \A v \in Virtual : v \in Nat
  BY BoundsAssumption DEF Virtual
<1>2. RelayTypeOK
  <2>1. /\ physical = <<>> /\ <<>> \in Seq(Frames) /\ Len(<<>>) <= Capacity
        /\ name = <<>> /\ <<>> \in Seq(Streams) /\ Len(<<>>) <= MaxSpawned
    BY <1>1 DEF Init
  <2>2. /\ env = "up" /\ victims = <<>> /\ victims \in Seq(Virtual) /\ pulled = FALSE
        /\ table \in [Streams -> Virtual \cup {0}] /\ received \in [Streams -> Nat]
        /\ wire \in [Virtual -> Seq(Frames)] /\ disconnected = {}
    BY DEF Init
  <2>3. /\ inbox \in [Virtual -> Seq(Nat)] /\ delivered \in [Virtual -> Seq(Nat)]
        /\ outbox \in [Virtual -> Seq(Nat)] /\ owed \in [Virtual -> Nat]
        /\ made \in [Virtual -> Nat] /\ nextSeq \in [Virtual -> Nat]
        /\ proc \in [Virtual -> {"unborn", "waiting", "routing", "draining", "stopping",
                                 "joining", "closed"}]
    BY DEF Init
  <2> QED BY <2>1, <2>2, <2>3 DEF RelayTypeOK
<1>3. FramesFollow
  <2>1. physical = <<>> /\ \A v \in Virtual : Len(wire[v]) = 0 /\ nextSeq[v] = 0
    BY DEF Init
  <2>2. \A v : OfStream(<<>>, v) = {} /\ 0 .. 0 - 1 = {}
    BY DEF OfStream
  <2> QED BY <2>1, <2>2 DEF FramesFollow, FramesFrom
<1>4. WireNumbered
  BY DEF Init, WireNumbered
<1>5. OutboxFollows
  <2> SUFFICES ASSUME NEW v \in Virtual
               PROVE  /\ Len(outbox[v]) <= Capacity
                      /\ \A n \in DOMAIN outbox[v] : outbox[v][n] = nextSeq[v] + n
                      /\ made[v] = nextSeq[v] + Len(outbox[v]) /\ proc[v] = "unborn"
    BY DEF OutboxFollows
  <2>1. outbox[v] = <<>> /\ made[v] = 0 /\ nextSeq[v] = 0 /\ proc[v] = "unborn"
    BY DEF Init
  <2> QED BY <1>1, <2>1
<1>6. PulledIsThere
  BY DEF Init, PulledIsThere
<1> QED BY <1>2, <1>3, <1>4, <1>5, <1>6 DEF AInv

\* A step that leaves the frames and what is said alone, and closes a processor
\* at most.
LEMMA QuietKeeps ==
  ASSUME AInv, RelayTypeOK', UNCHANGED <<physical, wire, made, outbox, nextSeq>>,
         Running' => Running, pulled' => pulled \/ physical # <<>>,
         \A v \in Virtual : /\ proc'[v] # "closed" => proc[v] # "closed"
                            /\ v > Len(name)' => proc'[v] = "unborn"
  PROVE  AInv'
<1>1. FramesFollow'
  <2> SUFFICES ASSUME NEW v \in Virtual, Running'
               PROVE  FramesFrom(physical', v, Len(wire'[v]), nextSeq'[v])
    BY DEF FramesFollow
  <2> QED BY DEF AInv, FramesFollow
<1>2. WireNumbered'
  BY DEF AInv, WireNumbered
<1>3. OutboxFollows'
  BY DEF AInv, OutboxFollows
<1>4. PulledIsThere'
  BY DEF AInv, PulledIsThere
<1> QED BY <1>1, <1>2, <1>3, <1>4 DEF AInv

\* A loop that disconnects has types and does not begin to run again.
LEMMA DisconnectTypes ==
  ASSUME RelayTypeOK, NEW list \in Seq(Virtual), NEW during, NEW afterwards,
         Disconnect(list, during, afterwards),
         {during, afterwards} \subseteq {"up", "resetting", "closing", "over"},
         table' \in [Streams -> Virtual \cup {0}], received' \in [Streams -> Nat],
         pulled' \in BOOLEAN, physical' \in Seq(Frames), Len(physical)' <= Capacity,
         UNCHANGED <<wire, name, proc, outVars>>
  PROVE  RelayTypeOK'
<1>1. /\ victims' \in Seq(Virtual) /\ env' \in {during, afterwards}
      /\ inbox' \in [Virtual -> Seq(Nat)] /\ delivered' \in [Virtual -> Seq(Nat)]
      /\ disconnected' \subseteq disconnected \cup ToSet(list)
  <2>1. env' = IF victims' = <<>> THEN afterwards ELSE during
    BY DisconnectFacts
  <2> QED BY <2>1, DisconnectFacts
<1>2. ToSet(list) \subseteq Virtual
  BY DEF ToSet
<1>3. disconnected' \subseteq Virtual
  BY <1>1, <1>2 DEF RelayTypeOK
<1> QED BY <1>1, <1>3 DEF RelayTypeOK, outVars

LEMMA EndOneKeeps ==
  ASSUME AInv, NEW s \in Streams, Overflow(s) \/ Reset(s)
  PROVE  AInv'
<1>1. PICK v \in Virtual : v = table[s]
  BY DEF AInv, RelayTypeOK, Overflow, Reset
<1>2. /\ env = "up" /\ Disconnect(<<v>>, "resetting", "up")
      /\ table' = [table EXCEPT ![s] = 0]
      /\ received' = received \/ received' = [received EXCEPT ![s] = @ + 1]
      /\ UNCHANGED <<name, transportVars, proc, outVars>>
  BY <1>1 DEF Overflow, Reset, Receives
<1>3. /\ table' \in [Streams -> Virtual \cup {0}] /\ received' \in [Streams -> Nat]
  <2>1. table \in [Streams -> Virtual \cup {0}] /\ received \in [Streams -> Nat]
    BY DEF AInv, RelayTypeOK
  <2>2. [received EXCEPT ![s] = @ + 1] \in [Streams -> Nat]
    BY <2>1
  <2> QED BY <1>2, <2>1, <2>2
<1>4. RelayTypeOK /\ <<v>> \in Seq(Virtual)
  BY DEF AInv
<1>5. pulled' \in BOOLEAN /\ physical' \in Seq(Frames) /\ Len(physical)' <= Capacity
  BY <1>2, <1>4 DEF RelayTypeOK, transportVars
<1>6. RelayTypeOK'
  BY <1>2, <1>3, <1>4, <1>5, DisconnectTypes DEF transportVars
<1>7. \A w \in Virtual : w > Len(name) => proc[w] = "unborn"
  BY DEF AInv, OutboxFollows
<1> QED BY <1>2, <1>6, <1>7, QuietKeeps DEF transportVars, outVars, Running

LEMMA SpawnOrderTyped == InSpawnOrder({table[s] : s \in Streams}) \in Seq(Virtual)
<1>1. PICK streams : streams = {table[s] : s \in Streams}
  OBVIOUS
<1> QED BY <1>1, InSpawnOrderFacts

\* The loop ends and disconnects all streams.
LEMMA FinallyKeeps ==
  ASSUME AInv, Finally, pulled' \in BOOLEAN, physical' \in Seq(Frames), Len(physical)' <= Capacity,
         PulledIsThere', UNCHANGED <<wire, table, received, name, proc, outVars>>
  PROVE  AInv'
<1>1. PICK list \in Seq(Virtual) : list = InSpawnOrder({table[s] : s \in Streams})
  BY SpawnOrderTyped
<1>2. RelayTypeOK /\ Disconnect(list, "closing", "over")
  BY <1>1 DEF AInv, Finally
<1>3. table' \in [Streams -> Virtual \cup {0}] /\ received' \in [Streams -> Nat]
  BY <1>2 DEF RelayTypeOK
<1>4. RelayTypeOK'
  BY <1>2, <1>3, DisconnectTypes
<1>5. env' = IF victims' = <<>> THEN "over" ELSE "closing"
  BY <1>2, DisconnectFacts
<1>6. FramesFollow'
  BY <1>5 DEF FramesFollow, Running
<1>7. WireNumbered'
  BY DEF AInv, WireNumbered
<1>8. OutboxFollows'
  BY DEF AInv, OutboxFollows, outVars
<1> QED BY <1>4, <1>6, <1>7, <1>8 DEF AInv

LEMMA ResumeKeeps == ASSUME AInv, DisconnectResumes PROVE AInv'
<1>1. PICK list \in Seq(Virtual) : list = victims
  BY DEF AInv, RelayTypeOK
<1>2. PICK during : during = env
  OBVIOUS
<1>3. PICK afterwards : afterwards = IF env = "resetting" THEN "up" ELSE "over"
  OBVIOUS
<1>4. /\ Disconnect(list, during, afterwards)
      /\ UNCHANGED <<table, received, name, transportVars, proc, outVars>>
  BY <1>1, <1>2, <1>3 DEF DisconnectResumes
<1>5. RelayTypeOK /\ {during, afterwards} \subseteq {"up", "resetting", "closing", "over"}
  BY <1>2, <1>3 DEF AInv, RelayTypeOK
<1>6. /\ table' \in [Streams -> Virtual \cup {0}] /\ received' \in [Streams -> Nat]
      /\ pulled' \in BOOLEAN /\ physical' \in Seq(Frames) /\ Len(physical)' <= Capacity
  BY <1>4, <1>5 DEF RelayTypeOK, transportVars
<1>7. RelayTypeOK'
  BY <1>4, <1>5, <1>6, DisconnectTypes DEF transportVars
<1>8. env' = IF victims' = <<>> THEN afterwards ELSE during
  BY <1>4, <1>5, DisconnectFacts
<1>9. Running' => Running
  BY <1>2, <1>3, <1>8 DEF Running
<1>10. \A w \in Virtual : w > Len(name) => proc[w] = "unborn"
  BY DEF AInv, OutboxFollows
<1> QED BY <1>4, <1>7, <1>9, <1>10, QuietKeeps DEF transportVars, outVars

\* A message that is put on a queue, and a processor that is spawned for it.
LEMMA DataKeeps == ASSUME AInv, NEW s \in Streams, Data(s) PROVE AInv'
<1>1. PICK v \in Virtual : v = IF table[s] = 0 THEN Len(name) + 1 ELSE table[s]
  BY DEF Data
<1>2. /\ received' = [received EXCEPT ![s] = @ + 1] /\ table' = [table EXCEPT ![s] = v]
      /\ name' = IF table[s] = 0 THEN Append(name, s) ELSE name
      /\ proc' = IF table[s] = 0 THEN [proc EXCEPT ![v] = "waiting"] ELSE proc
      /\ inbox' = [inbox EXCEPT ![v] = Append(@, received[s] + 1)]
      /\ delivered' = [delivered EXCEPT ![v] = Append(@, received[s] + 1)]
      /\ UNCHANGED <<env, victims, disconnected, transportVars, outVars>>
  BY <1>1 DEF Data
<1>3. RelayTypeOK /\ MaxSpawned \in Nat
  BY BoundsAssumption DEF AInv
<1>4. PICK more \in Nat : more = received[s] + 1
  BY <1>3 DEF RelayTypeOK
<1>5. /\ table' \in [Streams -> Virtual \cup {0}] /\ received' \in [Streams -> Nat]
      /\ inbox' \in [Virtual -> Seq(Nat)] /\ delivered' \in [Virtual -> Seq(Nat)]
      /\ proc' \in [Virtual -> {"unborn", "waiting", "routing", "draining", "stopping",
                               "joining", "closed"}]
  <2>1. table' \in [Streams -> Virtual \cup {0}]
    BY <1>2, <1>3 DEF RelayTypeOK
  <2>2. received' \in [Streams -> Nat]
    BY <1>2, <1>3, <1>4 DEF RelayTypeOK
  <2>3. inbox' \in [Virtual -> Seq(Nat)] /\ delivered' \in [Virtual -> Seq(Nat)]
    <3>1. inbox \in [Virtual -> Seq(Nat)] /\ delivered \in [Virtual -> Seq(Nat)]
      BY <1>3 DEF RelayTypeOK
    <3>2. /\ inbox' = [inbox EXCEPT ![v] = Append(inbox[v], more)]
          /\ delivered' = [delivered EXCEPT ![v] = Append(delivered[v], more)]
      BY <1>2, <1>4
    <3>3. Append(inbox[v], more) \in Seq(Nat) /\ Append(delivered[v], more) \in Seq(Nat)
      BY <3>1
    <3> QED BY <3>1, <3>2, <3>3
  <2>4. proc' \in [Virtual -> {"unborn", "waiting", "routing", "draining", "stopping",
                              "joining", "closed"}]
    BY <1>2, <1>3 DEF RelayTypeOK
  <2> QED BY <2>1, <2>2, <2>3, <2>4
<1>6. /\ name' \in Seq(Streams) /\ Len(name') <= MaxSpawned /\ Len(name) <= Len(name')
      /\ table[s] = 0 => Len(name') = Len(name) + 1
  BY <1>1, <1>2, <1>3 DEF RelayTypeOK, Virtual
<1>7. RelayTypeOK'
  BY <1>2, <1>3, <1>5, <1>6 DEF RelayTypeOK, transportVars, outVars
<1>8. ASSUME NEW w \in Virtual
      PROVE  (proc'[w] # "closed" => proc[w] # "closed") /\ (w > Len(name)' => proc'[w] = "unborn")
  <2>1. w > Len(name) => proc[w] = "unborn"
    BY DEF AInv, OutboxFollows
  <2>2. w \in Nat /\ Len(name) \in Nat /\ Len(name') \in Nat
    BY <1>3, <1>6 DEF Virtual, RelayTypeOK
  <2>3. CASE table[s] = 0
    <3>1. v = Len(name) + 1 /\ proc[v] = "unborn"
      <4>1. v = Len(name) + 1 /\ v > Len(name)
        BY <1>1, <2>2, <2>3
      <4> QED BY <4>1 DEF AInv, OutboxFollows
    <3>2. w # v => proc'[w] = proc[w]
      BY <1>2
    <3> QED BY <1>6, <2>1, <2>2, <2>3, <3>1, <3>2
  <2>4. CASE table[s] # 0
    BY <1>2, <2>1, <2>4
  <2> QED BY <2>3, <2>4
<1> QED BY <1>2, <1>7, <1>8, QuietKeeps DEF transportVars, outVars, Running

\* The loop's task takes a frame, and a processor takes a message.
LEMMA TakeKeeps ==
  ASSUME AInv, Pull \/ \E v \in Virtual : TakeMessage(v)
  PROVE  AInv'
<1>1. RelayTypeOK /\ \A w \in Virtual : w > Len(name) => proc[w] = "unborn"
  BY DEF AInv, OutboxFollows
<1>2. CASE Pull
  <2>1. /\ pulled' = TRUE
        /\ UNCHANGED <<loopVars, physical, wire, inVars, proc, outVars>>
    BY <1>2 DEF Pull
  <2>2. RelayTypeOK'
    BY <1>1, <2>1 DEF RelayTypeOK, loopVars, inVars, outVars
  <2>3. physical # <<>>
    BY <1>2 DEF Pull
  <2> QED BY <1>1, <2>1, <2>2, <2>3, QuietKeeps DEF outVars, loopVars, Running
<1>3. ASSUME NEW v \in Virtual, TakeMessage(v) PROVE AInv'
  <2>1. PICK where \in {"joining", "routing"} : proc' = [proc EXCEPT ![v] = where]
    BY <1>3 DEF TakeMessage, Goto
  <2>2. /\ proc[v] = "waiting" /\ inbox[v] # <<>> /\ inbox' = [inbox EXCEPT ![v] = Tail(@)]
        /\ UNCHANGED <<loopVars, transportVars, delivered, disconnected, outVars>>
    BY <1>3 DEF TakeMessage
  <2>3. Tail(inbox[v]) \in Seq(Nat)
    BY <1>1, <2>2 DEF RelayTypeOK
  <2>4. RelayTypeOK'
    BY <1>1, <2>1, <2>2, <2>3 DEF RelayTypeOK, loopVars, transportVars, outVars
  <2>5. ASSUME NEW w \in Virtual
        PROVE  /\ proc'[w] # "closed" => proc[w] # "closed"
               /\ w > Len(name)' => proc'[w] = "unborn"
    BY <1>1, <2>1, <2>2 DEF RelayTypeOK, loopVars
  <2> QED BY <2>2, <2>4, <2>5, QuietKeeps DEF outVars, loopVars, transportVars, Running
<1> QED BY <1>2, <1>3

LEMMA LeastOfTwo == \A m, n \in Nat : Min({m, n}) = IF m <= n THEN m ELSE n
<1> SUFFICES ASSUME NEW m \in Nat, NEW n \in Nat PROVE Min({m, n}) = IF m <= n THEN m ELSE n
  OBVIOUS
<1>1. PICK least \in {m, n} : \A y \in {m, n} : least <= y
  <2>1. CASE m <= n
    BY <2>1
  <2>2. CASE ~ m <= n
    BY <2>2
  <2> QED BY <2>1, <2>2
<1>2. PICK chosen : chosen = Min({m, n})
  OBVIOUS
<1>3. chosen \in {m, n} /\ \A y \in {m, n} : chosen <= y
  BY <1>1, <1>2, Zenon DEF Min
<1> QED BY <1>2, <1>3

\* A processor goes on where it put, or waits to put, what it says.
LEMMA PutKeeps ==
  ASSUME AInv, NEW v \in Virtual, NEW count \in Nat, NEW goesOn \in BOOLEAN, Put(v, count, goesOn),
         proc[v] \notin {"unborn", "closed"},
         UNCHANGED <<loopVars, transportVars, inVars, nextSeq>>
  PROVE  AInv'
<1>1. RelayTypeOK /\ OutboxFollows /\ Capacity \in Nat
  BY BoundsAssumption DEF AInv
<1>2. PICK queue \in Seq(Nat) : queue = outbox[v]
  BY <1>1 DEF RelayTypeOK
<1>3. PICK size \in Nat : size = Len(queue) /\ DOMAIN queue = 1 .. size
  OBVIOUS
<1>4. PICK said \in Nat : said = made[v]
  BY <1>1 DEF RelayTypeOK
<1>5. size <= Capacity /\ Capacity - size \in Nat
  BY <1>1, <1>2, <1>3 DEF OutboxFollows
<1>6. PICK fits \in Nat : /\ fits = Min({count, Capacity - size})
                         /\ fits <= count /\ fits + size <= Capacity
  <2>1. PICK room \in Nat : room = Capacity - size
    BY <1>5
  <2>2. Min({count, room}) = IF count <= room THEN count ELSE room
    BY LeastOfTwo
  <2>3. PICK least : least = Min({count, room})
    OBVIOUS
  <2>4. least \in Nat /\ least <= count /\ least <= room
    BY <2>2, <2>3
  <2>5. least + size <= Capacity
    BY <1>1, <2>1, <2>4
  <2> QED BY <2>1, <2>3, <2>4, <2>5
<1>7. PICK more : more = queue \o [n \in 1 .. fits |-> said + n]
  OBVIOUS
<1>8. PICK where \in {"waiting", "draining", "joining", "stopping"} : Goto(v, where)
  <2>1. \E where : /\ Goto(v, where)
                   /\ where = CASE count = fits /\ goesOn -> "waiting"
                                [] count > fits /\ goesOn -> "draining"
                                [] count = fits           -> "joining"
                                [] OTHER                  -> "stopping"
    BY <1>2, <1>3, <1>6 DEF Put
  <2>2. count = fits \/ count > fits
    BY <1>6
  <2>3. PICK where : /\ Goto(v, where)
                     /\ where = CASE count = fits /\ goesOn -> "waiting"
                                  [] count > fits /\ goesOn -> "draining"
                                  [] count = fits           -> "joining"
                                  [] OTHER                  -> "stopping"
    BY <2>1
  <2>4. where \in {"waiting", "draining", "joining", "stopping"}
    BY <2>2, <2>3
  <2> QED BY <2>3, <2>4
<1>9. /\ outbox' = [outbox EXCEPT ![v] = more] /\ made' = [made EXCEPT ![v] = said + fits]
      /\ owed' = [owed EXCEPT ![v] = count - fits] /\ proc' = [proc EXCEPT ![v] = where]
  BY <1>2, <1>3, <1>4, <1>6, <1>7, <1>8 DEF Put, Goto
<1>10. PICK tail : tail = [n \in 1 .. fits |-> said + n]
  OBVIOUS
<1>11. /\ more \in Seq(Nat) /\ Len(more) = size + fits /\ DOMAIN more = 1 .. size + fits
       /\ \A n \in 1 .. size : more[n] = queue[n]
       /\ \A n \in 1 .. size + fits : n \notin 1 .. size => more[n] = said + (n - size)
  <2>1. DOMAIN tail = 1 .. fits /\ \A n \in 1 .. fits : tail[n] = said + n /\ tail[n] \in Nat
    BY <1>6, <1>10
  <2>2. tail \in [1 .. fits -> Nat]
    BY <1>10, <2>1
  <2>3. tail \in Seq(Nat)
    <3>1. tail \in UNION {[1 .. n -> Nat] : n \in Nat}
      BY <2>2
    <3> QED BY <3>1, SeqDef
  <2>4. Len(tail) = fits
    BY <2>1, <2>3, LenProperties
  <2>5. more = queue \o tail
    BY <1>7, <1>10
  <2>6. /\ more \in Seq(Nat) /\ Len(more) = size + fits
        /\ \A n \in 1 .. size + fits : more[n] = IF n <= size THEN queue[n] ELSE tail[n - size]
    <3>1. /\ queue \o tail \in Seq(Nat) /\ Len(queue \o tail) = Len(queue) + Len(tail)
          /\ \A n \in 1 .. Len(queue) + Len(tail) :
                (queue \o tail)[n] = IF n <= Len(queue) THEN queue[n] ELSE tail[n - Len(queue)]
      BY <2>3, ConcatProperties, Zenon
    <3> QED BY <1>3, <2>4, <2>5, <3>1
  <2>7. \A n \in 1 .. size + fits : n \notin 1 .. size => n - size \in 1 .. fits /\ ~ n <= size
    BY <1>6
  <2>8. \A n \in 1 .. size : n \in 1 .. size + fits /\ n <= size
    BY <1>6
  <2>9. DOMAIN more = 1 .. size + fits
    BY <2>6
  <2> QED BY <2>1, <2>6, <2>7, <2>8, <2>9
<1>12. count - fits \in Nat
  BY <1>6
<1>13. RelayTypeOK'
  <2>1. outbox' \in [Virtual -> Seq(Nat)]
    BY <1>1, <1>9, <1>11 DEF RelayTypeOK
  <2>2. made' \in [Virtual -> Nat]
    BY <1>1, <1>9 DEF RelayTypeOK
  <2>3. owed' \in [Virtual -> Nat]
    BY <1>1, <1>9, <1>12 DEF RelayTypeOK
  <2>4. proc' \in [Virtual -> {"unborn", "waiting", "routing", "draining", "stopping",
                              "joining", "closed"}]
    BY <1>1, <1>9 DEF RelayTypeOK
  <2>5. UNCHANGED <<env, table, victims, received, name, pulled, physical, wire, inbox,
                    delivered, disconnected, nextSeq>>
    BY DEF loopVars, transportVars, inVars
  <2> QED BY <1>1, <2>1, <2>2, <2>3, <2>4, <2>5 DEF RelayTypeOK
<1>14. OutboxFollows'
  <2> SUFFICES ASSUME NEW w \in Virtual
               PROVE  /\ Len(outbox'[w]) <= Capacity
                      /\ \A n \in DOMAIN outbox'[w] : outbox'[w][n] = nextSeq[w] + n
                      /\ proc'[w] # "closed" => made'[w] = nextSeq[w] + Len(outbox'[w])
                      /\ w > Len(name) => proc'[w] = "unborn"
    BY DEF OutboxFollows, loopVars
  <2>1. CASE w # v
    BY <1>1, <1>9, <2>1 DEF OutboxFollows
  <2>2. CASE w = v
    <3>1. outbox'[v] = more /\ made'[v] = said + fits /\ proc'[v] = where
      BY <1>1, <1>9 DEF RelayTypeOK
    <3>2. said = nextSeq[v] + size /\ nextSeq[v] \in Nat /\ ~ v > Len(name)
      BY <1>1, <1>2, <1>3, <1>4 DEF OutboxFollows, RelayTypeOK
    <3>3. ASSUME NEW n \in 1 .. size + fits PROVE more[n] = nextSeq[v] + n
      <4>1. CASE n \in 1 .. size
        BY <1>1, <1>2, <1>3, <1>11, <4>1, SMTT(20) DEF OutboxFollows
      <4>2. CASE n \notin 1 .. size
        BY <1>11, <3>2, <4>2, SMTT(20)
      <4> QED BY <4>1, <4>2
    <3>4. Len(more) <= Capacity /\ said + fits = nextSeq[v] + Len(more)
      BY <1>1, <1>6, <1>11, <3>2
    <3> QED BY <1>11, <2>2, <3>1, <3>2, <3>3, <3>4
  <2> QED BY <2>1, <2>2
<1>15. FramesFollow'
  BY DEF AInv, FramesFollow, Running, loopVars, transportVars
<1>16. WireNumbered'
  BY DEF AInv, WireNumbered, transportVars
<1>17. PulledIsThere'
  BY DEF AInv, PulledIsThere, transportVars
<1> QED BY <1>13, <1>14, <1>15, <1>16, <1>17 DEF AInv

LEMMA ProcessorKeeps ==
  ASSUME AInv, NEW v \in Virtual, RouteEnds(v) \/ RouteBreaks(v) \/ PutResumes(v)
  PROVE  AInv'
<1>1. /\ RelayTypeOK /\ \A notices \in Notices : notices \in Nat /\ 1 + notices \in Nat
      /\ owed[v] \in Nat
  <2>1. \A notices \in Notices : notices \in Nat
    BY BoundsAssumption
  <2> QED BY <2>1 DEF AInv, RelayTypeOK
<1>2. CASE RouteEnds(v)
  <2>1. PICK notices \in Notices : Put(v, 1 + notices, TRUE)
    BY <1>2 DEF RouteEnds
  <2>2. /\ proc[v] \notin {"unborn", "closed"}
        /\ UNCHANGED <<loopVars, transportVars, inVars, nextSeq>>
    BY <1>2 DEF RouteEnds
  <2>3. PICK count \in Nat : count = 1 + notices
    BY <1>1
  <2> QED BY <2>1, <2>2, <2>3, PutKeeps
<1>3. CASE RouteBreaks(v)
  <2>1. PICK notices \in Notices : Put(v, notices, FALSE)
    BY <1>3 DEF RouteBreaks
  <2>2. /\ proc[v] \notin {"unborn", "closed"}
        /\ UNCHANGED <<loopVars, transportVars, inVars, nextSeq>>
    BY <1>3 DEF RouteBreaks
  <2> QED BY <1>1, <2>1, <2>2, PutKeeps
<1>4. CASE PutResumes(v)
  <2>1. PICK count \in Nat : count = owed[v]
    BY <1>1
  <2>2. PICK goesOn \in BOOLEAN : goesOn = (proc[v] = "draining")
    OBVIOUS
  <2>3. /\ Put(v, count, goesOn) /\ proc[v] \notin {"unborn", "closed"}
        /\ UNCHANGED <<loopVars, transportVars, inVars, nextSeq>>
    BY <1>4, <2>1, <2>2 DEF PutResumes
  <2> QED BY <2>3, PutKeeps
<1> QED BY <1>2, <1>3, <1>4

\* The writer of a closed connection is cancelled.
LEMMA CloseConnectionKeeps ==
  ASSUME AInv, NEW v \in Virtual, CloseConnection(v)
  PROVE  AInv'
<1>1. /\ proc[v] = "joining" /\ proc' = [proc EXCEPT ![v] = "closed"]
      /\ outbox' = [outbox EXCEPT ![v] = <<>>]
      /\ UNCHANGED <<loopVars, transportVars, inVars, owed, made, nextSeq>>
  BY DEF CloseConnection, Goto
<1>2. RelayTypeOK /\ OutboxFollows /\ Capacity \in Nat
  BY BoundsAssumption DEF AInv
<1>3. RelayTypeOK'
  BY <1>1, <1>2 DEF RelayTypeOK, loopVars, transportVars, inVars
<1>4. OutboxFollows'
  <2> SUFFICES ASSUME NEW w \in Virtual
               PROVE  /\ Len(outbox'[w]) <= Capacity
                      /\ \A n \in DOMAIN outbox'[w] : outbox'[w][n] = nextSeq[w] + n
                      /\ proc'[w] # "closed" => made[w] = nextSeq[w] + Len(outbox'[w])
                      /\ w > Len(name) => proc'[w] = "unborn"
    BY <1>1 DEF OutboxFollows, loopVars
  <2>1. CASE w # v
    BY <1>1, <1>2, <2>1 DEF OutboxFollows
  <2>2. CASE w = v
    <3>1. outbox'[v] = <<>> /\ proc'[v] = "closed" /\ ~ v > Len(name)
      BY <1>1, <1>2 DEF RelayTypeOK, OutboxFollows
    <3> QED BY <1>2, <2>2, <3>1
  <2> QED BY <2>1, <2>2
<1>5. FramesFollow'
  BY <1>1 DEF AInv, FramesFollow, Running, loopVars, transportVars
<1>6. WireNumbered'
  BY <1>1 DEF AInv, WireNumbered, transportVars
<1>7. PulledIsThere'
  BY <1>1 DEF AInv, PulledIsThere, transportVars
<1> QED BY <1>3, <1>4, <1>5, <1>6, <1>7 DEF AInv

\* The writer numbers what its processor said next and puts it with the frames.
LEMMA WriteKeeps == ASSUME AInv, NEW v \in Virtual, Write(v) PROVE AInv'
<1>1. RelayTypeOK /\ OutboxFollows /\ FramesFollow /\ Capacity \in Nat
  BY BoundsAssumption DEF AInv
<1>2. PICK queue \in Seq(Nat) : queue = outbox[v] /\ queue # <<>>
  BY <1>1 DEF RelayTypeOK, Write
<1>3. PICK size \in Nat \ {0} : size = Len(queue) /\ DOMAIN queue = 1 .. size
  BY <1>2
<1>4. PICK next \in Nat : next = nextSeq[v]
  BY <1>1 DEF RelayTypeOK
<1>5. /\ Head(queue) = next + 1 /\ Head(queue) \in Nat
  <2>1. Head(queue) = queue[1] /\ 1 \in DOMAIN queue /\ queue[1] \in Nat
    BY <1>2, <1>3
  <2> QED BY <1>1, <1>2, <1>4, <2>1 DEF OutboxFollows
<1>6. PICK frame \in Frames : frame = [stream |-> v, seq |-> next, number |-> next + 1]
  <2>1. [stream |-> v, seq |-> next, number |-> next + 1] \in Frames
    BY DEF Frames
  <2> QED BY <2>1, Zenon
<1>7. PICK frames \in Seq(Frames) : frames = physical /\ Len(frames) < Capacity
  BY <1>1 DEF RelayTypeOK, Write, Full
<1>8. PICK rest : rest = Tail(queue)
  OBVIOUS
<1>9. /\ physical' = Append(frames, frame)
      /\ nextSeq' = [nextSeq EXCEPT ![v] = next + 1] /\ outbox' = [outbox EXCEPT ![v] = rest]
      /\ UNCHANGED <<loopVars, pulled, wire, inVars, proc, owed, made>>
  BY <1>2, <1>4, <1>5, <1>6, <1>7, <1>8 DEF Write
<1>10. /\ rest \in Seq(Nat) /\ Len(rest) = size - 1 /\ DOMAIN rest = 1 .. size - 1
       /\ \A n \in 1 .. size - 1 : rest[n] = queue[n + 1]
  BY <1>2, <1>3, <1>8
<1>11. Append(frames, frame) \in Seq(Frames) /\ Len(Append(frames, frame)) <= Capacity
  BY <1>1, <1>7
<1>12. RelayTypeOK'
  <2>1. physical' \in Seq(Frames) /\ Len(physical') <= Capacity
    BY <1>9, <1>11
  <2>2. nextSeq' \in [Virtual -> Nat]
    BY <1>1, <1>9 DEF RelayTypeOK
  <2>3. outbox' \in [Virtual -> Seq(Nat)]
    BY <1>1, <1>9, <1>10 DEF RelayTypeOK
  <2>4. UNCHANGED <<env, table, victims, received, name, pulled, wire, inbox, delivered,
                    disconnected, proc, owed, made>>
    BY <1>9 DEF loopVars, inVars
  <2> QED BY <1>1, <2>1, <2>2, <2>3, <2>4 DEF RelayTypeOK
<1>13. OutboxFollows'
  <2> SUFFICES ASSUME NEW w \in Virtual
               PROVE  /\ Len(outbox'[w]) <= Capacity
                      /\ \A n \in DOMAIN outbox'[w] : outbox'[w][n] = nextSeq'[w] + n
                      /\ proc[w] # "closed" => made[w] = nextSeq'[w] + Len(outbox'[w])
                      /\ w > Len(name) => proc[w] = "unborn"
    BY <1>9 DEF OutboxFollows, loopVars
  <2>1. CASE w # v
    BY <1>1, <1>9, <2>1 DEF OutboxFollows
  <2>2. CASE w = v
    <3>1. outbox'[v] = rest /\ nextSeq'[v] = next + 1
      BY <1>1, <1>9 DEF RelayTypeOK
    <3>2. ASSUME NEW n \in 1 .. size - 1 PROVE rest[n] = next + 1 + n
      <4>1. n + 1 \in DOMAIN queue /\ rest[n] = queue[n + 1]
        BY <1>3, <1>10
      <4>2. queue[n + 1] = next + (n + 1)
        BY <1>1, <1>2, <1>4, <4>1 DEF OutboxFollows
      <4> QED BY <4>1, <4>2
    <3>3. /\ size <= Capacity
          /\ proc[v] # "closed" => made[v] = next + size
          /\ v > Len(name) => proc[v] = "unborn"
      BY <1>1, <1>2, <1>3, <1>4 DEF OutboxFollows
    <3>4. /\ Len(rest) <= Capacity
          /\ \A n \in DOMAIN rest : rest[n] = next + 1 + n
          /\ proc[v] # "closed" => made[v] = next + 1 + Len(rest)
      BY <1>1, <1>3, <1>10, <3>2, <3>3
    <3> QED BY <2>2, <3>1, <3>3, <3>4
  <2> QED BY <2>1, <2>2
<1>14. FramesFollow'
  <2> SUFFICES ASSUME NEW w \in Virtual, Running
               PROVE  FramesFrom(physical', w, Len(wire[w]), nextSeq'[w])
    BY <1>9 DEF FramesFollow, Running, loopVars
  <2>1. PICK from \in Nat : from = Len(wire[w])
    BY <1>1 DEF RelayTypeOK
  <2>2. PICK upTo \in Nat : upTo = nextSeq[w]
    BY <1>1 DEF RelayTypeOK
  <2>3. FramesFrom(frames, w, from, upTo)
    BY <1>1, <1>7, <2>1, <2>2 DEF FramesFollow
  <2>4. frame.stream = v /\ frame.seq = next /\ frame.number = next + 1
    BY <1>6
  <2>5. CASE w = v
    <3>1. FramesFrom(Append(frames, frame), w, from, upTo + 1)
      BY <1>4, <2>2, <2>3, <2>4, <2>5, FrameAppended
    <3>2. nextSeq'[w] = upTo + 1
      BY <1>1, <1>4, <1>9, <2>2, <2>5 DEF RelayTypeOK
    <3> QED BY <1>9, <2>1, <3>1, <3>2
  <2>6. CASE w # v
    <3>1. FramesFrom(Append(frames, frame), w, from, upTo)
      BY <2>3, <2>4, <2>6, FrameAppended
    <3>2. nextSeq'[w] = upTo
      BY <1>1, <1>9, <2>2, <2>6 DEF RelayTypeOK
    <3> QED BY <1>9, <2>1, <3>1, <3>2
  <2> QED BY <2>5, <2>6
<1>15. WireNumbered'
  BY <1>9 DEF AInv, WireNumbered
<1>16. PulledIsThere'
  <2>1. Append(frames, frame) # <<>>
    BY <1>7
  <2> QED BY <1>9, <2>1 DEF PulledIsThere
<1> QED BY <1>12, <1>13, <1>14, <1>15, <1>16 DEF AInv

\* The frame that is sent is the next one of its stream.
LEMMA SendKeeps == ASSUME AInv, Send PROVE AInv'
<1>1. RelayTypeOK /\ OutboxFollows /\ FramesFollow /\ WireNumbered /\ Capacity \in Nat
  BY BoundsAssumption DEF AInv
<1>2. PICK frames \in Seq(Frames) : frames = physical /\ frames # <<>> /\ Len(frames) <= Capacity
  BY <1>1 DEF RelayTypeOK, AInv, PulledIsThere, Send
<1>3. PICK frame \in Frames : frame = Head(frames)
  BY <1>2
<1>4. PICK v \in Virtual : v = frame.stream
  BY DEF Frames
<1>5. PICK sent \in Seq(Frames) : sent = wire[v]
  BY <1>1 DEF RelayTypeOK
<1>6. PICK size \in Nat : size = Len(sent) /\ DOMAIN sent = 1 .. size
  OBVIOUS
<1>7. /\ Running /\ physical' = Tail(frames) /\ wire' = [wire EXCEPT ![v] = Append(sent, frame)]
      /\ pulled' = FALSE /\ UNCHANGED <<loopVars, inVars, proc, outVars>>
  BY <1>2, <1>3, <1>4, <1>5 DEF Send, Running
<1>8. /\ Tail(frames) \in Seq(Frames) /\ Len(Tail(frames)) <= Capacity
      /\ Append(sent, frame) \in Seq(Frames)
  BY <1>1, <1>2
<1>9. ASSUME NEW w \in Virtual
      PROVE  /\ w = v => /\ frame.seq = size /\ frame.number = size + 1
                         /\ FramesFrom(Tail(frames), w, size + 1, nextSeq[w])
             /\ w # v => FramesFrom(Tail(frames), w, Len(wire[w]), nextSeq[w])
  <2>1. PICK from \in Nat : from = Len(wire[w])
    BY <1>1 DEF RelayTypeOK
  <2>2. PICK upTo \in Nat : upTo = nextSeq[w]
    BY <1>1 DEF RelayTypeOK
  <2>3. FramesFrom(frames, w, from, upTo)
    BY <1>1, <1>2, <1>7, <2>1, <2>2 DEF FramesFollow
  <2>4. /\ frame.stream = w => /\ frame.seq = from /\ frame.number = from + 1
                               /\ FramesFrom(Tail(frames), w, from + 1, upTo)
        /\ frame.stream # w => FramesFrom(Tail(frames), w, from, upTo)
    BY <1>2, <1>3, <2>3, FrameTaken
  <2>5. w = v => from = size
    BY <1>5, <1>6, <2>1
  <2> QED BY <1>4, <2>1, <2>2, <2>4, <2>5
<1>10. RelayTypeOK'
  BY <1>1, <1>7, <1>8 DEF RelayTypeOK, loopVars, inVars, outVars
<1>11. OutboxFollows'
  BY <1>1, <1>7 DEF OutboxFollows, loopVars, outVars
<1>12. FramesFollow'
  <2> SUFFICES ASSUME NEW w \in Virtual
               PROVE  FramesFrom(Tail(frames), w, Len(wire'[w]), nextSeq[w])
    BY <1>7 DEF FramesFollow, outVars
  <2>1. CASE w = v
    <3>1. Len(wire'[w]) = size + 1
      BY <1>1, <1>5, <1>6, <1>7, <2>1 DEF RelayTypeOK
    <3> QED BY <1>9, <2>1, <3>1
  <2>2. CASE w # v
    <3>1. wire'[w] = wire[w]
      BY <1>1, <1>7, <2>2 DEF RelayTypeOK
    <3> QED BY <1>9, <2>2, <3>1
  <2> QED BY <2>1, <2>2
<1>13. WireNumbered'
  <2> SUFFICES ASSUME NEW w \in Virtual, NEW n \in DOMAIN wire'[w]
               PROVE  wire'[w][n].seq = n - 1 /\ wire'[w][n].number = n
    BY DEF WireNumbered
  <2>1. CASE w = v
    <3>1. PICK more : more = Append(sent, frame) /\ wire'[v] = more
      BY <1>1, <1>7 DEF RelayTypeOK
    <3>2. /\ DOMAIN more = 1 .. size + 1 /\ more[size + 1] = frame
          /\ \A k \in 1 .. size : more[k] = sent[k]
      BY <1>6, <3>1
    <3>3. CASE n \in 1 .. size
      BY <1>1, <1>5, <1>6, <2>1, <3>1, <3>2, <3>3 DEF WireNumbered
    <3>4. CASE n = size + 1
      BY <1>9, <2>1, <3>1, <3>2, <3>4
    <3> QED BY <2>1, <3>1, <3>2, <3>3, <3>4
  <2>2. CASE w # v
    BY <1>1, <1>7, <2>2 DEF RelayTypeOK, WireNumbered
  <2> QED BY <2>1, <2>2
<1>14. PulledIsThere'
  BY <1>7 DEF PulledIsThere
<1> QED BY <1>10, <1>11, <1>12, <1>13, <1>14 DEF AInv

\* The loop ends when the websocket is closed, or when it cannot send a frame.
LEMMA EndKeeps == ASSUME AInv, Close \/ SendFails PROVE AInv'
<1>1. RelayTypeOK /\ PulledIsThere
  BY DEF AInv
<1>2. CASE Close
  <2>1. Finally /\ UNCHANGED <<table, received, name, transportVars, proc, outVars>>
    BY <1>2 DEF Close
  <2>2. /\ pulled' \in BOOLEAN /\ physical' \in Seq(Frames) /\ Len(physical)' <= Capacity
        /\ PulledIsThere' /\ wire' = wire
    BY <1>1, <2>1 DEF RelayTypeOK, PulledIsThere, transportVars
  <2> QED BY <2>1, <2>2, FinallyKeeps
<1>3. CASE SendFails
  <2>1. /\ pulled /\ physical' = Tail(physical) /\ pulled' = FALSE /\ Finally
        /\ UNCHANGED <<wire, table, received, name, proc, outVars>>
    BY <1>3 DEF SendFails
  <2>2. PICK frames \in Seq(Frames) : frames = physical /\ frames # <<>> /\ Len(frames) <= Capacity
    BY <1>1, <2>1 DEF RelayTypeOK, PulledIsThere
  <2>3. Tail(frames) \in Seq(Frames) /\ Len(Tail(frames)) <= Capacity /\ Capacity \in Nat
    BY <2>2, BoundsAssumption
  <2>4. /\ pulled' \in BOOLEAN /\ physical' \in Seq(Frames) /\ Len(physical)' <= Capacity
        /\ PulledIsThere'
    BY <2>1, <2>2, <2>3 DEF PulledIsThere
  <2> QED BY <2>1, <2>4, FinallyKeeps
<1> QED BY <1>2, <1>3

LEMMA AnswersStep == AInv /\ [Next]_vars => AInv'
<1> SUFFICES ASSUME AInv, [Next]_vars PROVE AInv'
  OBVIOUS
<1>1. ASSUME NEW s \in Streams, Data(s) \/ Overflow(s) \/ Reset(s) PROVE AInv'
  BY <1>1, DataKeeps, EndOneKeeps
<1>2. CASE Close \/ SendFails
  BY <1>2, EndKeeps
<1>3. CASE DisconnectResumes
  BY <1>3, ResumeKeeps
<1>4. CASE Pull
  BY <1>4, TakeKeeps
<1>5. CASE Send
  BY <1>5, SendKeeps
<1>6. ASSUME NEW v \in Virtual, TakeMessage(v) PROVE AInv'
  BY <1>6, TakeKeeps
<1>7. ASSUME NEW v \in Virtual, RouteEnds(v) \/ RouteBreaks(v) \/ PutResumes(v) PROVE AInv'
  BY <1>7, ProcessorKeeps
<1>8. ASSUME NEW v \in Virtual, CloseConnection(v) PROVE AInv'
  BY <1>8, CloseConnectionKeeps
<1>9. ASSUME NEW v \in Virtual, Write(v) PROVE AInv'
  BY <1>9, WriteKeeps
<1>10. CASE UNCHANGED vars
  <2>1. RelayTypeOK'
    BY <1>10 DEF AInv, RelayTypeOK, vars, loopVars, transportVars, inVars, outVars
  <2>2. \A w \in Virtual : w > Len(name) => proc[w] = "unborn"
    BY DEF AInv, OutboxFollows
  <2> QED BY <1>10, <2>1, <2>2, QuietKeeps
       DEF vars, loopVars, transportVars, outVars, Running
<1> QED BY <1>1, <1>2, <1>3, <1>4, <1>5, <1>6, <1>7, <1>8, <1>9, <1>10 DEF Next

LEMMA AnswersInvariant == Spec => []AInv
BY AnswersInit, AnswersStep, PTL DEF Spec

\* The queues of the relay and of its virtual streams hold what they should:
\* the queue of frames never exceeds its capacity, and every virtual stream has
\* its place (_RelayVirtualStream, physical_outgoing_tx, json_outgoing_tx).
THEOREM RelayTypeCorrect == Spec => []RelayTypeOK
<1>1. AInv => RelayTypeOK
  BY DEF AInv
<1> QED BY <1>1, AnswersInvariant, PTL

\* What a processor says leaves on the websocket in order, however the frames of
\* other streams are mixed with it, and while the loop runs and the connection
\* is not closed nothing of it is missing: it is sent, in the queue of frames or
\* in the stream's own queue (_relay_virtual_stream_writer).
THEOREM AnswersLeaveInOrder == Spec => []AnswersInOrder
<1>1. AInv => AnswersInOrder
  <2> SUFFICES ASSUME AInv, NEW v \in Virtual
               PROVE  /\ \A n \in DOMAIN wire[v] : wire[v][n].seq = n - 1 /\ wire[v][n].number = n
                      /\ Running /\ proc[v] # "closed" =>
                            Len(wire[v]) + Cardinality(OfStream(physical, v)) + Len(outbox[v])
                                = made[v]
    BY DEF AnswersInOrder, OfStream, Running
  <2>1. RelayTypeOK
    BY DEF AInv
  <2>2. PICK from \in Nat : from = Len(wire[v])
    BY <2>1 DEF RelayTypeOK
  <2>3. PICK next \in Nat : next = nextSeq[v]
    BY <2>1 DEF RelayTypeOK
  <2>4. PICK frames \in Seq(Frames) : frames = physical
    BY <2>1 DEF RelayTypeOK
  <2>5. PICK size \in Nat : size = Len(outbox[v])
    BY <2>1 DEF RelayTypeOK
  <2>6. ASSUME Running, proc[v] # "closed"
        PROVE  from + Cardinality(OfStream(frames, v)) + size = made[v]
    <3>1. FramesFrom(frames, v, from, next)
      BY <2>2, <2>3, <2>4, <2>6 DEF AInv, FramesFollow
    <3>2. Cardinality(OfStream(frames, v)) = next - from
      BY <3>1, FrameCount
    <3>3. made[v] = next + size
      BY <2>3, <2>5, <2>6 DEF AInv, OutboxFollows
    <3> QED BY <3>2, <3>3
  <2> QED BY <2>2, <2>4, <2>5, <2>6 DEF AInv, WireNumbered
<1> QED BY <1>1, AnswersInvariant, PTL
-----------------------------------------------------------------------------
(***************************************************************************)
(* What becomes of the messages.                                           *)
(***************************************************************************)
GoneIsLast == \A v \in Virtual : \A n \in 1 .. Len(delivered[v]) - 1 : delivered[v][n] # Gone

InOrder(s) ==
    \A v, w \in Spawned(s) : \A m \in DOMAIN delivered[v], n \in DOMAIN delivered[w] :
        PutLater(v, m, w, n) /\ delivered[v][m] # Gone /\ delivered[w][n] # Gone
            => delivered[v][m] < delivered[w][n]

\* This message has reached a virtual stream or ended one.
Arrives(s, k) == \E v \in Spawned(s) : k \in Numbers(v) \/ Ended(v, k)

NotYetSpawned == \A v \in Virtual : v > Len(name) => delivered[v] = <<>>

\* The virtual stream in the dictionary is the last one of its stream id, nobody
\* has told it to end, and it has the last message that was received.
CurrentStreams ==
    \A s \in Streams : \A v \in Virtual : Running /\ table[s] = v =>
        /\ v \in Spawned(s) /\ \A w \in Spawned(s) : w <= v
        /\ v \notin disconnected \cup ToSet(victims)
        /\ received[s] \in Numbers(v)

\* Those that have the event know, and those the loop has still to tell do not
\* have it.
EndsTold ==
    /\ \A v \in Virtual : Gone \in ToSet(delivered[v]) => v \in disconnected
    /\ \A v \in ToSet(victims) : v \in DOMAIN name /\ Gone \notin ToSet(delivered[v])
    /\ Distinct(victims)
    /\ env = "up" => victims = <<>>
    /\ disconnected \subseteq DOMAIN name

NumbersSoFar == \A s \in Streams : \A v \in Spawned(s) : Numbers(v) \subseteq 1 .. received[s]

\* The inductive invariant for the messages.
MInv == NotYetSpawned /\ CurrentStreams /\ EndsTold /\ NumbersSoFar /\ EachMessageOnce

LEMMA MessageParts ==
  EachMessageOnce <=> /\ GoneIsLast
                      /\ \A s \in Streams : InOrder(s) /\ \A k \in 1 .. received[s] : Arrives(s, k)
BY DEF EachMessageOnce, GoneIsLast, InOrder, Arrives

LEMMA SpawnedAreVirtual ==
  ASSUME RelayTypeOK
  PROVE  /\ Len(name) \in Nat /\ DOMAIN name = 1 .. Len(name) /\ DOMAIN name \subseteq Virtual
         /\ \A s : Spawned(s) \subseteq DOMAIN name
<1>1. name \in Seq(Streams) /\ Len(name) <= MaxSpawned /\ MaxSpawned \in Nat
  BY BoundsAssumption DEF RelayTypeOK
<1>2. Len(name) \in Nat /\ DOMAIN name = 1 .. Len(name)
  BY <1>1
<1>3. 1 .. Len(name) \subseteq Virtual
  BY <1>1, <1>2 DEF Virtual
<1>4. \A s : Spawned(s) \subseteq DOMAIN name
  BY DEF Spawned
<1> QED BY <1>2, <1>3, <1>4

\* One element more at the end of a list.
LEMMA OneMore ==
  ASSUME NEW queue \in Seq(Nat), NEW k \in Nat, NEW more, more = Append(queue, k)
  PROVE  /\ DOMAIN queue = 1 .. Len(queue) /\ Len(queue) \in Nat
         /\ DOMAIN more = 1 .. Len(queue) + 1 /\ Len(more) = Len(queue) + 1
         /\ more[Len(queue) + 1] = k
         /\ \A n \in DOMAIN queue : n \in DOMAIN more /\ more[n] = queue[n]
         /\ \A n \in DOMAIN more : n \in DOMAIN queue \/ n = Len(queue) + 1
<1>1. PICK size \in Nat : size = Len(queue) /\ DOMAIN queue = 1 .. size
  OBVIOUS
<1>2. /\ DOMAIN more = 1 .. size + 1 /\ Len(more) = size + 1 /\ more[size + 1] = k
      /\ \A n \in 1 .. size : more[n] = queue[n]
  BY <1>1
<1>3. \A n \in 1 .. size + 1 : n \in 1 .. size \/ n = size + 1
  OBVIOUS
<1>4. \A n \in 1 .. size : n \in 1 .. size + 1
  OBVIOUS
<1> QED BY <1>1, <1>2, <1>3, <1>4

LEMMA MessagesInit == Init => MInv
<1> SUFFICES ASSUME Init PROVE MInv
  OBVIOUS
<1>1. /\ \A v \in Virtual : delivered[v] = <<>>
      /\ name = <<>> /\ victims = <<>> /\ disconnected = {}
      /\ \A s \in Streams : table[s] = 0 /\ received[s] = 0
  BY DEF Init
<1>2. \A s : Spawned(s) = {}
  BY <1>1 DEF Spawned
<1>3. NotYetSpawned /\ CurrentStreams /\ NumbersSoFar
  BY <1>1, <1>2 DEF NotYetSpawned, CurrentStreams, NumbersSoFar, Virtual
<1>4. EndsTold
  BY <1>1 DEF EndsTold, Distinct, ToSet
<1>5. EachMessageOnce
  BY <1>1, <1>2 DEF EachMessageOnce
<1> QED BY <1>3, <1>4, <1>5 DEF MInv

\* A step of the transport or of a processor.
LEMMA OthersKeep ==
  ASSUME MInv, UNCHANGED <<env, table, victims, received, name, delivered, disconnected>>
  PROVE  MInv'
<1>1. \A v : Numbers(v)' = Numbers(v) /\ Spawned(v)' = Spawned(v)
  BY DEF Numbers, Spawned
<1>2. (NotYetSpawned /\ CurrentStreams /\ EndsTold /\ NumbersSoFar)'
  BY <1>1 DEF MInv, NotYetSpawned, CurrentStreams, EndsTold, NumbersSoFar, Running
<1>3. EachMessageOnce'
  BY DEF MInv, EachMessageOnce, Numbers, Spawned, Ended
<1> QED BY <1>2, <1>3 DEF MInv

\* Virtual streams are told to end: no message is put anywhere.
LEMMA DisconnectDelivers ==
  ASSUME RelayTypeOK, MInv, NEW list \in Seq(Virtual), NEW during, NEW afterwards,
         Disconnect(list, during, afterwards), name' = name, during # "up", Distinct(list),
         \A v \in ToSet(list) : v \in DOMAIN name /\ Gone \notin ToSet(delivered[v])
  PROVE  /\ \A v \in Virtual : Numbers(v)' = Numbers(v)
         /\ \A v \in Virtual : \A n \in DOMAIN delivered'[v] : delivered'[v][n] # Gone =>
               n \in DOMAIN delivered[v] /\ delivered'[v][n] = delivered[v][n]
         /\ GoneIsLast' /\ NotYetSpawned' /\ EndsTold'
         /\ ToSet(victims') \subseteq ToSet(list)
<1>1. /\ victims' \in Seq(Virtual) /\ env' = IF victims' = <<>> THEN afterwards ELSE during
      /\ delivered' \in [Virtual -> Seq(Nat)]
      /\ disconnected \subseteq disconnected'
      /\ disconnected' \subseteq disconnected \cup ToSet(list)
      /\ \A v \in Virtual : \/ delivered'[v] = delivered[v]
                            \/ /\ delivered'[v] = Append(delivered[v], Gone)
                               /\ v \in ToSet(list) /\ v \in disconnected'
      /\ Distinct(victims')
      /\ \A n \in DOMAIN victims' : /\ victims'[n] \in ToSet(list)
                                    /\ delivered'[victims'[n]] = delivered[victims'[n]]
  BY DisconnectFacts
<1>2. \A v \in ToSet(victims') : v \in ToSet(list) /\ delivered'[v] = delivered[v]
  BY <1>1 DEF ToSet
<1>3. ASSUME NEW v \in Virtual
      PROVE  /\ Numbers(v)' = Numbers(v)
             /\ \A n \in DOMAIN delivered'[v] : delivered'[v][n] # Gone =>
                   n \in DOMAIN delivered[v] /\ delivered'[v][n] = delivered[v][n]
             /\ \A n \in 1 .. Len(delivered'[v]) - 1 : delivered'[v][n] # Gone
             /\ v > Len(name) => delivered'[v] = <<>>
             /\ Gone \in ToSet(delivered'[v]) => v \in disconnected'
  <2>1. CASE delivered'[v] = delivered[v]
    <3>1. Numbers(v)' = Numbers(v)
      BY <2>1 DEF Numbers
    <3>2. /\ \A n \in 1 .. Len(delivered[v]) - 1 : delivered[v][n] # Gone
          /\ v > Len(name) => delivered[v] = <<>>
          /\ Gone \in ToSet(delivered[v]) => v \in disconnected
      BY MessageParts DEF MInv, GoneIsLast, NotYetSpawned, EndsTold
    <3> QED BY <1>1, <2>1, <3>1, <3>2
  <2>2. CASE /\ delivered'[v] = Append(delivered[v], Gone)
             /\ v \in ToSet(list) /\ v \in disconnected'
    <3>1. PICK queue \in Seq(Nat) : queue = delivered[v]
      BY DEF RelayTypeOK
    <3>2. PICK more : more = Append(queue, Gone) /\ more = delivered'[v]
      BY <2>2, <3>1
    <3>3. PICK size \in Nat : size = Len(queue)
      OBVIOUS
    <3>4. /\ DOMAIN queue = 1 .. size
          /\ DOMAIN more = 1 .. size + 1 /\ Len(more) = size + 1 /\ more[size + 1] = Gone
          /\ \A n \in DOMAIN queue : n \in DOMAIN more /\ more[n] = queue[n]
          /\ \A n \in DOMAIN more : n \in DOMAIN queue \/ n = size + 1
      <4>1. PICK gone \in Nat : gone = Gone
        BY DEF Gone
      <4>2. more = Append(queue, gone)
        BY <3>2, <4>1
      <4> QED BY <3>3, <4>1, <4>2, OneMore
    <3>5. Gone \notin ToSet(queue) /\ v \in DOMAIN name
      BY <2>2, <3>1
    <3>6. \A n \in DOMAIN queue : queue[n] # Gone
      BY <3>5 DEF ToSet
    <3>7. ToSet(more) \ {Gone} = ToSet(queue) \ {Gone}
      BY <3>4, <3>6 DEF ToSet
    <3>8. Numbers(v)' = Numbers(v)
      BY <3>1, <3>2, <3>7 DEF Numbers
    <3>9. \A n \in DOMAIN more : more[n] # Gone => n \in DOMAIN queue /\ more[n] = queue[n]
      BY <3>4
    <3>10. \A n \in 1 .. Len(more) - 1 : more[n] # Gone
      BY <3>4, <3>6
    <3>11. ~ v > Len(name)
      BY <3>5, SpawnedAreVirtual
    <3> QED BY <2>2, <3>1, <3>2, <3>8, <3>9, <3>10, <3>11
  <2> QED BY <1>1, <2>1, <2>2
<1>4. GoneIsLast' /\ NotYetSpawned'
  BY <1>3 DEF GoneIsLast, NotYetSpawned
<1>5. EndsTold'
  <2>1. \A v \in Virtual : Gone \in ToSet(delivered'[v]) => v \in disconnected'
    BY <1>3
  <2>2. \A v \in ToSet(victims') : v \in DOMAIN name /\ Gone \notin ToSet(delivered'[v])
    BY <1>2
  <2>3. env' = "up" => victims' = <<>>
    BY <1>1
  <2>4. disconnected' \subseteq DOMAIN name
    BY <1>1 DEF MInv, EndsTold
  <2> QED BY <1>1, <2>1, <2>2, <2>3, <2>4 DEF EndsTold
<1> QED BY <1>2, <1>3, <1>4, <1>5
LEMMA DisconnectKeepsMessages ==
  ASSUME RelayTypeOK, MInv, NEW list \in Seq(Virtual), NEW during, NEW afterwards,
         Disconnect(list, during, afterwards), name' = name, during # "up", Distinct(list),
         \A v \in ToSet(list) : v \in DOMAIN name /\ Gone \notin ToSet(delivered[v]),
         \A s \in Streams : received'[s] \in Nat /\ received[s] <= received'[s]
  PROVE  /\ GoneIsLast' /\ NotYetSpawned' /\ EndsTold' /\ NumbersSoFar'
         /\ \A s \in Streams : InOrder(s)' /\ \A k \in 1 .. received[s] : Arrives(s, k)'
<1>1. /\ \A v \in Virtual : Numbers(v)' = Numbers(v)
      /\ \A v \in Virtual : \A n \in DOMAIN delivered'[v] : delivered'[v][n] # Gone =>
            n \in DOMAIN delivered[v] /\ delivered'[v][n] = delivered[v][n]
      /\ GoneIsLast' /\ NotYetSpawned' /\ EndsTold'
  BY DisconnectDelivers
<1>2. disconnected \subseteq disconnected'
  BY DisconnectFacts
<1>3. \A s : Spawned(s)' = Spawned(s) /\ Spawned(s) \subseteq Virtual
  BY SpawnedAreVirtual DEF Spawned
<1>4. NumbersSoFar'
  <2> SUFFICES ASSUME NEW s \in Streams, NEW v \in Spawned(s), NEW k \in Numbers(v)
               PROVE  k \in 1 .. received'[s]
    BY <1>1, <1>3 DEF NumbersSoFar
  <2>1. k \in 1 .. received[s] /\ received[s] \in Nat
    BY DEF MInv, NumbersSoFar, RelayTypeOK
  <2> QED BY <2>1
<1>5. ASSUME NEW s \in Streams PROVE InOrder(s)'
  <2> SUFFICES ASSUME NEW v \in Spawned(s), NEW w \in Spawned(s),
                      NEW m \in DOMAIN delivered'[v], NEW n \in DOMAIN delivered'[w],
                      PutLater(v, m, w, n), delivered'[v][m] # Gone, delivered'[w][n] # Gone
               PROVE  delivered'[v][m] < delivered'[w][n]
    BY <1>3 DEF InOrder, PutLater
  <2>1. /\ m \in DOMAIN delivered[v] /\ delivered'[v][m] = delivered[v][m]
        /\ n \in DOMAIN delivered[w] /\ delivered'[w][n] = delivered[w][n]
    BY <1>1, <1>3
  <2> QED BY <2>1, MessageParts DEF MInv, InOrder
<1>6. ASSUME NEW s \in Streams, NEW k \in 1 .. received[s] PROVE Arrives(s, k)'
  <2>1. PICK v \in Spawned(s) : k \in Numbers(v) \/ Ended(v, k)
    BY MessageParts DEF MInv, Arrives
  <2>2. Numbers(v)' = Numbers(v) /\ v \in Spawned(s)'
    BY <1>1, <1>3
  <2>3. k \in Numbers(v)' \/ Ended(v, k)'
    BY <1>2, <2>1, <2>2 DEF Ended
  <2> QED BY <2>2, <2>3 DEF Arrives
<1> QED BY <1>1, <1>4, <1>5, <1>6

\* A stream is reset, or a message that finds its queue full ends it.
LEMMA EndOneKeepsMessages ==
  ASSUME RelayTypeOK, MInv, NEW s \in Streams, Overflow(s) \/ Reset(s)
  PROVE  MInv'
<1>1. PICK v \in Virtual : v = table[s] /\ v # 0
  BY DEF RelayTypeOK, Overflow, Reset
<1>2. PICK list \in Seq(Virtual) : list = <<v>>
  <2>1. <<v>> \in Seq(Virtual)
    OBVIOUS
  <2> QED BY <2>1, Zenon
<1>3. /\ env = "up" /\ Disconnect(list, "resetting", "up") /\ name' = name
      /\ table' = [table EXCEPT ![s] = 0]
  BY <1>1, <1>2 DEF Overflow, Reset, Receives
<1>4. /\ Len(list) = 1 /\ list[1] = v /\ Distinct(list) /\ ToSet(list) = {v}
  <2>1. DOMAIN list = {1} /\ Len(list) = 1 /\ list[1] = v
    BY <1>2
  <2> QED BY <2>1 DEF Distinct, ToSet
<1>5. /\ v \in Spawned(s) /\ v \in DOMAIN name /\ v \notin disconnected
      /\ received[s] \in Numbers(v) /\ Numbers(v) \subseteq 1 .. received[s]
  <2>1. Running
    BY <1>3 DEF Running
  <2> QED BY <1>1, <2>1 DEF MInv, CurrentStreams, NumbersSoFar, Spawned
<1>6. Gone \notin ToSet(delivered[v])
  BY <1>5 DEF MInv, EndsTold
<1>7. \A r \in Streams : /\ received[r] \in Nat /\ received'[r] \in Nat
                         /\ received'[r] = received[r] \/ (r = s /\ received'[r] = received[r] + 1)
  <2>1. received' = received \/ received' = [received EXCEPT ![s] = @ + 1]
    BY DEF Overflow, Reset
  <2> QED BY <2>1 DEF RelayTypeOK
<1>8. /\ GoneIsLast' /\ NotYetSpawned' /\ EndsTold' /\ NumbersSoFar'
      /\ \A r \in Streams : InOrder(r)' /\ \A k \in 1 .. received[r] : Arrives(r, k)'
  <2>1. \A w \in ToSet(list) : w \in DOMAIN name /\ Gone \notin ToSet(delivered[w])
    BY <1>4, <1>5, <1>6
  <2>2. \A r \in Streams : received'[r] \in Nat /\ received[r] <= received'[r]
    BY <1>7
  <2> QED BY <1>3, <1>4, <2>1, <2>2, DisconnectKeepsMessages
<1>9. /\ \A w \in Virtual : Numbers(w)' = Numbers(w)
      /\ ToSet(victims') \subseteq {v}
  <2>1. \A w \in ToSet(list) : w \in DOMAIN name /\ Gone \notin ToSet(delivered[w])
    BY <1>4, <1>5, <1>6
  <2> QED BY <1>3, <1>4, <2>1, DisconnectDelivers
<1>10. /\ disconnected' \subseteq disconnected \cup {v} /\ v \in disconnected'
  BY <1>3, <1>4, DisconnectFacts
<1>11. \A r : Spawned(r)' = Spawned(r) /\ Spawned(r) \subseteq Virtual
  BY <1>3, SpawnedAreVirtual DEF Spawned
<1>12. CurrentStreams'
  <2> SUFFICES ASSUME NEW r \in Streams, NEW u \in Virtual, table'[r] = u
               PROVE  /\ u \in Spawned(r) /\ \A w \in Spawned(r) : w <= u
                      /\ u \notin disconnected' \cup ToSet(victims')
                      /\ received'[r] \in Numbers(u)
    BY <1>9, <1>11 DEF CurrentStreams
  <2>1. r # s /\ table[r] = u /\ received'[r] = received[r]
    BY <1>3, <1>7 DEF RelayTypeOK, Virtual
  <2>2. /\ u \in Spawned(r) /\ \A w \in Spawned(r) : w <= u
        /\ u \notin disconnected /\ received[r] \in Numbers(u)
    BY <1>3, <2>1 DEF MInv, CurrentStreams, Running
  <2>3. u # v
    BY <1>5, <2>1, <2>2 DEF Spawned
  <2> QED BY <1>9, <1>10, <2>1, <2>2, <2>3
<1>13. ASSUME NEW r \in Streams, NEW k \in 1 .. received'[r] PROVE Arrives(r, k)'
  <2>1. CASE k \in 1 .. received[r]
    BY <1>8, <2>1
  <2>2. CASE k \notin 1 .. received[r]
    <3>1. r = s /\ k = received[s] + 1
      BY <1>7, <2>2
    <3>2. k - 1 \in Numbers(v) /\ \A n \in Numbers(v) : n < k
      BY <1>5, <1>7, <3>1
    <3>3. Ended(v, k)'
      BY <1>9, <1>10, <3>2 DEF Ended
    <3> QED BY <1>5, <1>11, <3>1, <3>3 DEF Arrives
  <2> QED BY <2>1, <2>2
<1>14. EachMessageOnce'
  <2>1. /\ GoneIsLast'
        /\ \A r \in Streams : InOrder(r)' /\ \A k \in 1 .. received'[r] : Arrives(r, k)'
    BY <1>8, <1>13
  <2> QED BY <2>1 DEF EachMessageOnce, GoneIsLast, InOrder, Arrives
<1> QED BY <1>8, <1>12, <1>14 DEF MInv
\* The loop goes on to disconnect, one stream or all of them.
LEMMA GoOnKeepsMessages ==
  ASSUME RelayTypeOK, MInv, NEW list \in Seq(Virtual), NEW during, NEW afterwards,
         Disconnect(list, during, afterwards), UNCHANGED <<table, received, name>>, during # "up",
         Distinct(list),
         \A v \in ToSet(list) : v \in DOMAIN name /\ Gone \notin ToSet(delivered[v]),
         Running' => Running /\ ToSet(list) \subseteq ToSet(victims)
  PROVE  MInv'
<1>1. \A s \in Streams : received'[s] = received[s] /\ received[s] \in Nat
  BY DEF RelayTypeOK
<1>2. /\ GoneIsLast' /\ NotYetSpawned' /\ EndsTold' /\ NumbersSoFar'
      /\ \A s \in Streams : InOrder(s)' /\ \A k \in 1 .. received[s] : Arrives(s, k)'
  <2>1. \A s \in Streams : received'[s] \in Nat /\ received[s] <= received'[s]
    BY <1>1
  <2> QED BY <2>1, DisconnectKeepsMessages
<1>3. /\ \A w \in Virtual : Numbers(w)' = Numbers(w)
      /\ ToSet(victims') \subseteq ToSet(list)
  BY DisconnectDelivers
<1>4. disconnected' \subseteq disconnected \cup ToSet(list)
  BY DisconnectFacts
<1>5. \A r : Spawned(r)' = Spawned(r)
  BY DEF Spawned
<1>6. CurrentStreams'
  <2> SUFFICES ASSUME NEW s \in Streams, NEW v \in Virtual, Running', table[s] = v
               PROVE  /\ v \in Spawned(s) /\ \A w \in Spawned(s) : w <= v
                      /\ v \notin disconnected' \cup ToSet(victims')
                      /\ received[s] \in Numbers(v)
    BY <1>3, <1>5 DEF CurrentStreams
  <2>1. /\ v \in Spawned(s) /\ \A w \in Spawned(s) : w <= v
        /\ v \notin disconnected \cup ToSet(victims) /\ received[s] \in Numbers(v)
    BY DEF MInv, CurrentStreams
  <2> QED BY <1>3, <1>4, <2>1
<1>7. EachMessageOnce'
  BY <1>1, <1>2 DEF EachMessageOnce, GoneIsLast, InOrder, Arrives
<1> QED BY <1>2, <1>6, <1>7 DEF MInv

LEMMA ResumeKeepsMessages ==
  ASSUME RelayTypeOK, MInv, DisconnectResumes
  PROVE  MInv'
<1>1. PICK list \in Seq(Virtual) : list = victims
  BY DEF RelayTypeOK
<1>2. PICK during : during = env
  OBVIOUS
<1>3. PICK afterwards : afterwards = IF env = "resetting" THEN "up" ELSE "over"
  OBVIOUS
<1>4. Disconnect(list, during, afterwards) /\ UNCHANGED <<table, received, name>> /\ victims # <<>>
  BY <1>1, <1>2, <1>3 DEF DisconnectResumes
<1>5. /\ during # "up" /\ Distinct(list)
      /\ \A v \in ToSet(list) : v \in DOMAIN name /\ Gone \notin ToSet(delivered[v])
  BY <1>1, <1>2, <1>4 DEF MInv, EndsTold
<1>6. Running' => Running
  <2>1. env' = IF victims' = <<>> THEN afterwards ELSE during
    BY <1>4, DisconnectFacts
  <2> QED BY <1>2, <1>3, <2>1 DEF Running
<1>7. ToSet(list) \subseteq ToSet(victims)
  BY <1>1
<1> QED BY <1>4, <1>5, <1>6, <1>7, GoOnKeepsMessages

LEMMA FinallyKeepsMessages ==
  ASSUME RelayTypeOK, MInv, env = "up", Finally, UNCHANGED <<table, received, name>>
  PROVE  MInv'
<1>1. PICK streams : streams = {table[s] : s \in Streams}
  OBVIOUS
<1>2. PICK list \in Seq(Virtual) : /\ list = InSpawnOrder(streams) /\ Distinct(list)
                                   /\ ToSet(list) = streams \cap Virtual
  BY InSpawnOrderFacts
<1>3. Disconnect(list, "closing", "over")
  BY <1>1, <1>2 DEF Finally
<1>4. ASSUME NEW v \in ToSet(list) PROVE v \in DOMAIN name /\ Gone \notin ToSet(delivered[v])
  <2>1. PICK s \in Streams : table[s] = v /\ v \in Virtual
    BY <1>1, <1>2
  <2>2. v \in Spawned(s) /\ v \notin disconnected
    BY <2>1 DEF MInv, CurrentStreams, Running
  <2> QED BY <2>1, <2>2 DEF MInv, EndsTold, Spawned
<1>5. ~ Running'
  <2>1. env' = IF victims' = <<>> THEN "over" ELSE "closing"
    BY <1>3, DisconnectFacts
  <2> QED BY <2>1 DEF Running
<1> QED BY <1>2, <1>3, <1>4, <1>5, GoOnKeepsMessages

\* A message is put on the queue of the last virtual stream of its stream id.
LEMMA DataKeepsMessages ==
  ASSUME RelayTypeOK, RelayTypeOK', MInv, NEW s \in Streams, Data(s)
  PROVE  MInv'
<1>1. PICK v \in Virtual : v = IF table[s] = 0 THEN Len(name) + 1 ELSE table[s]
  BY DEF Data
<1>2. PICK k \in Nat : k = received[s] + 1
  <2>1. received[s] \in Nat
    BY DEF RelayTypeOK
  <2> QED BY <2>1
<1>3. PICK queue \in Seq(Nat) : queue = delivered[v]
  BY DEF RelayTypeOK
<1>4. PICK more : more = Append(queue, k)
  OBVIOUS
<1>5. /\ env = "up" /\ received' = [received EXCEPT ![s] = k] /\ table' = [table EXCEPT ![s] = v]
      /\ name' = IF table[s] = 0 THEN Append(name, s) ELSE name
      /\ delivered' = [delivered EXCEPT ![v] = more]
      /\ UNCHANGED <<env, victims, disconnected>>
  BY <1>1, <1>2, <1>3, <1>4 DEF Data, Receives
<1>6. PICK size \in Nat : size = Len(queue)
  OBVIOUS
<1>7. /\ DOMAIN queue = 1 .. size
      /\ DOMAIN more = 1 .. size + 1 /\ Len(more) = size + 1 /\ more[size + 1] = k
      /\ \A n \in DOMAIN queue : n \in DOMAIN more /\ more[n] = queue[n]
      /\ \A n \in DOMAIN more : n \in DOMAIN queue \/ n = size + 1
      /\ ToSet(more) = ToSet(queue) \cup {k}
  <2>1. /\ DOMAIN queue = 1 .. size
        /\ DOMAIN more = 1 .. size + 1 /\ Len(more) = size + 1 /\ more[size + 1] = k
        /\ \A n \in DOMAIN queue : n \in DOMAIN more /\ more[n] = queue[n]
        /\ \A n \in DOMAIN more : n \in DOMAIN queue \/ n = size + 1
    BY <1>4, <1>6, OneMore
  <2>2. size + 1 \in DOMAIN more
    BY <2>1
  <2>3. ToSet(more) = ToSet(queue) \cup {k}
    BY <2>1, <2>2 DEF ToSet
  <2> QED BY <2>1, <2>3
<1>8. /\ k - 1 = received[s] /\ received[s] \in Nat /\ k # Gone
      /\ received'[s] = k /\ \A r \in Streams : r # s => received'[r] = received[r]
  <2>1. received \in [Streams -> Nat] /\ received[s] \in Nat
    BY DEF RelayTypeOK
  <2>2. k - 1 = received[s] /\ k # Gone
    <3>1. PICK old \in Nat : old = received[s]
      BY <2>1
    <3>2. k = old + 1
      BY <1>2, <3>1
    <3> QED BY <3>1, <3>2 DEF Gone
  <2>3. received'[s] = k /\ \A r \in Streams : r # s => received'[r] = received[r]
    BY <1>5, <2>1
  <2> QED BY <2>1, <2>2, <2>3
<1>9. /\ v \in Spawned(s)'
      /\ Spawned(s)' \subseteq Spawned(s) \cup {v} /\ Spawned(s) \subseteq Spawned(s)'
      /\ \A w \in Spawned(s)' : w <= v
      /\ v \notin disconnected /\ Len(name) <= Len(name') /\ ~ v > Len(name')
      /\ \A r : r # s => Spawned(r)' = Spawned(r) /\ v \notin Spawned(r)
  <2>1. /\ Len(name) \in Nat /\ DOMAIN name = 1 .. Len(name)
        /\ name \in Seq(Streams)
    BY SpawnedAreVirtual DEF RelayTypeOK
  <2>2. CASE table[s] = 0
    <3>1. PICK last \in Nat : last = Len(name)
      BY <2>1
    <3>2. /\ v = last + 1 /\ name' = Append(name, s)
          /\ Len(name') = last + 1 /\ DOMAIN name' = 1 .. last + 1
          /\ name'[last + 1] = s /\ \A n \in 1 .. last : name'[n] = name[n]
      BY <1>1, <1>5, <2>1, <2>2, <3>1
    <3>3. \A n \in 1 .. last + 1 : n \in 1 .. last \/ n = last + 1
      OBVIOUS
    <3>4. \A n \in 1 .. last : n \in 1 .. last + 1 /\ n # last + 1
      OBVIOUS
    <3>5. Spawned(s)' = Spawned(s) \cup {v} /\ \A r : r # s => Spawned(r)' = Spawned(r)
      BY <2>1, <3>1, <3>2, <3>3, <3>4 DEF Spawned
    <3>6. v \notin DOMAIN name /\ \A w \in DOMAIN name : w <= v
      BY <2>1, <3>1, <3>2
    <3>7. v \notin disconnected /\ \A r : v \notin Spawned(r)
      BY <3>6 DEF MInv, EndsTold, Spawned
    <3>8. \A w \in Spawned(s)' : w <= v
      BY <3>2, <3>5, <3>6 DEF Spawned
    <3> QED BY <3>1, <3>2, <3>5, <3>7, <3>8
  <2>3. CASE table[s] # 0
    <3>1. table[s] = v /\ name' = name
      BY <1>1, <1>5, <2>3
    <3>2. v \in Spawned(s) /\ (\A w \in Spawned(s) : w <= v) /\ v \notin disconnected
      BY <1>5, <3>1 DEF MInv, CurrentStreams, Running
    <3>3. \A r : Spawned(r)' = Spawned(r)
      BY <3>1 DEF Spawned
    <3>4. \A r : r # s => v \notin Spawned(r)
      BY <3>2 DEF Spawned
    <3>5. ~ v > Len(name)
      BY <2>1, <3>2 DEF Spawned
    <3> QED BY <2>1, <3>1, <3>2, <3>3, <3>4, <3>5
  <2> QED BY <2>2, <2>3
<1>10. /\ delivered'[v] = more /\ \A w \in Virtual : w # v => delivered'[w] = delivered[w]
  BY <1>5 DEF RelayTypeOK
<1>11. Gone \notin ToSet(queue) /\ \A n \in DOMAIN queue : queue[n] # Gone
  <2>1. Gone \notin ToSet(queue)
    BY <1>3, <1>9 DEF MInv, EndsTold
  <2> QED BY <2>1 DEF ToSet
<1>12. /\ Numbers(v)' = Numbers(v) \cup {k}
       /\ \A w \in Virtual : w # v => Numbers(w)' = Numbers(w)
  BY <1>3, <1>7, <1>8, <1>10 DEF Numbers
<1>13. NotYetSpawned'
  <2> SUFFICES ASSUME NEW w \in Virtual, w > Len(name') PROVE delivered'[w] = <<>>
    BY DEF NotYetSpawned
  <2>1. w # v /\ w > Len(name)
    <3>1. Len(name) \in Nat /\ Len(name') \in Nat /\ w \in Int
      BY SpawnedAreVirtual DEF RelayTypeOK, Virtual
    <3> QED BY <1>9, <3>1
  <2> QED BY <1>10, <2>1 DEF MInv, NotYetSpawned
<1>14. CurrentStreams'
  <2> SUFFICES ASSUME NEW r \in Streams, NEW u \in Virtual, table'[r] = u
               PROVE  /\ u \in Spawned(r)' /\ \A w \in Spawned(r)' : w <= u
                      /\ u \notin disconnected' \cup ToSet(victims')
                      /\ received'[r] \in Numbers(u)'
    BY DEF CurrentStreams
  <2>1. victims' = <<>> /\ disconnected' = disconnected /\ ToSet(<<>>) = {}
    BY <1>5 DEF MInv, EndsTold, ToSet
  <2>2. CASE r = s
    <3>1. u = v
      BY <1>5, <2>2 DEF RelayTypeOK
    <3> QED BY <1>8, <1>9, <1>12, <2>1, <2>2, <3>1
  <2>3. CASE r # s
    <3>1. table[r] = u
      BY <1>5, <2>3 DEF RelayTypeOK
    <3>2. /\ u \in Spawned(r) /\ \A w \in Spawned(r) : w <= u
          /\ u \notin disconnected /\ received[r] \in Numbers(u)
      BY <1>5, <3>1 DEF MInv, CurrentStreams, Running
    <3> QED BY <1>8, <1>9, <1>12, <2>1, <2>3, <3>2
  <2> QED BY <2>2, <2>3
<1>15. EndsTold'
  <2>1. victims' = <<>> /\ disconnected' = disconnected /\ ToSet(<<>>) = {}
    BY <1>5 DEF MInv, EndsTold, ToSet
  <2>2. ASSUME NEW w \in Virtual, Gone \in ToSet(delivered'[w]) PROVE w \in disconnected
    <3>1. CASE w = v
      BY <1>7, <1>8, <1>10, <1>11, <2>2, <3>1
    <3>2. CASE w # v
      BY <1>10, <2>2, <3>2 DEF MInv, EndsTold
    <3> QED BY <3>1, <3>2
  <2>3. disconnected \subseteq DOMAIN name'
    <3>1. /\ Len(name) \in Nat /\ DOMAIN name = 1 .. Len(name)
          /\ Len(name') \in Nat /\ DOMAIN name' = 1 .. Len(name')
      <4>1. name \in Seq(Streams) /\ name' \in Seq(Streams)
        BY DEF RelayTypeOK
      <4> QED BY <4>1
    <3> QED BY <1>9, <3>1 DEF MInv, EndsTold
  <2> QED BY <2>1, <2>2, <2>3 DEF EndsTold, Distinct
<1>16. Spawned(s) \subseteq Virtual /\ v \in Virtual /\ \A r : Spawned(r) \subseteq Virtual
  BY SpawnedAreVirtual
<1>17. v \in Spawned(s) \/ (queue = <<>> /\ Numbers(v) = {})
  <2>1. CASE table[s] = 0
    <3>1. v > Len(name)
      BY <1>1, <2>1, SpawnedAreVirtual
    <3>2. queue = <<>>
      BY <1>3, <3>1 DEF MInv, NotYetSpawned
    <3> QED BY <1>3, <3>2 DEF Numbers, ToSet
  <2>2. CASE table[s] # 0
    BY <1>1, <1>5, <2>2 DEF MInv, CurrentStreams, Running
  <2> QED BY <2>1, <2>2
<1>18. NumbersSoFar'
  <2> SUFFICES ASSUME NEW r \in Streams, NEW w \in Spawned(r)', NEW n \in Numbers(w)'
               PROVE  n \in 1 .. received'[r]
    BY DEF NumbersSoFar
  <2>1. CASE r # s
    <3>1. w \in Spawned(r) /\ w # v /\ n \in Numbers(w)
      BY <1>9, <1>12, <1>16, <2>1
    <3> QED BY <1>8, <2>1, <3>1 DEF MInv, NumbersSoFar
  <2>2. CASE r = s
    <3>1. n = k \/ (w \in Spawned(s) /\ n \in Numbers(w)) \/ (w = v /\ n \in Numbers(v))
      BY <1>9, <1>12, <1>16, <2>2
    <3>2. n = k \/ n \in 1 .. received[s]
      BY <1>17, <3>1 DEF MInv, NumbersSoFar
    <3> QED BY <1>8, <2>2, <3>2
  <2> QED BY <2>1, <2>2
<1>19. GoneIsLast'
  <2> SUFFICES ASSUME NEW w \in Virtual, NEW n \in 1 .. Len(delivered'[w]) - 1
               PROVE  delivered'[w][n] # Gone
    BY DEF GoneIsLast
  <2>1. CASE w = v
    <3>1. n \in DOMAIN queue
      BY <1>7, <1>10, <2>1
    <3> QED BY <1>7, <1>10, <1>11, <2>1, <3>1
  <2>2. CASE w # v
    BY <1>10, <2>2, MessageParts DEF MInv, GoneIsLast
  <2> QED BY <2>1, <2>2
<1>20. ASSUME NEW r \in Streams PROVE InOrder(r)'
  <2> SUFFICES ASSUME NEW u \in Spawned(r)', NEW w \in Spawned(r)',
                      NEW m \in DOMAIN delivered'[u], NEW n \in DOMAIN delivered'[w],
                      PutLater(u, m, w, n), delivered'[u][m] # Gone, delivered'[w][n] # Gone
               PROVE  delivered'[u][m] < delivered'[w][n]
    BY DEF InOrder, PutLater
  <2>1. InOrder(r) /\ u \in Virtual /\ w \in Virtual
    BY <1>9, <1>16, MessageParts DEF MInv
  <2>2. CASE r # s
    BY <1>9, <1>10, <2>1, <2>2 DEF InOrder
  <2>3. CASE r = s
    <3>1. u < w \/ (u = w /\ m < n)
      BY DEF PutLater
    <3>2. u <= v /\ w <= v
      BY <1>9, <2>3
    <3>3. CASE w # v
      <4>1. u # v
        BY <2>1, <3>1, <3>2, <3>3 DEF Virtual
      <4> QED BY <1>9, <1>10, <2>1, <2>3, <3>3, <4>1 DEF InOrder
    <3>4. CASE w = v /\ n \in DOMAIN queue
      <4>1. CASE u = v
        <5>1. m < n /\ m \in DOMAIN more
          BY <1>10, <2>1, <3>1, <3>4, <4>1 DEF Virtual
        <5>2. m \in DOMAIN queue
          BY <1>7, <3>4, <5>1
        <5>3. delivered'[u][m] = queue[m] /\ delivered'[w][n] = queue[n]
          BY <1>7, <1>10, <3>4, <4>1, <5>2
        <5>4. v \in Spawned(s)
          BY <1>17, <5>2
        <5> QED BY <1>3, <2>1, <2>3, <3>4, <4>1, <5>1, <5>2, <5>3, <5>4 DEF InOrder, PutLater
      <4>2. CASE u # v
        <5>1. u \in Spawned(s) /\ delivered'[u] = delivered[u]
          BY <1>9, <1>10, <2>1, <2>3, <4>2
        <5>2. delivered'[w][n] = queue[n] /\ queue[n] # Gone
          BY <1>7, <1>10, <3>4
        <5>3. v \in Spawned(s)
          BY <1>17, <3>4
        <5> QED BY <1>3, <2>1, <2>3, <3>4, <5>1, <5>2, <5>3 DEF InOrder
      <4> QED BY <4>1, <4>2
    <3>5. CASE w = v /\ n \notin DOMAIN queue
      <4>1. n = size + 1 /\ delivered'[w][n] = k
        BY <1>7, <1>10, <3>5
      <4>2. delivered'[u][m] \in 1 .. received[s]
        <5>1. CASE u = v
          <6>1. m \in DOMAIN queue
            <7>1. m \in DOMAIN more /\ m < n
              BY <1>10, <2>1, <3>1, <3>5, <5>1 DEF Virtual
            <7> QED BY <1>7, <4>1, <7>1
          <6>2. delivered'[u][m] \in Numbers(v)
            BY <1>3, <1>7, <1>10, <1>11, <5>1, <6>1 DEF Numbers, ToSet
          <6>3. v \in Spawned(s)
            BY <1>17, <6>1
          <6> QED BY <6>2, <6>3 DEF MInv, NumbersSoFar
        <5>2. CASE u # v
          <6>1. u \in Spawned(s) /\ delivered'[u] = delivered[u]
            BY <1>9, <1>10, <2>1, <2>3, <5>2
          <6>2. delivered'[u][m] \in Numbers(u)
            BY <6>1 DEF Numbers, ToSet
          <6> QED BY <6>1, <6>2 DEF MInv, NumbersSoFar
        <5> QED BY <5>1, <5>2
      <4> QED BY <1>8, <4>1, <4>2
    <3> QED BY <3>3, <3>4, <3>5
  <2> QED BY <2>2, <2>3
<1>21. ASSUME NEW r \in Streams, NEW j \in 1 .. received'[r] PROVE Arrives(r, j)'
  <2>1. CASE r = s /\ j = k
    BY <1>9, <1>12, <2>1 DEF Arrives
  <2>2. CASE ~ (r = s /\ j = k)
    <3>1. j \in 1 .. received[r]
      BY <1>8, <2>2
    <3>2. PICK w \in Spawned(r) : j \in Numbers(w) \/ Ended(w, j)
      BY <3>1, MessageParts DEF MInv, Arrives
    <3>3. w \in Spawned(r)' /\ w \in Virtual
      BY <1>9, <1>16
    <3>4. CASE j \in Numbers(w)
      BY <1>12, <3>3, <3>4 DEF Arrives
    <3>5. CASE Ended(w, j)
      <4>1. w \in disconnected /\ w # v
        BY <1>9, <3>5 DEF Ended
      <4>2. Numbers(w)' = Numbers(w) /\ disconnected' = disconnected
        BY <1>5, <1>12, <3>3, <4>1
      <4>3. Ended(w, j)'
        BY <3>5, <4>2 DEF Ended
      <4> QED BY <3>3, <4>3 DEF Arrives
    <3> QED BY <3>2, <3>4, <3>5
  <2> QED BY <2>1, <2>2
<1>22. EachMessageOnce'
  BY <1>19, <1>20, <1>21 DEF EachMessageOnce, GoneIsLast, InOrder, Arrives
<1> QED BY <1>13, <1>14, <1>15, <1>18, <1>22 DEF MInv

LEMMA MessagesStep == AInv /\ AInv' /\ MInv /\ [Next]_vars => MInv'
<1> SUFFICES ASSUME AInv, AInv', MInv, [Next]_vars PROVE MInv'
  OBVIOUS
<1>1. RelayTypeOK /\ RelayTypeOK'
  BY DEF AInv
<1>2. ASSUME NEW s \in Streams, Data(s) PROVE MInv'
  BY <1>1, <1>2, DataKeepsMessages
<1>3. ASSUME NEW s \in Streams, Overflow(s) \/ Reset(s) PROVE MInv'
  BY <1>1, <1>3, EndOneKeepsMessages
<1>4. CASE Close \/ SendFails
  <2>1. env = "up" /\ Finally /\ UNCHANGED <<table, received, name>>
    BY <1>4 DEF Close, SendFails, Receives
  <2> QED BY <1>1, <2>1, FinallyKeepsMessages
<1>5. CASE DisconnectResumes
  BY <1>1, <1>5, ResumeKeepsMessages
<1>6. CASE Pull \/ Send
  BY <1>6, OthersKeep DEF Pull, Send, loopVars, inVars
<1>7. ASSUME NEW v \in Virtual, TakeMessage(v) PROVE MInv'
  BY <1>7, OthersKeep DEF TakeMessage, loopVars
<1>8. ASSUME NEW v \in Virtual,
             RouteEnds(v) \/ RouteBreaks(v) \/ PutResumes(v) \/ CloseConnection(v) \/ Write(v)
      PROVE  MInv'
  BY <1>8, OthersKeep
     DEF RouteEnds, RouteBreaks, PutResumes, CloseConnection, Write, loopVars, inVars
<1>9. CASE UNCHANGED vars
  BY <1>9, OthersKeep DEF vars, loopVars, inVars
<1> QED BY <1>2, <1>3, <1>4, <1>5, <1>6, <1>7, <1>8, <1>9 DEF Next

\* Every message of a stream reaches one virtual stream, in order; none reaches
\* one that has been told to end, and only messages that found the queue full
\* are lost, each of which ended its virtual stream (the loop of
\* run_multiplexed_environment with _RelayVirtualStream.incoming and disconnect).
THEOREM MessagesReachOneStream == Spec => []EachMessageOnce
<1>1. MInv => EachMessageOnce
  BY DEF MInv
<1> QED BY <1>1, MessagesInit, MessagesStep, AnswersInvariant, PTL DEF Spec
=============================================================================
