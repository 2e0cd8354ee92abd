------------------------- MODULE TopicIngressProofs -------------------------
(* Theorems of TopicIngress, for any sources, chunks, readers and bounds.  *)
EXTENDS TopicIngress, SequenceTheorems, TLAPS

States == {"new", "open", "ended", "broken"}

\* What TypeOK says, with sequences by their type.
FlagsOK == firstSeen \in BOOLEAN /\ full \in BOOLEAN /\ destroyed \in BOOLEAN
IngressOK ==
    /\ source \in [Sources -> States]
    /\ written \in [Sources -> 0 .. Chunks + 1]
    /\ pipeQueue \in Seq(Sources) /\ accepted \in Seq(Sources) /\ behind \subseteq Sources
    /\ consuming \in Sources \cup {None} /\ active \in Sources \cup {None}
StreamOK ==
    /\ held \in AllChunks \cup {None} /\ stall \in {"none", "pending", "kept"}
    /\ buffer \in Seq(AllChunks) /\ waiting \in Seq(AllChunks) /\ dropped \subseteq AllChunks
ReadersOK ==
    /\ targets \subseteq Readers /\ detached \in 0 .. MaxDetached
    /\ received \in [Readers -> Seq(AllChunks)]

\* The readable side is below its mark whenever _transform() may push.
Room ==
    /\ Len(buffer) <= Cap /\ (stall = "none" => Len(buffer) < Cap)
    /\ held # None => stall = "none"
\* Nothing waits, and no source is paused, for a chunk that is in no transform.
Quiet == ~destroyed /\ ~InTransform => waiting = <<>> /\ ~full

\* Sources that wait have written nothing, and wait once; an open one has its
\* newline still to write.
Queueing ==
    /\ \A s \in Sources : source[s] = "new" => written[s] = 0 /\ consuming # s
    /\ \A s \in Sources : source[s] \in {"new", "open"} => written[s] <= Chunks
    /\ \A i \in DOMAIN pipeQueue :
          /\ source[pipeQueue[i]] # "new" /\ written[pipeQueue[i]] = 0
          /\ pipeQueue[i] # consuming
    /\ \A i, j \in DOMAIN pipeQueue : pipeQueue[i] = pipeQueue[j] => i = j

\* The source that is consumed is the active ingress as long as it is open.  Its
\* first chunk will be taken for the first unless it is behind others.
ActiveConsumed ==
    consuming # None /\ source[consuming] = "open" =>
        /\ active = consuming
        /\ written[consuming] = 0 => consuming \in behind \/ (~firstSeen /\ waiting = <<>>)

Typed == FlagsOK /\ IngressOK /\ StreamOK /\ ReadersOK
IInv == Typed /\ Room /\ Quiet /\ Queueing /\ ActiveConsumed /\ FirstChunkKept

\* What the stream has still to deliver, in order.
Rest == IF held = None THEN waiting ELSE <<held>> \o waiting
Line == buffer \o Rest

\* Chunk c comes before chunk d if the sources are accepted as acc says.
Before(acc, c, d) ==
    \E i, j \in DOMAIN acc :
        acc[i] = c[1] /\ acc[j] = d[1] /\ (i < j \/ (i = j /\ c[2] < d[2]))
Sorted(acc, q) == \A i, j \in DOMAIN q : i < j => Before(acc, q[i], q[j])
AllBefore(acc, p, q) == \A i \in DOMAIN p, j \in DOMAIN q : Before(acc, p[i], q[j])

\* Sources are accepted once; those that wait are the last ones accepted, in
\* that order, and the one that is consumed comes right before them.
Queued ==
    /\ \A i \in DOMAIN accepted : source[accepted[i]] # "new"
    /\ \A i, j \in DOMAIN accepted : accepted[i] = accepted[j] => i = j
    /\ consuming = None => Len(pipeQueue) = 0
    /\ consuming # None => /\ Len(pipeQueue) < Len(accepted)
                           /\ consuming = accepted[Len(accepted) - Len(pipeQueue)]
    /\ \A i \in DOMAIN pipeQueue : /\ Len(accepted) - Len(pipeQueue) + i \in DOMAIN accepted
                                   /\ pipeQueue[i] = accepted[Len(accepted) - Len(pipeQueue) + i]

\* A chunk on its way is one that its source wrote in its turn.
Past(c) ==
    /\ c[2] <= written[c[1]]
    /\ \E i \in DOMAIN accepted : accepted[i] = c[1] /\ i <= Len(accepted) - Len(pipeQueue)
AllPast(q) == \A i \in DOMAIN q : Past(q[i])

\* What each reader got is in order, and comes before what is on its way.
LineOrder == ~destroyed => AllPast(Line) /\ Sorted(accepted, Line)
ReaderOrder(r) ==
    /\ AllPast(received[r]) /\ Sorted(accepted, received[r])
    /\ ~destroyed => AllBefore(accepted, received[r], Line)
InOrder == LineOrder /\ \A r \in Readers : ReaderOrder(r)

\* Each chunk that was written is in one place.
Occurs(c, q) == \E i \in DOMAIN q : q[i] = c
Delivered(c) == \E r \in Readers : Occurs(c, received[r])
OnePlace(c) ==
    /\ c[2] <= written[c[1]] <=> Delivered(c) \/ Occurs(c, Line) \/ c \in dropped
    /\ ~(Delivered(c) /\ Occurs(c, Line)) /\ ~(Occurs(c, Line) /\ c \in dropped)
    /\ ~(Delivered(c) /\ c \in dropped)
Placed == ~destroyed => \A c \in AllChunks : OnePlace(c)

-----------------------------------------------------------------------------
(* Sequences of chunks.                                                    *)

LEMMA ElementsTyped ==
  ASSUME NEW S, NEW seq \in Seq(S)
  PROVE  Elements(seq) \subseteq S
  BY DEF Elements

\* What a push splits into chunks for the readers, for the readable and for the
\* writable side is the line without its first ones.
LEMMA SplitLine ==
  ASSUME NEW b \in Seq(AllChunks), NEW q \in Seq(AllChunks), NEW n \in 0 .. Len(q), NEW k \in 0 .. n,
         k > 0 => b = <<>>
  PROVE  /\ k \in 0 .. Len(b \o q)
         /\ (b \o SubSeq(q, k + 1, n)) \o SubSeq(q, n + 1, Len(q))
              = SubSeq(b \o q, k + 1, Len(b \o q))
         /\ SubSeq(q, 1, k) = SubSeq(b \o q, 1, k)
<1>1. /\ n \in Nat /\ k \in Nat /\ k <= n /\ n <= Len(q) /\ Len(q) \in Nat
      /\ Len(b \o q) = Len(b) + Len(q) /\ Len(b) \in Nat /\ b \o q \in Seq(AllChunks)
  OBVIOUS
<1>2. SubSeq(q, k + 1, n) \in Seq(AllChunks) /\ SubSeq(q, n + 1, Len(q)) \in Seq(AllChunks)
  OBVIOUS
<1>3. SubSeq(q, k + 1, n) \o SubSeq(q, n + 1, Len(q)) = SubSeq(q, k + 1, Len(q))
  <2>1. k + 1 \in 1 .. Len(q) + 1 /\ n \in (k + 1) - 1 .. Len(q) /\ Len(q) \in n .. Len(q)
    BY <1>1
  <2> QED
    BY <2>1, ConcatAdjacentSubSeq, Zenon
<1>4. (b \o SubSeq(q, k + 1, n)) \o SubSeq(q, n + 1, Len(q)) = b \o SubSeq(q, k + 1, Len(q))
  <2>1. PICK x \in Seq(AllChunks) : x = SubSeq(q, k + 1, n)
    BY <1>2, Zenon
  <2>2. PICK y \in Seq(AllChunks) : y = SubSeq(q, n + 1, Len(q))
    BY <1>2, Zenon
  <2>3. (b \o x) \o y = b \o (x \o y)
    BY ConcatAssociative
  <2> QED
    BY <1>3, <2>1, <2>2, <2>3, Zenon
<1>5. k \in 0 .. Len(b \o q)
  BY <1>1
<1>6. CASE k = 0
  <2>1. SubSeq(q, 1, Len(q)) = q /\ SubSeq(b \o q, 1, Len(b \o q)) = b \o q
    BY <1>1, SubSeqFull, Zenon
  <2>2. SubSeq(q, 1, 0) = <<>> /\ SubSeq(b \o q, 1, 0) = <<>>
    BY SubSeqEmpty
  <2>3. k + 1 = 1
    BY <1>6
  <2> QED
    BY <1>4, <1>5, <1>6, <2>1, <2>2, <2>3, Zenon
<1>7. CASE b = <<>>
  <2>1. b \o q = q /\ b \o SubSeq(q, k + 1, Len(q)) = SubSeq(q, k + 1, Len(q))
    <3>1. SubSeq(q, k + 1, Len(q)) \in Seq(AllChunks)
      BY <1>1
    <3> QED
      BY <1>7, <3>1, ConcatEmptySeq, Zenon
  <2> QED
    BY <1>4, <1>5, <2>1, Zenon
<1>8. k = 0 \/ b = <<>>
  BY <1>1
<1> QED
  BY <1>6, <1>7, <1>8, Zenon

LEMMA SubSeqItems ==
  ASSUME NEW S, NEW q \in Seq(S), NEW k \in 0 .. Len(q)
  PROVE  /\ SubSeq(q, 1, k) \in Seq(S) /\ SubSeq(q, k + 1, Len(q)) \in Seq(S)
         /\ DOMAIN SubSeq(q, 1, k) = 1 .. k
         /\ \A i \in 1 .. k : i \in DOMAIN q /\ SubSeq(q, 1, k)[i] = q[i]
         /\ DOMAIN SubSeq(q, k + 1, Len(q)) = 1 .. Len(q) - k
         /\ \A i \in 1 .. Len(q) - k : k + i \in DOMAIN q /\ SubSeq(q, k + 1, Len(q))[i] = q[k + i]
  OBVIOUS

LEMMA Slices ==
  ASSUME NEW S, NEW q \in Seq(S), NEW n \in 0 .. Len(q), NEW k \in 0 .. n
  PROVE  /\ SubSeq(q, k + 1, n) \in Seq(S) /\ Len(SubSeq(q, k + 1, n)) = n - k
         /\ SubSeq(q, n + 1, Len(q)) \in Seq(S) /\ Len(SubSeq(q, n + 1, Len(q))) = Len(q) - n
  OBVIOUS

LEMMA ConcatItems ==
  ASSUME NEW S, NEW p \in Seq(S), NEW q \in Seq(S)
  PROVE  /\ p \o q \in Seq(S) /\ DOMAIN (p \o q) = 1 .. Len(p) + Len(q)
         /\ DOMAIN p = 1 .. Len(p) /\ DOMAIN q = 1 .. Len(q)
         /\ \A i \in DOMAIN p : i \in DOMAIN (p \o q) /\ (p \o q)[i] = p[i]
         /\ \A i \in DOMAIN q : Len(p) + i \in DOMAIN (p \o q) /\ (p \o q)[Len(p) + i] = q[i]
         /\ \A i \in DOMAIN (p \o q) : i \in DOMAIN p \/ (i - Len(p) \in DOMAIN q /\ i > Len(p))
  OBVIOUS

LEMMA SortedSplit ==
  ASSUME NEW S, NEW acc, NEW q \in Seq(S), NEW k \in 0 .. Len(q), Sorted(acc, q)
  PROVE  /\ Sorted(acc, SubSeq(q, 1, k)) /\ Sorted(acc, SubSeq(q, k + 1, Len(q)))
         /\ AllBefore(acc, SubSeq(q, 1, k), SubSeq(q, k + 1, Len(q)))
<1>1. Sorted(acc, SubSeq(q, 1, k))
  BY SubSeqItems DEF Sorted
<1>2. Sorted(acc, SubSeq(q, k + 1, Len(q)))
  <2>1. \A i, j \in 1 .. Len(q) - k : i < j => k + i < k + j
    OBVIOUS
  <2> QED
    BY <2>1, SubSeqItems DEF Sorted
<1>3. AllBefore(acc, SubSeq(q, 1, k), SubSeq(q, k + 1, Len(q)))
  <2>1. \A i \in 1 .. k, j \in 1 .. Len(q) - k : i < k + j
    OBVIOUS
  <2> QED
    BY <2>1, SubSeqItems DEF Sorted, AllBefore
<1> QED
  BY <1>1, <1>2, <1>3

LEMMA SortedConcat ==
  ASSUME NEW S, NEW acc, NEW p \in Seq(S), NEW q \in Seq(S),
         Sorted(acc, p), Sorted(acc, q), AllBefore(acc, p, q)
  PROVE  Sorted(acc, p \o q)
<1> SUFFICES ASSUME NEW i \in DOMAIN (p \o q), NEW j \in DOMAIN (p \o q), i < j
             PROVE  Before(acc, (p \o q)[i], (p \o q)[j])
  BY DEF Sorted
<1>1. CASE i \in DOMAIN p /\ j \in DOMAIN p
  BY <1>1, ConcatItems DEF Sorted
<1>2. CASE i \in DOMAIN p /\ j - Len(p) \in DOMAIN q
  <2>1. (p \o q)[i] = p[i] /\ (p \o q)[j] = q[j - Len(p)]
    BY <1>2
  <2> QED
    BY <1>2, <2>1 DEF AllBefore
<1>3. CASE i - Len(p) \in DOMAIN q /\ j - Len(p) \in DOMAIN q /\ i > Len(p)
  <2>1. /\ (p \o q)[i] = q[i - Len(p)] /\ (p \o q)[j] = q[j - Len(p)]
        /\ i - Len(p) < j - Len(p)
    BY <1>3
  <2> QED
    BY <1>3, <2>1 DEF Sorted
<1>4. i > Len(p) => j \notin DOMAIN p
  BY ConcatItems
<1> QED
  BY <1>1, <1>2, <1>3, <1>4, ConcatItems

LEMMA ConcatFrom ==
  ASSUME NEW S, NEW p \in Seq(S), NEW q \in Seq(S)
  PROVE  \A i \in DOMAIN (p \o q) : \/ \E m \in DOMAIN p : (p \o q)[i] = p[m]
                                   \/ \E m \in DOMAIN q : (p \o q)[i] = q[m]
<1> SUFFICES ASSUME NEW i \in DOMAIN (p \o q)
             PROVE  \/ \E m \in DOMAIN p : (p \o q)[i] = p[m]
                    \/ \E m \in DOMAIN q : (p \o q)[i] = q[m]
  OBVIOUS
<1> QED
  OBVIOUS

LEMMA AllBeforeConcat ==
  ASSUME NEW S, NEW acc, NEW p \in Seq(S), NEW q \in Seq(S), NEW u \in Seq(S)
  PROVE  /\ AllBefore(acc, p, u) /\ AllBefore(acc, q, u) => AllBefore(acc, p \o q, u)
         /\ AllBefore(acc, u, p) /\ AllBefore(acc, u, q) => AllBefore(acc, u, p \o q)
<1>1. \A i \in DOMAIN (p \o q) : \/ \E m \in DOMAIN p : (p \o q)[i] = p[m]
                                \/ \E m \in DOMAIN q : (p \o q)[i] = q[m]
  BY ConcatFrom
<1> QED
  BY <1>1 DEF AllBefore

LEMMA AllBeforeSplit ==
  ASSUME NEW S, NEW acc, NEW p \in Seq(S), NEW q \in Seq(S), NEW k \in 0 .. Len(q),
         AllBefore(acc, p, q)
  PROVE  AllBefore(acc, p, SubSeq(q, 1, k)) /\ AllBefore(acc, p, SubSeq(q, k + 1, Len(q)))
  BY SubSeqItems DEF AllBefore

LEMMA OccursConcat ==
  ASSUME NEW S, NEW p \in Seq(S), NEW q \in Seq(S), NEW c
  PROVE  Occurs(c, p \o q) <=> Occurs(c, p) \/ Occurs(c, q)
<1>1. \A i \in DOMAIN p : i \in DOMAIN (p \o q) /\ (p \o q)[i] = p[i]
  BY ConcatItems
<1>2. \A i \in DOMAIN q : Len(p) + i \in DOMAIN (p \o q) /\ (p \o q)[Len(p) + i] = q[i]
  BY ConcatItems
<1>3. Occurs(c, p \o q) => Occurs(c, p) \/ Occurs(c, q)
  BY DEF Occurs
<1> QED
  BY <1>1, <1>2, <1>3, Zenon DEF Occurs

LEMMA OccursSplit ==
  ASSUME NEW S, NEW q \in Seq(S), NEW k \in 0 .. Len(q), NEW c
  PROVE  Occurs(c, q) <=> Occurs(c, SubSeq(q, 1, k)) \/ Occurs(c, SubSeq(q, k + 1, Len(q)))
<1>1. /\ 1 \in 1 .. Len(q) + 1 /\ k \in 1 - 1 .. Len(q) /\ Len(q) \in k .. Len(q)
      /\ SubSeq(q, 1, k) \in Seq(S) /\ SubSeq(q, k + 1, Len(q)) \in Seq(S)
  OBVIOUS
<1>2. SubSeq(q, 1, k) \o SubSeq(q, k + 1, Len(q)) = SubSeq(q, 1, Len(q))
  BY <1>1, ConcatAdjacentSubSeq, Zenon
<1>3. SubSeq(q, 1, Len(q)) = q
  BY SubSeqFull, Zenon
<1>4. PICK x \in Seq(S) : x = SubSeq(q, 1, k)
  BY <1>1, Zenon
<1>5. PICK y \in Seq(S) : y = SubSeq(q, k + 1, Len(q))
  BY <1>1, Zenon
<1>6. Occurs(c, x \o y) <=> Occurs(c, x) \/ Occurs(c, y)
  BY OccursConcat
<1>7. x \o y = q
  BY <1>2, <1>3, <1>4, <1>5, Zenon
<1> QED
  BY <1>4, <1>5, <1>6, <1>7, Zenon

-----------------------------------------------------------------------------
(* The parts of a step.                                                    *)

\* What a push does to the line: k chunks for the readers, and what it leaves.
PushSplits(q, rs, k, n) ==
    /\ buffer' = buffer \o SubSeq(q, k + 1, n) /\ waiting' = SubSeq(q, n + 1, Len(q))
    /\ Received(rs, SubSeq(q, 1, k))

LEMMA PushTyped ==
  ASSUME buffer \in Seq(AllChunks), NEW q \in Seq(AllChunks), NEW rs, Push(q, rs)
  PROVE  /\ \E n \in 0 .. Len(q) : \E k \in 0 .. n :
               (k > 0 => buffer = <<>>) /\ PushSplits(q, rs, k, n)
         /\ buffer' \in Seq(AllChunks) /\ waiting' \in Seq(AllChunks)
         /\ Len(buffer') <= Cap /\ (stall' = "none" => Len(buffer') < Cap)
         /\ stall' \in {"none", "pending"} /\ (stall' = "none" => waiting' = <<>>)
         /\ Len(buffer) < Cap /\ q # <<>> => Len(waiting') < Len(q)
<1> HIDE DEF AllChunks
<1>1. PICK k \in 0 .. Len(q), n \in 0 .. Len(q) :
        /\ k <= n /\ (k > 0 => buffer = <<>>)
        /\ n = Len(q) \/ Len(buffer) + n - k = Cap
        /\ Len(buffer) + n - k <= Cap
        /\ PushSplits(q, rs, k, n)
        /\ stall' = IF Len(buffer') = Cap THEN "pending" ELSE "none"
  BY Zenon DEF Push, PushSplits
<1>a. /\ Len(buffer) \in Nat /\ Len(q) \in Nat /\ Cap \in Nat \ {0} /\ k \in 0 .. n
      /\ k \in Nat /\ n \in Nat /\ k <= n /\ n <= Len(q)
  BY <1>1, TopicAssumption
<1>2. /\ SubSeq(q, k + 1, n) \in Seq(AllChunks) /\ Len(SubSeq(q, k + 1, n)) = n - k
      /\ SubSeq(q, n + 1, Len(q)) \in Seq(AllChunks) /\ Len(SubSeq(q, n + 1, Len(q))) = Len(q) - n
  BY <1>a, Slices
<1>3. buffer' = buffer \o SubSeq(q, k + 1, n) /\ waiting' = SubSeq(q, n + 1, Len(q))
  BY <1>1, Zenon DEF PushSplits
<1>4. PICK x \in Seq(AllChunks) : x = SubSeq(q, k + 1, n)
  BY <1>2, Zenon
<1>5. buffer \o x \in Seq(AllChunks) /\ Len(buffer \o x) = Len(buffer) + Len(x)
  OBVIOUS
<1>6. buffer' \in Seq(AllChunks) /\ Len(buffer') = Len(buffer) + (n - k)
  BY <1>2, <1>3, <1>4, <1>5, Zenon
<1>7. waiting' \in Seq(AllChunks) /\ Len(waiting') = Len(q) - n
  BY <1>2, <1>3, Zenon
<1>b. (n = Len(q) \/ Len(buffer) + n - k = Cap) /\ Len(buffer) + n - k <= Cap
  BY <1>1, Zenon
<1>8. Len(buffer') <= Cap /\ (Len(buffer') # Cap => Len(buffer') < Cap)
  <2>1. Len(buffer) + (n - k) <= Cap
    BY <1>a, <1>b
  <2>2. Len(buffer) + (n - k) # Cap => Len(buffer) + (n - k) < Cap
    BY <1>a, <2>1
  <2> QED
    BY <1>6, <2>1, <2>2, Zenon
<1>9. Len(buffer') # Cap => Len(waiting') = 0
  BY <1>a, <1>b, <1>6, <1>7
<1>10. waiting' # <<>> => Len(waiting') # 0
  BY <1>7
<1>11. Len(buffer) < Cap /\ q # <<>> => Len(waiting') < Len(q)
  BY <1>a, <1>b, <1>6, <1>7
<1>12. stall' \in {"none", "pending"} /\ (stall' = "none" => Len(buffer') # Cap)
  BY <1>1, Zenon
<1>13. \E m \in 0 .. Len(q) : \E l \in 0 .. m : (l > 0 => buffer = <<>>) /\ PushSplits(q, rs, l, m)
  BY <1>1, <1>a, Zenon
<1> QED
  BY <1>6, <1>7, <1>8, <1>9, <1>10, <1>11, <1>12, <1>13, Zenon

\* The three things that _transform() and write() do with a chunk.
Waits(c) == InTransform /\ waiting' = Append(waiting, c) /\ UNCHANGED <<held, stall, buffer, received, dropped>>
Pushed(c) == ~InTransform /\ targets # {} /\ Push(<<c>>, targets) /\ UNCHANGED <<held, dropped>>
Holds(c) == ~InTransform /\ held' = c /\ UNCHANGED <<waiting, stall, buffer, received, dropped>>
Drops(c) ==
    /\ ~InTransform /\ ~(active # None /\ ~firstSeen)
    /\ dropped' = dropped \cup {c} /\ UNCHANGED <<waiting, held, stall, buffer, received>>

LEMMA WriteCases ==
  ASSUME IngressOK, NEW s \in Sources, WriteChunk(s)
  PROVE  LET c == <<s, written[s] + 1>> IN
         /\ written' = [written EXCEPT ![s] = @ + 1]
         /\ Waits(c) \/ Pushed(c) \/ Holds(c) \/ Drops(c)
         /\ full' \in BOOLEAN /\ (full' => InTransform')
<1>1. full' = (InTransform' /\ (full \/ Len(waiting') + 1 >= Cap))
  BY Zenon DEF WriteChunk
<1>2. full' \in BOOLEAN /\ (full' => InTransform')
  <2> HIDE DEF InTransform
  <2> QED
    BY <1>1, Zenon
<1>3. written' = [written EXCEPT ![s] = @ + 1]
  BY Zenon DEF WriteChunk
<1>4. LET c == <<s, written[s] + 1>> IN Waits(c) \/ Pushed(c) \/ Holds(c) \/ Drops(c)
  BY Zenon DEF WriteChunk, Waits, Pushed, Holds, Drops
<1> QED
  BY <1>2, <1>3, <1>4, Zenon

\* A source that writes is the one consumed, and open.
Writes(s) ==
    /\ ~destroyed /\ consuming = s /\ source[s] = "open" /\ WriteChunk(s)
    /\ UNCHANGED <<targets, destroyed, accepted, detached>>

LEMMA WritesNext ==
  ASSUME NEW s \in Sources, Write(s) \/ End(s)
  PROVE  Writes(s) \/ UNCHANGED <<written, streams>>
  BY Zenon DEF Write, End, Writes

LEMMA ChunkTyped ==
  ASSUME IngressOK, Queueing, NEW s \in Sources, source[s] = "open"
  PROVE  <<s, written[s] + 1>> \in AllChunks /\ written[s] \in 0 .. Chunks
<1>1. written[s] \in 0 .. Chunks + 1 /\ written[s] <= Chunks
  BY DEF IngressOK, Queueing
<1>2. written[s] + 1 \in 1 .. Chunks + 1 /\ written[s] \in 0 .. Chunks
  BY <1>1, TopicAssumption
<1> QED
  BY <1>2, Zenon DEF AllChunks

\* consumePipe() goes on within the types.
LEMMA ConsumeNextTyped ==
  ASSUME IngressOK, NEW seen, consuming \in Sources, ConsumeNext(seen)
  PROVE  /\ pipeQueue' \in Seq(Sources) /\ behind' \subseteq Sources
         /\ consuming' \in Sources \cup {None} /\ active' \in Sources \cup {None}
<1>1. CASE pipeQueue # <<>>
  <2>1. /\ consuming' = Head(pipeQueue) /\ active' = Head(pipeQueue) /\ pipeQueue' = Tail(pipeQueue)
        /\ behind' \subseteq behind \cup {Head(pipeQueue)}
    BY <1>1, Zenon DEF ConsumeNext, Turns
  <2>2. Head(pipeQueue) \in Sources /\ Tail(pipeQueue) \in Seq(Sources) /\ behind \subseteq Sources
    BY <1>1 DEF IngressOK
  <2> QED
    BY <2>1, <2>2, Zenon
<1>2. CASE pipeQueue = <<>>
  BY <1>2 DEF ConsumeNext, IngressOK
<1> QED
  BY <1>1, <1>2

-----------------------------------------------------------------------------
(* Types and room.                                                         *)

LEMMA TypeParts == Typed /\ Room /\ Quiet => TypeOK
<1> SUFFICES ASSUME Typed, Room, Quiet PROVE TypeOK
  OBVIOUS
<1>1. firstSeen \in BOOLEAN /\ full \in BOOLEAN /\ destroyed \in BOOLEAN
  BY Zenon DEF Typed, FlagsOK
<1>2. Elements(pipeQueue) \cup Elements(accepted) \cup behind \subseteq Sources
  BY ElementsTyped DEF Typed, IngressOK
<1>3. Elements(buffer) \cup Elements(waiting) \subseteq AllChunks /\ Len(buffer) <= Cap
  BY ElementsTyped DEF Typed, StreamOK, Room
<1>4. DOMAIN received = Readers /\ \A r \in Readers : Elements(received[r]) \subseteq AllChunks
  BY ElementsTyped DEF Typed, ReadersOK
<1>5. /\ source \in [Sources -> {"new", "open", "ended", "broken"}]
      /\ written \in [Sources -> 0 .. Chunks + 1]
      /\ {consuming, active} \subseteq Sources \cup {None}
  BY DEF Typed, IngressOK, States
<1>6. /\ held \in AllChunks \cup {None} /\ stall \in {"none", "pending", "kept"}
      /\ targets \subseteq Readers /\ dropped \subseteq AllChunks /\ detached \in 0 .. MaxDetached
  BY Zenon DEF Typed, StreamOK, ReadersOK
<1>7. ~destroyed /\ (waiting # <<>> \/ full) => InTransform
  BY Zenon DEF Quiet
<1> QED
  BY <1>1, <1>2, <1>3, <1>4, <1>5, <1>6, <1>7, Zenon DEF TypeOK

LEMMA FlagsNext == IInv /\ [Next]_vars => FlagsOK'
<1> SUFFICES ASSUME IInv, [Next]_vars PROVE FlagsOK'
  OBVIOUS
<1>0. firstSeen \in BOOLEAN /\ full \in BOOLEAN /\ destroyed \in BOOLEAN /\ IngressOK
  BY Zenon DEF IInv, Typed, FlagsOK
<1>1. destroyed' \in BOOLEAN
  BY <1>0, Zenon DEF Next, vars, Accept, Write, End, Break, Attach, Detach, Deliver, DeleteTopic
<1>2. firstSeen' \in BOOLEAN
  <2>1. SeenOnWrite \in BOOLEAN
    BY <1>0, Zenon DEF SeenOnWrite
  <2>2. ASSUME NEW seen \in BOOLEAN, ConsumeNext(seen) PROVE firstSeen' \in BOOLEAN
    BY <2>2, Zenon DEF ConsumeNext, Turns
  <2>3. ASSUME NEW r \in Readers, Attach(r) PROVE firstSeen' \in BOOLEAN
    <3>1. \/ UNCHANGED firstSeen
          \/ firstSeen' = (firstSeen \/ (active' # None /\ Len(waiting') < Len(waiting)))
      BY <2>3, Zenon DEF Attach
    <3>2. (firstSeen \/ (active' # None /\ Len(waiting') < Len(waiting))) \in BOOLEAN
      BY <1>0, Zenon
    <3> QED
      BY <1>0, <3>1, <3>2, Zenon
  <2> QED
    BY <1>0, <2>1, <2>2, <2>3, Zenon DEF Next, vars, ingress, Accept, Turns, Write, End, Break,
       Detach, Deliver, DeleteTopic
<1>3. full' \in BOOLEAN
  <2>1. ASSUME NEW s \in Sources, WriteChunk(s) PROVE full' \in BOOLEAN
    BY <1>0, <2>1, WriteCases
  <2>2. ASSUME NEW r \in Readers, Attach(r) PROVE full' \in BOOLEAN
    <3>1. UNCHANGED full \/ full' = (full /\ InTransform')
      BY <2>2, Zenon DEF Attach, streams
    <3>2. (full /\ InTransform') \in BOOLEAN
      BY <1>0, Zenon
    <3> QED
      BY <1>0, <3>1, <3>2, Zenon
  <2> QED
    BY <1>0, <2>1, <2>2, Zenon DEF Next, vars, streams, Accept, Write, End, Break, Detach,
       Deliver, DeleteTopic
<1> QED
  BY <1>1, <1>2, <1>3, Zenon DEF FlagsOK

LEMMA IngressNext == IInv /\ [Next]_vars => IngressOK'
<1> SUFFICES ASSUME IInv, [Next]_vars PROVE IngressOK'
  OBVIOUS
<1> USE TopicAssumption
<1>0. IngressOK /\ Queueing
  BY DEF IInv, Typed
<1>1. ASSUME NEW s \in Sources, Accept(s) PROVE IngressOK'
  <2>1. /\ source' = [source EXCEPT ![s] = "open"] /\ accepted' = Append(accepted, s)
        /\ UNCHANGED written
    BY <1>1 DEF Accept
  <2>2. CASE consuming = None
    <3>1. consuming' = s /\ active' = s /\ UNCHANGED pipeQueue /\ behind' \subseteq behind \cup {s}
      BY <1>1, <2>2, Zenon DEF Accept, Turns
    <3> QED
      BY <1>0, <2>1, <3>1 DEF IngressOK, States
  <2>3. CASE consuming # None
    <3>1. pipeQueue' = Append(pipeQueue, s) /\ UNCHANGED <<consuming, active, behind>>
      BY <1>1, <2>3, Zenon DEF Accept
    <3> QED
      BY <1>0, <2>1, <3>1 DEF IngressOK, States
  <2> QED
    BY <2>2, <2>3
<1>2. ASSUME NEW s \in Sources, Write(s) \/ End(s) PROVE written' \in [Sources -> 0 .. Chunks + 1]
  <2>1. CASE Writes(s)
    <3>1. written' = [written EXCEPT ![s] = @ + 1] /\ source[s] = "open"
      BY <1>0, <2>1, WriteCases DEF Writes
    <3>2. written[s] \in 0 .. Chunks
      BY <1>0, <3>1, ChunkTyped
    <3> QED
      BY <1>0, <3>1, <3>2 DEF IngressOK
  <2>2. CASE UNCHANGED written
    BY <1>0, <2>2 DEF IngressOK
  <2> QED
    BY <1>2, <2>1, <2>2, WritesNext
<1>3. ASSUME NEW s \in Sources, Write(s) PROVE IngressOK'
  <2>1. UNCHANGED <<source, pipeQueue, consuming, active, behind, accepted>>
    BY <1>3 DEF Write
  <2> QED
    BY <1>0, <1>2, <1>3, <2>1 DEF IngressOK
<1>4. ASSUME NEW s \in Sources, End(s) PROVE IngressOK'
  <2>1. source' = [source EXCEPT ![s] = "ended"] /\ consuming = s /\ UNCHANGED accepted
    BY <1>4, Zenon DEF End
  <2>2. \E seen : ConsumeNext(seen)
    BY <1>4, Zenon DEF End
  <2>3. written' \in [Sources -> 0 .. Chunks + 1]
    BY <1>2, <1>4
  <2> QED
    BY <1>0, <2>1, <2>2, <2>3, ConsumeNextTyped DEF IngressOK, States
<1>5. ASSUME NEW s \in Sources, Break(s) PROVE IngressOK'
  <2>1. source' = [source EXCEPT ![s] = "broken"] /\ UNCHANGED <<written, accepted>>
    BY <1>5, Zenon DEF Break
  <2>2. UNCHANGED ingress \/ (consuming = s /\ ConsumeNext(firstSeen))
    BY <1>5, Zenon DEF Break
  <2> QED
    BY <1>0, <2>1, <2>2, ConsumeNextTyped DEF ingress, IngressOK, States
<1>6. ASSUME NEW r \in Readers, Attach(r) PROVE IngressOK'
  <2>1. UNCHANGED <<source, written, pipeQueue, consuming, behind, accepted>> /\ active' \in {active, None}
    BY <1>6, Zenon DEF Attach
  <2> QED
    BY <1>0, <2>1 DEF IngressOK
<1>7. CASE UNCHANGED <<source, written, ingress, accepted>>
  BY <1>0, <1>7 DEF ingress, IngressOK
<1>8. \/ \E s \in Sources : Accept(s) \/ Write(s) \/ End(s) \/ Break(s)
      \/ \E r \in Readers : Attach(r)
      \/ UNCHANGED <<source, written, ingress, accepted>>
  BY Zenon DEF Next, vars, Detach, Deliver, DeleteTopic
<1> QED
  BY <1>1, <1>3, <1>4, <1>5, <1>6, <1>7, <1>8, Zenon

\* What a push gives the readers.
LEMMA ReceivedTyped ==
  ASSUME ReadersOK, NEW q \in Seq(AllChunks), NEW rs, Received(rs, q)
  PROVE  /\ received' \in [Readers -> Seq(AllChunks)]
         /\ \A r \in Readers : received'[r] = IF r \in rs THEN received[r] \o q ELSE received[r]
<1> HIDE DEF AllChunks
<1>1. received' = [r \in Readers |-> IF r \in rs THEN received[r] \o q ELSE received[r]]
  BY Zenon DEF Received
<1>2. \A r \in Readers : received[r] \in Seq(AllChunks)
  BY DEF ReadersOK
<1>3. \A r \in Readers : received[r] \o q \in Seq(AllChunks)
  BY <1>2
<1> QED
  BY <1>1, <1>2, <1>3, Zenon

LEMMA PushReceives ==
  ASSUME StreamOK, ReadersOK, NEW q \in Seq(AllChunks), NEW rs, Push(q, rs)
  PROVE  received' \in [Readers -> Seq(AllChunks)]
<1> HIDE DEF AllChunks
<1>1. PICK n \in 0 .. Len(q) : \E k \in 0 .. n : PushSplits(q, rs, k, n)
  BY PushTyped, Zenon DEF StreamOK
<1>2. PICK k \in 0 .. n : PushSplits(q, rs, k, n)
  BY <1>1
<1>3. SubSeq(q, 1, k) \in Seq(AllChunks) /\ Received(rs, SubSeq(q, 1, k))
  BY <1>2 DEF PushSplits
<1> QED
  BY <1>3, ReceivedTyped

RoomAndStream == StreamOK /\ Room /\ Quiet

\* A write keeps the stream within its types.
LEMMA WriteStream ==
  ASSUME IngressOK, StreamOK, Room, Quiet, Queueing, NEW s \in Sources, Writes(s)
  PROVE  RoomAndStream'
<1> HIDE DEF AllChunks
<1> DEFINE c == <<s, written[s] + 1>>
<1>0. ~destroyed /\ source[s] = "open" /\ WriteChunk(s)
  BY Zenon DEF Writes
<1>1. c \in AllChunks
  BY <1>0, ChunkTyped
<1>2. (Waits(c) \/ Pushed(c) \/ Holds(c) \/ Drops(c)) /\ (full' => InTransform')
  BY <1>0, WriteCases
<1>3. c # None
  BY <1>1, TopicAssumption DEF AllChunks
<1> HIDE DEF c
<1>4. CASE Waits(c)
  <2>1. InTransform /\ waiting' = Append(waiting, c) /\ UNCHANGED <<held, stall, buffer, dropped>>
    BY <1>4 DEF Waits
  <2>2. InTransform'
    BY <2>1, Zenon DEF InTransform
  <2>3. waiting' \in Seq(AllChunks)
    BY <1>1, <2>1 DEF StreamOK
  <2> QED
    BY <2>1, <2>2, <2>3, Zenon DEF RoomAndStream, StreamOK, Room, Quiet
<1>5. CASE Pushed(c)
  <2>1. Push(<<c>>, targets) /\ UNCHANGED <<held, dropped>> /\ ~InTransform /\ buffer \in Seq(AllChunks)
    BY <1>5, Zenon DEF Pushed, StreamOK
  <2>2. <<c>> \in Seq(AllChunks)
    BY <1>1
  <2>3. /\ buffer' \in Seq(AllChunks) /\ waiting' \in Seq(AllChunks)
        /\ Len(buffer') <= Cap /\ (stall' = "none" => Len(buffer') < Cap)
        /\ stall' \in {"none", "pending"} /\ (stall' = "none" => waiting' = <<>>)
    BY <2>1, <2>2, PushTyped, Zenon
  <2>4. held' = None
    BY <2>1, Zenon DEF InTransform
  <2>5. ~InTransform' => waiting' = <<>> /\ ~full'
    BY <1>2, <2>3, Zenon DEF InTransform
  <2> QED
    BY <2>1, <2>3, <2>4, <2>5, Zenon DEF RoomAndStream, StreamOK, Room, Quiet
<1>6. CASE Holds(c)
  <2>1. held' = c /\ UNCHANGED <<waiting, stall, buffer, dropped>> /\ ~InTransform
    BY <1>6 DEF Holds
  <2>2. stall = "none"
    BY <2>1, Zenon DEF InTransform
  <2>3. InTransform'
    BY <1>3, <2>1, Zenon DEF InTransform
  <2> QED
    BY <1>1, <2>1, <2>2, <2>3, Zenon DEF RoomAndStream, StreamOK, Room, Quiet
<1>7. CASE Drops(c)
  <2>1. /\ dropped' = dropped \cup {c} /\ UNCHANGED <<waiting, held, stall, buffer>> /\ ~InTransform
    BY <1>7 DEF Drops
  <2>2. waiting = <<>> /\ ~full'
    BY <1>0, <1>2, <2>1, Zenon DEF Quiet, InTransform
  <2>3. dropped' \subseteq AllChunks
    BY <1>1, <2>1 DEF StreamOK
  <2> QED
    BY <2>1, <2>2, <2>3, Zenon DEF RoomAndStream, StreamOK, Room, Quiet
<1> QED
  BY <1>2, <1>4, <1>5, <1>6, <1>7, Zenon

\* What a reader that comes is pushed: the held chunk and those behind it.
LEMMA AttachCases ==
  ASSUME StreamOK, Room, NEW r \in Readers, Attach(r)
  PROVE  /\ held = None => UNCHANGED streams
         /\ held # None =>
               /\ <<held>> \o waiting \in Seq(AllChunks) /\ Push(<<held>> \o waiting, targets')
               /\ held' = None /\ UNCHANGED dropped /\ (full' => InTransform')
               /\ Len(waiting') <= Len(waiting)
<1> HIDE DEF AllChunks
<1>1. CASE held = None
  BY <1>1, Zenon DEF Attach
<1>2. CASE held # None
  <2>1. Push(<<held>> \o waiting, targets') /\ held' = None /\ UNCHANGED dropped
    BY <1>2, Zenon DEF Attach
  <2>2. full' = (full /\ InTransform')
    BY <1>2, Zenon DEF Attach
  <2>3. held \in AllChunks /\ waiting \in Seq(AllChunks) /\ Len(buffer) < Cap /\ buffer \in Seq(AllChunks)
    BY <1>2, Zenon DEF StreamOK, Room
  <2>4. /\ <<held>> \o waiting \in Seq(AllChunks) /\ <<held>> \o waiting # <<>>
        /\ Len(<<held>> \o waiting) = Len(waiting) + 1 /\ Len(waiting) \in Nat
    BY <2>3
  <2>5. Len(waiting') < Len(<<held>> \o waiting) /\ waiting' \in Seq(AllChunks)
    BY <2>1, <2>3, <2>4, PushTyped, Zenon
  <2>6. Len(waiting') \in Nat
    BY <2>5
  <2>7. Len(waiting') <= Len(waiting)
    BY <2>4, <2>5, <2>6
  <2> QED
    BY <1>2, <2>1, <2>2, <2>4, <2>7, Zenon
<1> QED
  BY <1>1, <1>2, Zenon

LEMMA AttachStream ==
  ASSUME StreamOK, Room, Quiet, NEW r \in Readers, Attach(r)
  PROVE  RoomAndStream'
<1> HIDE DEF AllChunks
<1>0. ~destroyed' /\ ~destroyed
  BY Zenon DEF Attach
<1>1. CASE held = None
  <2>1. UNCHANGED streams
    BY <1>1, AttachCases, Zenon
  <2> QED
    BY <1>0, <2>1, Zenon DEF streams, RoomAndStream, StreamOK, Room, Quiet, InTransform
<1>2. CASE held # None
  <2>1. /\ <<held>> \o waiting \in Seq(AllChunks) /\ Push(<<held>> \o waiting, targets')
        /\ held' = None /\ UNCHANGED dropped /\ (full' => InTransform')
    BY <1>2, AttachCases, Zenon
  <2>2. buffer \in Seq(AllChunks)
    BY DEF StreamOK
  <2>3. /\ buffer' \in Seq(AllChunks) /\ waiting' \in Seq(AllChunks)
        /\ Len(buffer') <= Cap /\ (stall' = "none" => Len(buffer') < Cap)
        /\ stall' \in {"none", "pending"} /\ (stall' = "none" => waiting' = <<>>)
    BY <2>1, <2>2, PushTyped, Zenon
  <2>4. ~InTransform' => waiting' = <<>> /\ ~full'
    BY <2>1, <2>3, Zenon DEF InTransform
  <2> QED
    BY <2>1, <2>3, <2>4, Zenon DEF RoomAndStream, StreamOK, Room, Quiet
<1> QED
  BY <1>1, <1>2

LEMMA StreamNext == IInv /\ [Next]_vars => StreamOK' /\ Room' /\ Quiet'
<1> SUFFICES ASSUME IInv, [Next]_vars PROVE RoomAndStream'
  BY Zenon DEF RoomAndStream
<1> HIDE DEF AllChunks
<1>0. IngressOK /\ StreamOK /\ Room /\ Quiet /\ Queueing
  BY Zenon DEF IInv, Typed
<1>1. CASE \E s \in Sources : Writes(s)
  BY <1>0, <1>1, WriteStream
<1>2. CASE \E r \in Readers : Attach(r)
  BY <1>0, <1>2, AttachStream
<1>3. CASE Deliver
  <2>1. /\ buffer # <<>> /\ buffer' = Tail(buffer) /\ UNCHANGED <<waiting, full, held, dropped, destroyed>>
        /\ stall' = IF stall = "pending" THEN "kept" ELSE stall
    BY <1>3, Zenon DEF Deliver
  <2>2. buffer' \in Seq(AllChunks) /\ Len(buffer') < Len(buffer) /\ Len(buffer) \in Nat
        /\ Len(buffer') \in Nat
    BY <1>0, <2>1 DEF StreamOK
  <2>3. Len(buffer') < Cap
    BY <1>0, <2>2, TopicAssumption DEF Room
  <2>4. Len(buffer') <= Cap
    BY <2>2, <2>3, TopicAssumption
  <2>5. stall' \in {"none", "pending", "kept"} /\ (stall' = "none" <=> stall = "none")
    BY <1>0, <2>1, Zenon DEF StreamOK
  <2>6. InTransform' <=> InTransform
    BY <2>1, <2>5, Zenon DEF InTransform
  <2> QED
    BY <1>0, <2>1, <2>2, <2>3, <2>4, <2>5, <2>6, Zenon DEF RoomAndStream, StreamOK, Room, Quiet
<1>4. CASE /\ UNCHANGED <<waiting, full, stall, buffer, dropped>>
           /\ (UNCHANGED <<held, destroyed>> \/ (held' = None /\ destroyed'))
  BY <1>0, <1>4, Zenon DEF RoomAndStream, StreamOK, Room, Quiet, InTransform
<1>5. \/ \E s \in Sources : Writes(s)
      \/ \E r \in Readers : Attach(r)
      \/ Deliver
      \/ /\ UNCHANGED <<waiting, full, stall, buffer, dropped>>
         /\ (UNCHANGED <<held, destroyed>> \/ (held' = None /\ destroyed'))
  <2>1. ASSUME NEW s \in Sources, Write(s) \/ End(s)
        PROVE  Writes(s) \/ (UNCHANGED streams /\ UNCHANGED destroyed)
    BY <2>1, Zenon DEF Write, End, Writes
  <2> QED
    BY <2>1, Zenon DEF Next, vars, streams, Accept, Break, Detach, DeleteTopic
<1> QED
  BY <1>1, <1>2, <1>3, <1>4, <1>5

LEMMA ReadersNext == IInv /\ [Next]_vars => ReadersOK'
<1> SUFFICES ASSUME IInv, [Next]_vars PROVE ReadersOK'
  OBVIOUS
<1> USE TopicAssumption
<1> HIDE DEF AllChunks
<1>0. IngressOK /\ StreamOK /\ Room /\ Quiet /\ Queueing /\ ReadersOK
  BY Zenon DEF IInv, Typed
<1>1. ASSUME NEW s \in Sources, Writes(s) PROVE received' \in [Readers -> Seq(AllChunks)]
  <2> DEFINE c == <<s, written[s] + 1>>
  <2>1. source[s] = "open" /\ WriteChunk(s)
    BY <1>1, Zenon DEF Writes
  <2>2. <<c>> \in Seq(AllChunks)
    BY <1>0, <2>1, ChunkTyped
  <2>3. Waits(c) \/ Pushed(c) \/ Holds(c) \/ Drops(c)
    BY <1>0, <2>1, WriteCases
  <2> HIDE DEF c
  <2>4. UNCHANGED received \/ Push(<<c>>, targets)
    BY <2>3, Zenon DEF Waits, Pushed, Holds, Drops
  <2> QED
    BY <1>0, <2>2, <2>4, PushReceives, Zenon DEF ReadersOK
<1>2. ASSUME NEW r \in Readers, Attach(r) PROVE ReadersOK'
  <2>1. targets' = targets \cup {r} /\ UNCHANGED detached
    BY <1>2, Zenon DEF Attach
  <2>2. UNCHANGED received \/ (<<held>> \o waiting \in Seq(AllChunks) /\ Push(<<held>> \o waiting, targets'))
    BY <1>0, <1>2, AttachCases, Zenon DEF streams
  <2>3. received' \in [Readers -> Seq(AllChunks)]
    BY <1>0, <2>2, PushReceives, Zenon DEF ReadersOK
  <2> QED
    BY <1>0, <2>1, <2>3 DEF ReadersOK
<1>3. CASE Deliver
  <2>1. Received(targets, <<Head(buffer)>>) /\ UNCHANGED <<targets, detached>> /\ buffer # <<>>
    BY <1>3, Zenon DEF Deliver
  <2>2. <<Head(buffer)>> \in Seq(AllChunks)
    BY <1>0, <2>1 DEF StreamOK
  <2> QED
    BY <1>0, <2>1, <2>2, ReceivedTyped, Zenon DEF ReadersOK
<1>4. ASSUME NEW rs, Detach(rs) PROVE ReadersOK'
  <2>1. UNCHANGED received /\ targets' = targets \ rs /\ detached < MaxDetached /\ detached' = detached + 1
    BY <1>4, Zenon DEF Detach, streams
  <2> QED
    BY <1>0, <2>1 DEF ReadersOK
<1>5. CASE UNCHANGED received /\ targets' \in {targets, {}} /\ UNCHANGED detached
  BY <1>0, <1>5 DEF ReadersOK
<1>6. \/ \E s \in Sources : Writes(s) /\ UNCHANGED <<targets, detached>>
      \/ \E r \in Readers : Attach(r)
      \/ Deliver \/ \E rs : Detach(rs)
      \/ UNCHANGED received /\ targets' \in {targets, {}} /\ UNCHANGED detached
  <2>1. ASSUME NEW s \in Sources, Write(s) \/ End(s)
        PROVE  Writes(s) \/ (UNCHANGED received /\ targets' = targets /\ UNCHANGED detached)
    BY <2>1, Zenon DEF Write, End, Writes, streams
  <2> QED
    BY <2>1, Zenon DEF Next, vars, streams, Accept, Break, DeleteTopic, Writes
<1>7. ASSUME NEW s \in Sources, Writes(s), UNCHANGED <<targets, detached>> PROVE ReadersOK'
  BY <1>0, <1>1, <1>7, Zenon DEF ReadersOK
<1> QED
  BY <1>2, <1>3, <1>4, <1>5, <1>6, <1>7, Zenon

-----------------------------------------------------------------------------
(* The first chunk of a source.                                            *)

LEMMA FirstKept ==
  ASSUME FirstChunkKept, UNCHANGED dropped, behind \subseteq behind'
  PROVE  FirstChunkKept'
  BY DEF FirstChunkKept

\* consumePipe() never takes a source off those that are behind.
LEMMA BehindGrows ==
  ASSUME [Next]_vars
  PROVE  behind \subseteq behind'
<1>1. ASSUME NEW seen, ConsumeNext(seen) PROVE behind \subseteq behind'
  <2>1. behind' = behind \/ \E s : behind' = behind \cup {s}
    BY <1>1, Zenon DEF ConsumeNext, Turns
  <2> QED
    BY <2>1
<1>2. ASSUME NEW s \in Sources, Accept(s) PROVE behind \subseteq behind'
  <2>1. behind' = behind \/ behind' = behind \cup {s}
    BY <1>2, Zenon DEF Accept, Turns
  <2> QED
    BY <2>1
<1>3. \/ \E s \in Sources : Accept(s)
      \/ \E seen : ConsumeNext(seen)
      \/ UNCHANGED behind
  BY Zenon DEF Next, vars, ingress, Write, End, Break, Attach, Detach, Deliver, DeleteTopic
<1> QED
  BY <1>1, <1>2, <1>3

\* The next source has its turn from the first chunk on, or is behind.
LEMMA NextConsumed ==
  ASSUME IngressOK, Queueing, consuming # None, NEW seen, ConsumeNext(seen),
         \A i \in DOMAIN pipeQueue : /\ source'[pipeQueue[i]] = source[pipeQueue[i]]
                                     /\ written'[pipeQueue[i]] = written[pipeQueue[i]],
         \A s \in Sources : source'[s] \in {"new", "open"} =>
                                source[s] = source'[s] /\ written'[s] = written[s]
  PROVE  Queueing' /\ ActiveConsumed'
<1> USE TopicAssumption DEF IngressOK, Queueing
<1>0. /\ \A s \in Sources : source'[s] = "new" => source[s] = "new" /\ written'[s] = 0 /\ consuming # s
      /\ \A s \in Sources : source'[s] \in {"new", "open"} => written'[s] <= Chunks
  OBVIOUS
<1>1. CASE pipeQueue # <<>>
  <2>1. consuming' = Head(pipeQueue) /\ pipeQueue' = Tail(pipeQueue) /\ active' = Head(pipeQueue)
    BY <1>1, Zenon DEF ConsumeNext, Turns
  <2>2. ~firstSeen' /\ behind' = IF waiting' = <<>> THEN behind ELSE behind \cup {consuming'}
    BY <1>1, Zenon DEF ConsumeNext, Turns
  <2>3. /\ 1 \in DOMAIN pipeQueue /\ Head(pipeQueue) = pipeQueue[1]
        /\ \A i \in DOMAIN pipeQueue' :
              i + 1 \in DOMAIN pipeQueue /\ pipeQueue'[i] = pipeQueue[i + 1] /\ i \in Nat \ {0}
    BY <1>1, <2>1
  <2>4. Queueing'
    BY <1>0, <2>1, <2>3
  <2>5. waiting' = <<>> \/ consuming' \in behind'
    BY <2>2, Zenon
  <2> QED
    BY <2>1, <2>2, <2>4, <2>5, Zenon DEF ActiveConsumed
<1>2. CASE pipeQueue = <<>>
  <2>1. consuming' = None /\ UNCHANGED pipeQueue
    BY <1>2, Zenon DEF ConsumeNext
  <2>2. Queueing'
    BY <1>0, <1>2, <2>1
  <2> QED
    BY <2>1, <2>2, Zenon DEF ActiveConsumed
<1> QED
  BY <1>1, <1>2

\* A chunk that is discarded is not the first, or its source was behind others.
LEMMA WriteFirst ==
  ASSUME IngressOK, Queueing, ActiveConsumed, FirstChunkKept, behind \subseteq behind',
         NEW s \in Sources, Writes(s)
  PROVE  FirstChunkKept'
<1> DEFINE c == <<s, written[s] + 1>>
<1>0. consuming = s /\ source[s] = "open" /\ WriteChunk(s) /\ s # None /\ written[s] \in Nat
  BY TopicAssumption DEF Writes, IngressOK
<1>1. Waits(c) \/ Pushed(c) \/ Holds(c) \/ Drops(c)
  BY <1>0, WriteCases
<1>2. written[s] = 0 => s \in behind \/ ~firstSeen
  BY <1>0, Zenon DEF ActiveConsumed
<1>3. active = s
  BY <1>0, Zenon DEF ActiveConsumed
<1>4. UNCHANGED dropped \/ (firstSeen /\ dropped' = dropped \cup {c})
  BY <1>0, <1>1, <1>3, Zenon DEF Waits, Pushed, Holds, Drops
<1>5. UNCHANGED dropped \/ ((written[s] # 0 \/ s \in behind) /\ dropped' = dropped \cup {c})
  BY <1>2, <1>4, Zenon
<1>6. ASSUME NEW t \in Sources, <<t, 1>> = c PROVE t = s /\ written[s] = 0
  <2>1. t = s /\ 1 = written[s] + 1
    BY <1>6
  <2> QED
    BY <1>0, <2>1
<1> HIDE DEF c
<1> QED
  BY <1>5, <1>6 DEF FirstChunkKept

LEMMA ActiveNext ==
  IInv /\ [Next]_vars => Queueing' /\ ActiveConsumed' /\ FirstChunkKept'
<1> SUFFICES ASSUME IInv, [Next]_vars PROVE Queueing' /\ ActiveConsumed' /\ FirstChunkKept'
  OBVIOUS
<1>0. /\ IngressOK /\ StreamOK /\ Room /\ Queueing /\ ActiveConsumed /\ FirstChunkKept
      /\ behind \subseteq behind'
  BY BehindGrows, Zenon DEF IInv, Typed
<1> USE TopicAssumption
<1>1. ASSUME NEW s \in Sources, Accept(s) PROVE Queueing' /\ ActiveConsumed' /\ FirstChunkKept'
  <2>1. /\ source[s] = "new" /\ source' = [source EXCEPT ![s] = "open"]
        /\ UNCHANGED <<written, dropped, waiting>>
    BY <1>1, Zenon DEF Accept, streams
  <2>2. FirstChunkKept'
    BY <1>0, <2>1, FirstKept
  <2>3. CASE consuming = None
    <3>1. consuming' = s /\ active' = s /\ UNCHANGED pipeQueue
      BY <1>1, <2>3, Zenon DEF Accept, Turns
    <3>2. ~firstSeen' /\ (waiting' = <<>> \/ s \in behind')
      <4>1. ~firstSeen' /\ behind' = IF waiting' = <<>> THEN behind ELSE behind \cup {s}
        BY <1>1, <2>3, Zenon DEF Accept, Turns
      <4> QED
        BY <4>1, Zenon
    <3>3. Queueing'
      BY <1>0, <2>1, <3>1 DEF IngressOK, Queueing
    <3>4. ActiveConsumed'
      BY <3>1, <3>2, Zenon DEF ActiveConsumed
    <3> QED
      BY <2>2, <3>3, <3>4
  <2>4. CASE consuming # None
    <3>1. pipeQueue' = Append(pipeQueue, s) /\ UNCHANGED <<consuming, active, behind>>
      BY <1>1, <2>4, Zenon DEF Accept
    <3>2. firstSeen' <=> firstSeen
      BY <1>1, <2>4, Zenon DEF Accept
    <3>3. consuming # s /\ consuming \in Sources
      BY <1>0, <2>1, <2>4 DEF Queueing, IngressOK
    <3>4. /\ DOMAIN pipeQueue' = DOMAIN pipeQueue \cup {Len(pipeQueue) + 1}
          /\ pipeQueue'[Len(pipeQueue) + 1] = s
          /\ \A i \in DOMAIN pipeQueue : i # Len(pipeQueue) + 1 /\ pipeQueue'[i] = pipeQueue[i]
      BY <1>0, <3>1 DEF IngressOK
    <3>5. Queueing'
      BY <1>0, <2>1, <3>1, <3>3, <3>4 DEF IngressOK, Queueing
    <3>6. source'[consuming] = source[consuming]
      BY <1>0, <2>1, <3>3 DEF IngressOK
    <3>7. ActiveConsumed'
      BY <1>0, <2>1, <3>1, <3>2, <3>6, Zenon DEF ActiveConsumed
    <3> QED
      BY <2>2, <3>5, <3>7
  <2> QED
    BY <2>3, <2>4
<1>2. ASSUME NEW s \in Sources, Write(s) PROVE Queueing' /\ ActiveConsumed' /\ FirstChunkKept'
  <2>1. /\ consuming = s /\ source[s] = "open" /\ written[s] < Chunks /\ Writes(s)
        /\ UNCHANGED <<source, pipeQueue, consuming, active>>
    BY <1>2, Zenon DEF Write, Writes
  <2>2. written' = [written EXCEPT ![s] = @ + 1] /\ written[s] \in Nat
    <3>1. WriteChunk(s)
      BY <2>1, Zenon DEF Writes
    <3>2. written' = [written EXCEPT ![s] = @ + 1]
      BY <1>0, <3>1, WriteCases, Zenon
    <3> QED
      BY <1>0, <3>2 DEF IngressOK
  <2>3. written'[s] = written[s] + 1 /\ \A t \in Sources : t # s => written'[t] = written[t]
    BY <1>0, <2>2 DEF IngressOK
  <2>4. written'[s] # 0 /\ written'[s] <= Chunks
    BY <2>1, <2>2, <2>3
  <2>5. Queueing'
    BY <1>0, <2>1, <2>3, <2>4 DEF IngressOK, Queueing
  <2>6. active = s
    BY <1>0, <2>1, Zenon DEF ActiveConsumed
  <2>7. ActiveConsumed'
    BY <2>1, <2>4, <2>6, Zenon DEF ActiveConsumed
  <2> QED
    BY <1>0, <2>1, <2>5, <2>7, WriteFirst
<1>3. ASSUME NEW s \in Sources, End(s) \/ Break(s) PROVE Queueing' /\ ActiveConsumed' /\ FirstChunkKept'
  <2>1. /\ source[s] = "open" /\ s # None
        /\ \E state \in {"ended", "broken"} : source' = [source EXCEPT ![s] = state]
    BY <1>3, Zenon DEF End, Break
  <2>2. UNCHANGED <<written, dropped>> \/ (Writes(s) /\ written' = [written EXCEPT ![s] = @ + 1])
    <3>1. Break(s) => UNCHANGED <<written, dropped>>
      BY Zenon DEF Break
    <3>2. End(s) => Writes(s) \/ UNCHANGED <<written, dropped>>
      BY WritesNext, Zenon DEF streams
    <3>3. Writes(s) => written' = [written EXCEPT ![s] = @ + 1]
      BY <1>0, WriteCases DEF Writes
    <3> QED
      BY <1>3, <3>1, <3>2, <3>3, Zenon
  <2>3. FirstChunkKept'
    BY <1>0, <2>2, FirstKept, WriteFirst
  <2>4. \A t \in Sources : t # s => source'[t] = source[t] /\ written'[t] = written[t]
    BY <1>0, <2>1, <2>2 DEF IngressOK
  <2>5. source'[s] \notin {"new", "open"}
    BY <1>0, <2>1 DEF IngressOK
  <2>6. ASSUME NEW seen, consuming = s, ConsumeNext(seen) PROVE Queueing' /\ ActiveConsumed'
    <3>1. \A i \in DOMAIN pipeQueue : pipeQueue[i] # s /\ pipeQueue[i] \in Sources
      BY <1>0, <2>6 DEF Queueing, IngressOK
    <3>2. \A i \in DOMAIN pipeQueue : /\ source'[pipeQueue[i]] = source[pipeQueue[i]]
                                      /\ written'[pipeQueue[i]] = written[pipeQueue[i]]
      BY <2>4, <3>1, Zenon
    <3>3. \A t \in Sources : source'[t] \in {"new", "open"} =>
                                 source[t] = source'[t] /\ written'[t] = written[t]
      BY <2>4, <2>5, Zenon
    <3>4. consuming # None
      BY <2>6
    <3> QED
      BY <1>0, <2>6, <3>2, <3>3, <3>4, NextConsumed
  <2>7. CASE UNCHANGED ingress /\ UNCHANGED <<waiting, written>>
    <3>1. UNCHANGED <<pipeQueue, consuming, active, behind>>
      BY <2>7 DEF ingress
    <3>2. firstSeen' <=> firstSeen
      BY <2>7, Zenon DEF ingress
    <3>3. Queueing'
      <4>1. \A i \in DOMAIN pipeQueue : source'[pipeQueue[i]] # "new"
        BY <1>0, <2>4, <2>5 DEF IngressOK, Queueing
      <4> QED
        BY <1>0, <2>4, <2>5, <2>7, <3>1, <4>1 DEF IngressOK, Queueing
    <3>4. consuming # None /\ source'[consuming] = "open" => source[consuming] = "open"
      BY <1>0, <2>4, <2>5 DEF IngressOK
    <3>5. ActiveConsumed'
      BY <1>0, <2>7, <3>1, <3>2, <3>4, Zenon DEF ActiveConsumed
    <3> QED
      BY <2>3, <3>3, <3>5
  <2>8. \/ consuming = s /\ \E seen : ConsumeNext(seen)
        \/ UNCHANGED ingress /\ UNCHANGED <<waiting, written>>
    BY <1>3, Zenon DEF End, Break
  <2> QED
    BY <2>3, <2>6, <2>7, <2>8
<1>4. ASSUME NEW r \in Readers, Attach(r) PROVE Queueing' /\ ActiveConsumed' /\ FirstChunkKept'
  <2>1. UNCHANGED <<source, written, pipeQueue, consuming, behind>>
    BY <1>4, Zenon DEF Attach
  <2>2. UNCHANGED dropped
    BY <1>0, <1>4, AttachCases, Zenon DEF streams
  <2>3. Queueing' /\ FirstChunkKept'
    BY <1>0, <2>1, <2>2 DEF Queueing, FirstChunkKept
  <2>4. UNCHANGED active \/ source[active] = "ended"
    BY <1>4, Zenon DEF Attach
  <2>5. waiting = <<>> => waiting' = <<>>
    <3>1. held # None => Len(waiting') <= Len(waiting) /\ waiting' \in Seq(AllChunks)
      <4> HIDE DEF AllChunks
      <4>1. buffer \in Seq(AllChunks)
        BY <1>0 DEF StreamOK
      <4> QED
        BY <1>0, <1>4, <4>1, AttachCases, PushTyped, Zenon
    <3>2. held = None => UNCHANGED waiting
      BY <1>0, <1>4, AttachCases, Zenon DEF streams
    <3>3. held # None /\ waiting = <<>> => waiting' = <<>>
      BY <3>1
    <3> QED
      BY <3>2, <3>3
  <2>6. waiting = <<>> => (firstSeen' <=> firstSeen)
    <3>1. \/ UNCHANGED firstSeen
          \/ firstSeen' = (firstSeen \/ (active' # None /\ Len(waiting') < Len(waiting)))
      BY <1>4, Zenon DEF Attach
    <3>2. waiting = <<>> => ~(Len(waiting') < Len(waiting))
      BY <2>5
    <3> QED
      BY <3>1, <3>2, Zenon
  <2>7. ActiveConsumed'
    <3>1. consuming # None /\ source[consuming] = "open" => active = consuming /\ source[active] # "ended"
      BY <1>0 DEF ActiveConsumed
    <3> QED
      BY <1>0, <2>1, <2>4, <2>5, <2>6, <3>1, Zenon DEF ActiveConsumed
  <2> QED
    BY <2>3, <2>7
<1>5. CASE UNCHANGED <<source, written, ingress, waiting, dropped>>
  <2>1. UNCHANGED <<pipeQueue, consuming, active, behind>> /\ (firstSeen' <=> firstSeen)
    BY <1>5, Zenon DEF ingress
  <2>2. Queueing' /\ FirstChunkKept'
    BY <1>0, <1>5, <2>1 DEF Queueing, FirstChunkKept
  <2>3. ActiveConsumed'
    BY <1>0, <1>5, <2>1, Zenon DEF ActiveConsumed
  <2> QED
    BY <2>2, <2>3
<1>6. \/ \E s \in Sources : Accept(s) \/ Write(s) \/ End(s) \/ Break(s)
      \/ \E r \in Readers : Attach(r)
      \/ UNCHANGED <<source, written, ingress, waiting, dropped>>
  BY Zenon DEF Next, vars, streams, Detach, Deliver, DeleteTopic
<1> QED
  BY <1>1, <1>2, <1>3, <1>4, <1>5, <1>6, Zenon

LEMMA InitIInv == Init => IInv
<1> SUFFICES ASSUME Init PROVE IInv
  OBVIOUS
<1> USE TopicAssumption DEF Init
<1>1. FlagsOK
  BY Zenon DEF FlagsOK
<1>2. IngressOK /\ StreamOK /\ ReadersOK
  BY DEF IngressOK, StreamOK, ReadersOK, States
<1>3. Room
  BY DEF Room
<1>4. Queueing /\ ActiveConsumed /\ FirstChunkKept
  BY DEF Queueing, ActiveConsumed, FirstChunkKept
<1>5. Quiet
  BY Zenon DEF Quiet
<1> QED
  BY <1>1, <1>2, <1>3, <1>4, <1>5 DEF IInv, Typed

LEMMA Invariance == Spec => []IInv
<1>1. IInv /\ [Next]_vars => IInv'
  BY FlagsNext, IngressNext, StreamNext, ReadersNext, ActiveNext, Zenon DEF IInv, Typed
<1> QED
  BY <1>1, InitIInv, PTL DEF Spec

\* Every field of a topic stays within its values, its readable side within its
\* mark (topic.ts:45), and chunks wait only behind one in _transform().
THEOREM TypeCorrect == Spec => []TypeOK
<1>1. IInv => TypeOK
  BY TypeParts, Zenon DEF IInv
<1> QED
  BY <1>1, Invariance, PTL

\* The first chunk of a source whose turn finds the writable side empty is never
\* discarded, however many sources and readers come and go and however a held
\* chunk is flushed (holdFirstIngressChunk(), clearPendingIngress()).
THEOREM FirstChunkIsKept == Spec => []FirstChunkKept
<1>1. IInv => FirstChunkKept
  BY Zenon DEF IInv
<1> QED
  BY <1>1, Invariance, PTL

-----------------------------------------------------------------------------
(* The line: a step adds the chunk that is written, if any, at its end, and the *)
(* readers rs get the first k of it.                                       *)

Moves(new, k, rs) ==
    /\ k \in 0 .. Len(Line \o new) /\ (k > 0 => rs # {} /\ rs \subseteq Readers)
    /\ Line' = SubSeq(Line \o new, k + 1, Len(Line \o new))
    /\ Received(rs, SubSeq(Line \o new, 1, k))

LEMMA LineTyped ==
  ASSUME StreamOK
  PROVE  Rest \in Seq(AllChunks) /\ Line \in Seq(AllChunks)
<1> HIDE DEF AllChunks
<1>1. waiting \in Seq(AllChunks) /\ buffer \in Seq(AllChunks) /\ held \in AllChunks \cup {None}
  BY DEF StreamOK
<1>2. held # None => <<held>> \o waiting \in Seq(AllChunks)
  BY <1>1
<1>3. Rest \in Seq(AllChunks)
  BY <1>1, <1>2, Zenon DEF Rest
<1>4. PICK q \in Seq(AllChunks) : q = Rest
  BY <1>3
<1>5. buffer \o q \in Seq(AllChunks)
  BY <1>1
<1> QED
  BY <1>4, <1>5, Zenon DEF Line

\* Where no reader gets a chunk.
LEMMA NoneTaken ==
  ASSUME StreamOK, ReadersOK, NEW new \in Seq(AllChunks), Line' = Line \o new, UNCHANGED received, NEW rs
  PROVE  Moves(new, 0, rs)
<1> HIDE DEF AllChunks
<1>1. PICK q \in Seq(AllChunks) : q = Line \o new
  <2>1. PICK l \in Seq(AllChunks) : l = Line
    BY LineTyped
  <2>2. l \o new \in Seq(AllChunks)
    OBVIOUS
  <2> QED
    BY <2>1, <2>2, Zenon
<1>2. /\ 0 \in 0 .. Len(q) /\ ~(0 > 0) /\ SubSeq(q, 1, Len(q)) = q /\ 0 + 1 = 1
      /\ SubSeq(q, 1, 0) = <<>>
  BY SubSeqFull, SubSeqEmpty
<1>3. received = [r \in Readers |-> IF r \in rs THEN received[r] \o <<>> ELSE received[r]]
  <2>1. \A r \in Readers : received[r] \in Seq(AllChunks)
    BY DEF ReadersOK
  <2>2. \A r \in Readers : received[r] \o <<>> = received[r]
    BY <2>1
  <2>3. received = [r \in Readers |-> received[r]]
    BY DEF ReadersOK
  <2> QED
    BY <2>2, <2>3
<1>4. Received(rs, <<>>)
  BY <1>3, Zenon DEF Received
<1> QED
  BY <1>1, <1>2, <1>4, Zenon DEF Moves

LEMMA Unmoved ==
  ASSUME StreamOK, ReadersOK, UNCHANGED <<buffer, held, waiting, received>>
  PROVE  Moves(<<>>, 0, {})
<1> HIDE DEF AllChunks
<1>1. Line' = Line
  BY Zenon DEF Line, Rest
<1>2. <<>> \in Seq(AllChunks) /\ Line \o <<>> = Line
  BY LineTyped
<1> QED
  BY <1>1, <1>2, NoneTaken, Zenon

\* What is pushed is what stands behind the readable side.
LEMMA PushMoves ==
  ASSUME StreamOK, NEW q \in Seq(AllChunks), NEW rs, Push(q, rs), held' = None,
         rs # {}, rs \subseteq Readers, NEW new, Line \o new = buffer \o q
  PROVE  \E k : Moves(new, k, rs)
<1> HIDE DEF AllChunks
<1>0. buffer \in Seq(AllChunks)
  BY DEF StreamOK
<1>1. PICK n \in 0 .. Len(q) : \E k \in 0 .. n : (k > 0 => buffer = <<>>) /\ PushSplits(q, rs, k, n)
  BY <1>0, PushTyped, Zenon
<1>2. PICK k \in 0 .. n : (k > 0 => buffer = <<>>) /\ PushSplits(q, rs, k, n)
  BY <1>1, Zenon
<1>3. Line' = (buffer \o SubSeq(q, k + 1, n)) \o SubSeq(q, n + 1, Len(q))
  BY <1>2, Zenon DEF Line, Rest, PushSplits
<1>4. Received(rs, SubSeq(q, 1, k))
  BY <1>2, Zenon DEF PushSplits
<1>5. /\ k \in 0 .. Len(buffer \o q)
      /\ (buffer \o SubSeq(q, k + 1, n)) \o SubSeq(q, n + 1, Len(q))
           = SubSeq(buffer \o q, k + 1, Len(buffer \o q))
      /\ SubSeq(q, 1, k) = SubSeq(buffer \o q, 1, k)
  <2>1. PICK b \in Seq(AllChunks) : b = buffer
    BY <1>0, Zenon
  <2>2. k > 0 => b = <<>>
    BY <1>2, <2>1, Zenon
  <2>3. /\ k \in 0 .. Len(b \o q)
        /\ (b \o SubSeq(q, k + 1, n)) \o SubSeq(q, n + 1, Len(q)) = SubSeq(b \o q, k + 1, Len(b \o q))
        /\ SubSeq(q, 1, k) = SubSeq(b \o q, 1, k)
    BY <2>2, SplitLine, Zenon
  <2> QED
    BY <2>1, <2>3, Zenon
<1> QED
  BY <1>3, <1>4, <1>5, Zenon DEF Moves

\* What becomes of a chunk that is written.
LEMMA WriteMoves ==
  ASSUME IngressOK, StreamOK, ReadersOK, Quiet, Queueing, NEW s \in Sources, Writes(s),
         NEW c, c = <<s, written[s] + 1>>
  PROVE  \/ UNCHANGED dropped /\ \E k, rs : Moves(<<c>>, k, rs)
         \/ dropped' = dropped \cup {c} /\ Moves(<<>>, 0, {})
<1> HIDE DEF AllChunks
<1>0. ~destroyed /\ source[s] = "open" /\ WriteChunk(s)
  BY Zenon DEF Writes
<1>1. c \in AllChunks
  BY <1>0, ChunkTyped, Zenon
<1>2. Waits(c) \/ Pushed(c) \/ Holds(c) \/ Drops(c)
  BY <1>0, WriteCases, Zenon
<1>3. /\ <<c>> \in Seq(AllChunks) /\ c # None /\ buffer \in Seq(AllChunks) /\ waiting \in Seq(AllChunks)
      /\ held \in AllChunks \cup {None}
  BY <1>1, TopicAssumption DEF StreamOK, AllChunks
<1>4. ~InTransform => held = None /\ waiting = <<>> /\ Rest = <<>> /\ Line = buffer
  <2>1. ~InTransform => held = None /\ waiting = <<>> /\ Rest = <<>>
    BY <1>0, Zenon DEF Quiet, InTransform, Rest
  <2>2. buffer \o <<>> = buffer
    BY <1>3
  <2> QED
    BY <2>1, <2>2, Zenon DEF Line
<1>5. CASE Waits(c)
  <2>1. waiting' = Append(waiting, c) /\ UNCHANGED <<held, buffer, received, dropped>>
    BY <1>5, Zenon DEF Waits
  <2>2. Append(waiting, c) = waiting \o <<c>>
    BY <1>1, <1>3, AppendIsConcat, Zenon
  <2>3. held # None => <<held>> \o (waiting \o <<c>>) = (<<held>> \o waiting) \o <<c>>
    <3>1. held # None => <<held>> \in Seq(AllChunks)
      BY <1>3
    <3> QED
      BY <1>3, <3>1, ConcatAssociative
  <2>4. Rest' = Rest \o <<c>>
    BY <2>1, <2>2, <2>3, Zenon DEF Rest
  <2>5. PICK q \in Seq(AllChunks) : q = Rest
    BY LineTyped
  <2>6. buffer \o (q \o <<c>>) = (buffer \o q) \o <<c>>
    BY <1>3, ConcatAssociative
  <2>7. Line' = Line \o <<c>>
    BY <2>1, <2>4, <2>5, <2>6, Zenon DEF Line
  <2> QED
    BY <1>3, <2>1, <2>7, NoneTaken, Zenon
<1>6. CASE Pushed(c)
  <2>1. Push(<<c>>, targets) /\ UNCHANGED <<held, dropped>> /\ targets # {} /\ targets \subseteq Readers
    BY <1>6, Zenon DEF Pushed, ReadersOK
  <2>2. held' = None /\ Line \o <<c>> = buffer \o <<c>>
    BY <1>4, <1>6, <2>1, Zenon DEF Pushed
  <2> QED
    BY <1>3, <2>1, <2>2, PushMoves, Zenon
<1>7. CASE Holds(c)
  <2>1. held' = c /\ UNCHANGED <<waiting, buffer, received, dropped>> /\ ~InTransform
    BY <1>7, Zenon DEF Holds
  <2>2. <<c>> \o <<>> = <<c>>
    BY <1>3
  <2>3. Line' = Line \o <<c>>
    BY <1>3, <1>4, <2>1, <2>2, Zenon DEF Line, Rest
  <2> QED
    BY <1>3, <2>1, <2>3, NoneTaken, Zenon
<1>8. CASE Drops(c)
  BY <1>8, Unmoved, Zenon DEF Drops
<1> QED
  BY <1>2, <1>5, <1>6, <1>7, <1>8, Zenon

\* Every other step.
OtherMoves == UNCHANGED <<written, dropped>> /\ \E k, rs : Moves(<<>>, k, rs)

LEMMA AttachMoves ==
  ASSUME StreamOK, ReadersOK, Room, NEW r \in Readers, Attach(r)
  PROVE  OtherMoves
<1> HIDE DEF AllChunks
<1>0. targets' = targets \cup {r} /\ UNCHANGED written
  BY Zenon DEF Attach
<1>1. CASE held = None
  <2>1. UNCHANGED streams
    BY <1>1, AttachCases, Zenon
  <2> QED
    BY <1>0, <2>1, Unmoved, Zenon DEF streams, OtherMoves
<1>2. CASE held # None
  <2>1. /\ <<held>> \o waiting \in Seq(AllChunks) /\ Push(<<held>> \o waiting, targets')
        /\ held' = None /\ UNCHANGED dropped
    BY <1>2, AttachCases, Zenon
  <2>2. targets' # {} /\ targets' \subseteq Readers
    BY <1>0 DEF ReadersOK
  <2>3. Line \o <<>> = Line
    BY LineTyped
  <2>4. Line \o <<>> = buffer \o (<<held>> \o waiting)
    BY <1>2, <2>3, Zenon DEF Line, Rest
  <2>5. \E k : Moves(<<>>, k, targets')
    BY <2>1, <2>2, <2>4, PushMoves, Zenon
  <2> QED
    BY <1>0, <2>1, <2>5, Zenon DEF OtherMoves
<1> QED
  BY <1>1, <1>2

LEMMA DeliverMoves ==
  ASSUME StreamOK, ReadersOK, Deliver
  PROVE  OtherMoves
<1> HIDE DEF AllChunks
<1>0. /\ buffer # <<>> /\ buffer' = Tail(buffer) /\ UNCHANGED <<waiting, held, written, dropped>>
      /\ Received(targets, <<Head(buffer)>>) /\ targets # {} /\ targets \subseteq Readers
      /\ buffer \in Seq(AllChunks)
  BY Zenon DEF Deliver, ReadersOK, StreamOK
<1>1. PICK q \in Seq(AllChunks) : q = Rest
  BY LineTyped
<1>2. Line = buffer \o q /\ Line' = Tail(buffer) \o q
  BY <1>0, <1>1, Zenon DEF Line, Rest
<1>3. /\ 1 \in 0 .. Len(buffer \o q)
      /\ Tail(buffer) \o q = SubSeq(buffer \o q, 2, Len(buffer \o q))
      /\ <<Head(buffer)>> = SubSeq(buffer \o q, 1, 1)
  BY <1>0
<1>4. Line \o <<>> = Line
  BY LineTyped
<1>5. Moves(<<>>, 1, targets)
  <2>1. 1 + 1 = 2
    OBVIOUS
  <2> QED
    BY <1>0, <1>2, <1>3, <1>4, <2>1, Zenon DEF Moves
<1> QED
  BY <1>0, <1>5, Zenon DEF OtherMoves

LEMMA StepMoves ==
  ASSUME IInv, [Next]_vars, ~destroyed'
  PROVE  (\E s \in Sources : Writes(s)) \/ OtherMoves
<1>0. StreamOK /\ ReadersOK /\ Room
  BY Zenon DEF IInv, Typed
<1>1. CASE \E r \in Readers : Attach(r)
  BY <1>0, <1>1, AttachMoves
<1>2. CASE Deliver
  BY <1>0, <1>2, DeliverMoves
<1>3. CASE UNCHANGED <<written, buffer, held, waiting, received, dropped>>
  BY <1>0, <1>3, Unmoved, Zenon DEF OtherMoves
<1>4. \/ \E s \in Sources : Writes(s)
      \/ \E r \in Readers : Attach(r)
      \/ Deliver
      \/ UNCHANGED <<written, buffer, held, waiting, received, dropped>>
  <2>1. ASSUME NEW s \in Sources, Write(s) \/ End(s)
        PROVE  Writes(s) \/ UNCHANGED <<written, buffer, held, waiting, received, dropped>>
    BY <2>1, WritesNext, Zenon DEF streams
  <2> QED
    BY <2>1, Zenon DEF Next, vars, streams, Accept, Break, Detach, DeleteTopic
<1> QED
  BY <1>1, <1>2, <1>3, <1>4, Zenon

\* The readers of a topic that is destroyed get nothing more.
LEMMA DestroyedMoves ==
  ASSUME IInv, [Next]_vars, destroyed'
  PROVE  UNCHANGED received
<1>1. ASSUME NEW s \in Sources, Write(s) \/ End(s) PROVE ~destroyed'
  BY <1>1, Zenon DEF Write, End
<1> QED
  BY <1>1, Zenon DEF Next, vars, streams, Accept, Break, Attach, Detach, Deliver, DeleteTopic

-----------------------------------------------------------------------------
(* The order of delivery.                                                  *)

LEMMA QueuedNext == IInv /\ Queued /\ [Next]_vars => Queued'
<1> SUFFICES ASSUME IInv, Queued, [Next]_vars PROVE Queued'
  OBVIOUS
<1>0. IngressOK /\ Queueing
  BY DEF IInv, Typed
<1> USE TopicAssumption
<1>1. ASSUME NEW s \in Sources, Accept(s) PROVE Queued'
  <2>1. source[s] = "new" /\ source' = [source EXCEPT ![s] = "open"] /\ accepted' = Append(accepted, s)
    BY <1>1, Zenon DEF Accept
  <2>2. \A i \in DOMAIN accepted : accepted[i] # s
    BY <2>1 DEF Queued
  <2>3. /\ DOMAIN accepted' = DOMAIN accepted \cup {Len(accepted) + 1}
        /\ Len(accepted') = Len(accepted) + 1 /\ accepted'[Len(accepted) + 1] = s
        /\ \A i \in DOMAIN accepted : i # Len(accepted) + 1 /\ accepted'[i] = accepted[i]
    BY <1>0, <2>1 DEF IngressOK
  <2>4. /\ \A i \in DOMAIN accepted' : source'[accepted'[i]] # "new"
        /\ \A i, j \in DOMAIN accepted' : accepted'[i] = accepted'[j] => i = j
    <3>1. \A i \in DOMAIN accepted : accepted[i] \in Sources /\ source[accepted[i]] # "new"
      BY <1>0 DEF Queued, IngressOK
    <3>2. source'[s] # "new" /\ \A t \in Sources : t # s => source'[t] = source[t]
      BY <1>0, <2>1 DEF IngressOK
    <3>3. \A i \in DOMAIN accepted' : source'[accepted'[i]] # "new"
      BY <2>2, <2>3, <3>1, <3>2
    <3>4. \A i, j \in DOMAIN accepted : accepted[i] = accepted[j] => i = j
      BY DEF Queued
    <3>5. \A i, j \in DOMAIN accepted' : accepted'[i] = accepted'[j] => i = j
      BY <2>2, <2>3, <3>4
    <3> QED
      BY <3>3, <3>5
  <2>5. CASE consuming = None
    <3>1. consuming' = s /\ UNCHANGED pipeQueue
      BY <1>1, <2>5, Zenon DEF Accept, Turns
    <3> QED
      BY <1>0, <2>3, <2>4, <2>5, <3>1 DEF Queued, IngressOK
  <2>6. CASE consuming # None
    <3>1. pipeQueue' = Append(pipeQueue, s) /\ UNCHANGED consuming
      BY <1>1, <2>6, Zenon DEF Accept
    <3>2. /\ DOMAIN pipeQueue' = DOMAIN pipeQueue \cup {Len(pipeQueue) + 1}
          /\ Len(pipeQueue') = Len(pipeQueue) + 1 /\ pipeQueue'[Len(pipeQueue) + 1] = s
          /\ \A i \in DOMAIN pipeQueue : i # Len(pipeQueue) + 1 /\ pipeQueue'[i] = pipeQueue[i]
      BY <1>0, <3>1 DEF IngressOK
    <3>3. Len(accepted) \in Nat /\ Len(pipeQueue) \in Nat /\ DOMAIN accepted = 1 .. Len(accepted)
          /\ DOMAIN pipeQueue = 1 .. Len(pipeQueue)
      BY <1>0 DEF IngressOK
    <3>4. Len(accepted') - Len(pipeQueue') = Len(accepted) - Len(pipeQueue)
      BY <2>3, <3>2, <3>3
    <3>5. consuming' # None => /\ Len(pipeQueue') < Len(accepted')
                               /\ consuming' = accepted'[Len(accepted') - Len(pipeQueue')]
      <4>1. /\ Len(pipeQueue) < Len(accepted) /\ consuming = accepted[Len(accepted) - Len(pipeQueue)]
            /\ Len(accepted) - Len(pipeQueue) \in DOMAIN accepted
        BY <2>6, <3>3 DEF Queued
      <4>2. Len(pipeQueue') < Len(accepted')
        BY <2>3, <3>2, <3>3, <4>1
      <4> QED
        BY <2>3, <3>1, <3>4, <4>1, <4>2
    <3>6. ASSUME NEW i \in DOMAIN pipeQueue'
          PROVE /\ Len(accepted') - Len(pipeQueue') + i \in DOMAIN accepted'
                /\ pipeQueue'[i] = accepted'[Len(accepted') - Len(pipeQueue') + i]
      BY <2>3, <3>2, <3>3, <3>4, <3>6 DEF Queued
    <3> QED
      BY <2>4, <2>6, <3>1, <3>5, <3>6 DEF Queued
  <2> QED
    BY <2>5, <2>6
<1>2. ASSUME NEW s \in Sources, End(s) \/ Break(s) PROVE Queued'
  <2>1. /\ source[s] = "open" /\ UNCHANGED accepted
        /\ \E state \in {"ended", "broken"} : source' = [source EXCEPT ![s] = state]
    BY <1>2, Zenon DEF End, Break
  <2>2. \A i \in DOMAIN accepted' : source'[accepted'[i]] # "new"
    BY <1>0, <2>1 DEF Queued, IngressOK
  <2>3. ASSUME consuming = s, NEW seen, ConsumeNext(seen) PROVE Queued'
    <3>1. CASE pipeQueue # <<>>
      <4>1. consuming' = Head(pipeQueue) /\ pipeQueue' = Tail(pipeQueue)
        BY <2>3, <3>1, Zenon DEF ConsumeNext, Turns
      <4>2. /\ Len(pipeQueue') = Len(pipeQueue) - 1 /\ DOMAIN pipeQueue' = 1 .. Len(pipeQueue')
            /\ Len(pipeQueue) \in Nat \ {0} /\ Len(accepted) \in Nat /\ 1 \in DOMAIN pipeQueue
            /\ DOMAIN accepted = 1 .. Len(accepted)
            /\ Head(pipeQueue) = pipeQueue[1]
            /\ \A i \in DOMAIN pipeQueue' : i + 1 \in DOMAIN pipeQueue /\ pipeQueue'[i] = pipeQueue[i + 1]
        BY <1>0, <3>1, <4>1 DEF IngressOK
      <4>3. \A i \in DOMAIN pipeQueue' :
               Len(accepted) - Len(pipeQueue') + i = Len(accepted) - Len(pipeQueue) + (i + 1)
        BY <4>2
      <4>4. Len(accepted) - Len(pipeQueue') = Len(accepted) - Len(pipeQueue) + 1
        BY <4>2
      <4>5. consuming' # None => /\ Len(pipeQueue') < Len(accepted')
                                 /\ consuming' = accepted'[Len(accepted') - Len(pipeQueue')]
        BY <2>1, <2>3, <4>1, <4>2, <4>4 DEF Queued
      <4>6. consuming' # None
        BY <1>0, <4>1, <4>2 DEF IngressOK
      <4> QED
        BY <2>1, <2>2, <4>2, <4>3, <4>5, <4>6 DEF Queued
    <3>2. CASE pipeQueue = <<>>
      <4>1. consuming' = None /\ UNCHANGED pipeQueue
        BY <2>3, <3>2, Zenon DEF ConsumeNext
      <4> QED
        BY <2>1, <2>2, <3>2, <4>1 DEF Queued
    <3> QED
      BY <3>1, <3>2
  <2>4. CASE UNCHANGED ingress
    BY <2>1, <2>2, <2>4 DEF Queued, ingress
  <2> QED
    BY <1>2, <2>3, <2>4, Zenon DEF End, Break
<1>3. CASE UNCHANGED <<source, pipeQueue, consuming, accepted>>
  BY <1>3 DEF Queued
<1>4. (\E s \in Sources : Accept(s) \/ End(s) \/ Break(s)) \/ UNCHANGED <<source, pipeQueue, consuming, accepted>>
  BY Zenon DEF Next, vars, ingress, Write, Attach, Detach, Deliver, DeleteTopic
<1> QED
  BY <1>1, <1>2, <1>3, <1>4, Zenon

LEMMA WrittenNext ==
  ASSUME IngressOK, [Next]_vars
  PROVE  UNCHANGED written \/ \E s \in Sources : written' = [written EXCEPT ![s] = @ + 1]
<1>1. ASSUME NEW s \in Sources, Writes(s) PROVE written' = [written EXCEPT ![s] = @ + 1]
  BY <1>1, WriteCases, Zenon DEF Writes
<1>2. (\E s \in Sources : Writes(s)) \/ UNCHANGED written
  BY WritesNext, Zenon DEF Next, vars, Accept, Break, Attach, Detach, Deliver, DeleteTopic
<1> QED
  BY <1>1, <1>2, Zenon

LEMMA AcceptedNext ==
  ASSUME [Next]_vars
  PROVE  \/ UNCHANGED <<accepted, pipeQueue>>
         \/ \E s \in Sources : accepted' = Append(accepted, s)
                               /\ pipeQueue' \in {pipeQueue, Append(pipeQueue, s)}
         \/ UNCHANGED accepted /\ pipeQueue # <<>> /\ pipeQueue' = Tail(pipeQueue)
<1>1. ASSUME NEW seen, ConsumeNext(seen)
      PROVE  UNCHANGED pipeQueue \/ (pipeQueue # <<>> /\ pipeQueue' = Tail(pipeQueue))
  BY <1>1, Zenon DEF ConsumeNext
<1> QED
  BY <1>1, Zenon DEF Next, vars, ingress, Accept, Turns, Write, End, Break, Attach, Detach,
     Deliver, DeleteTopic

\* No step takes a chunk back, nor changes the order of two.
LEMMA PastKept ==
  ASSUME IInv, Queued, [Next]_vars, NEW c \in AllChunks, Past(c)
  PROVE  Past(c)'
<1>0. IngressOK /\ IngressOK'
  BY IngressNext DEF IInv, Typed
<1>1. PICK i \in DOMAIN accepted : accepted[i] = c[1] /\ i <= Len(accepted) - Len(pipeQueue)
  BY DEF Past
<1>2. c[1] \in Sources /\ c[2] \in Nat
  BY DEF AllChunks
<1>a. accepted \in Seq(Sources) /\ pipeQueue \in Seq(Sources)
  BY <1>0 DEF IngressOK
<1>b. i \in Nat /\ Len(accepted) \in Nat /\ Len(pipeQueue) \in Nat
  BY <1>a
<1>3. c[2] <= written'[c[1]]
  <2>1. UNCHANGED written \/ \E s \in Sources : written' = [written EXCEPT ![s] = @ + 1]
    BY <1>0, WrittenNext, Zenon
  <2>2. c[2] <= written[c[1]]
    BY DEF Past
  <2>3. written[c[1]] \in Nat
    BY <1>0, <1>2, TopicAssumption DEF IngressOK
  <2>4. CASE UNCHANGED written
    BY <2>2, <2>4
  <2>5. ASSUME NEW s \in Sources, written' = [written EXCEPT ![s] = @ + 1] PROVE c[2] <= written'[c[1]]
    <3>1. CASE c[1] = s
      <4>1. written'[c[1]] = written[c[1]] + 1
        BY <1>0, <1>2, <2>5, <3>1 DEF IngressOK
      <4>2. c[2] <= written[c[1]] + 1
        BY <1>2, <2>2, <2>3
      <4> QED
        BY <4>1, <4>2
    <3>2. CASE c[1] # s
      BY <1>0, <1>2, <2>2, <2>5, <3>2 DEF IngressOK
    <3> QED
      BY <3>1, <3>2
  <2> QED
    BY <2>1, <2>4, <2>5
<1>4. i \in DOMAIN accepted' /\ accepted'[i] = c[1]
  <2>1. UNCHANGED accepted \/ \E s \in Sources : accepted' = Append(accepted, s)
    BY AcceptedNext, Zenon
  <2> QED
    BY <1>a, <1>1, <2>1
<1>5. i <= Len(accepted') - Len(pipeQueue')
  <2>1. \/ UNCHANGED <<accepted, pipeQueue>>
        \/ \E s \in Sources : accepted' = Append(accepted, s) /\ pipeQueue' \in {pipeQueue, Append(pipeQueue, s)}
        \/ UNCHANGED accepted /\ pipeQueue # <<>> /\ pipeQueue' = Tail(pipeQueue)
    BY AcceptedNext, Zenon
  <2>3. \/ Len(accepted') = Len(accepted) /\ Len(pipeQueue') = Len(pipeQueue)
        \/ Len(accepted') = Len(accepted) + 1
           /\ (Len(pipeQueue') = Len(pipeQueue) \/ Len(pipeQueue') = Len(pipeQueue) + 1)
        \/ Len(accepted') = Len(accepted) /\ Len(pipeQueue') = Len(pipeQueue) - 1
    BY <1>a, <2>1
  <2> QED
    BY <1>1, <1>b, <2>3
<1> QED
  BY <1>3, <1>4, <1>5 DEF Past

LEMMA BeforeKept ==
  ASSUME IInv, [Next]_vars, NEW c, NEW d, Before(accepted, c, d)
  PROVE  Before(accepted, c, d)'
<1>0. IngressOK
  BY DEF IInv, Typed
<1>1. UNCHANGED accepted \/ \E s \in Sources : accepted' = Append(accepted, s)
  BY AcceptedNext, Zenon
<1>2. accepted \in Seq(Sources)
  BY <1>0 DEF IngressOK
<1>3. \A i \in DOMAIN accepted : i \in DOMAIN accepted' /\ accepted'[i] = accepted[i]
  BY <1>1, <1>2
<1> QED
  BY <1>3 DEF Before

\* A chunk that is written comes after all that its topic handled so far.
LEMMA WrittenLast ==
  ASSUME IngressOK, Queueing, Queued, NEW s \in Sources, Writes(s), NEW c \in AllChunks, Past(c),
         NEW d, d[1] = s, d[2] = written[s] + 1
  PROVE  Before(accepted, c, d)
<1>1. consuming = s /\ s # None
  BY TopicAssumption, Zenon DEF Writes
<1>2. PICK i \in DOMAIN accepted : accepted[i] = c[1] /\ i <= Len(accepted) - Len(pipeQueue)
  BY DEF Past
<1> DEFINE n == Len(accepted) - Len(pipeQueue)
<1>4. n \in DOMAIN accepted /\ accepted[n] = s
  BY <1>1 DEF Queued, IngressOK
<1>5. i = n => c[2] < written[s] + 1
  <2>1. c[2] <= written[c[1]] /\ c[2] \in Nat
    BY DEF Past, AllChunks
  <2>2. written[s] \in Nat
    BY TopicAssumption DEF IngressOK
  <2>3. i = n => c[2] <= written[s]
    BY <1>2, <1>4, <2>1
  <2> QED
    BY <2>1, <2>2, <2>3
<1>6. i < n \/ i = n
  <2>1. accepted \in Seq(Sources)
    BY DEF IngressOK
  <2>2. i \in Nat /\ n \in Nat /\ i <= n
    BY <1>2, <1>4, <2>1
  <2> HIDE DEF n
  <2> QED
    BY <2>2
<1> HIDE DEF n
<1> QED
  BY <1>2, <1>4, <1>5, <1>6 DEF Before

LEMMA WrittenPast ==
  ASSUME IngressOK, Queued, [Next]_vars, NEW s \in Sources, Writes(s),
         NEW d, d[1] = s, d[2] = written[s] + 1
  PROVE  Past(d)'
<1>1. consuming = s /\ s # None /\ UNCHANGED accepted /\ WriteChunk(s)
  BY TopicAssumption, Zenon DEF Writes
<1>2. Len(accepted) - Len(pipeQueue) \in DOMAIN accepted /\ accepted[Len(accepted) - Len(pipeQueue)] = s
  BY <1>1 DEF Queued, IngressOK
<1>3. written' = [written EXCEPT ![s] = @ + 1]
  BY <1>1, WriteCases, Zenon
<1>4. d[2] <= written'[d[1]]
  <2>1. written'[s] = written[s] + 1 /\ written[s] \in Nat
    BY <1>3, TopicAssumption DEF IngressOK
  <2> QED
    BY <2>1
<1>5. /\ Len(pipeQueue') \in Nat /\ Len(pipeQueue') <= Len(pipeQueue)
      /\ Len(pipeQueue) \in Nat /\ Len(accepted) \in Nat
  <2>1. accepted \in Seq(Sources) /\ pipeQueue \in Seq(Sources)
    BY DEF IngressOK
  <2>2. \A t \in Sources : Append(accepted, t) # accepted
    <3>1. \A t \in Sources : Len(Append(accepted, t)) # Len(accepted)
      BY <2>1
    <3> QED
      BY <3>1
  <2>3. UNCHANGED pipeQueue \/ (pipeQueue # <<>> /\ pipeQueue' = Tail(pipeQueue))
    BY <1>1, <2>2, AcceptedNext
  <2> QED
    BY <2>1, <2>3
<1>6. Len(accepted) - Len(pipeQueue) <= Len(accepted) - Len(pipeQueue')
  BY <1>5
<1> QED
  BY <1>1, <1>2, <1>4, <1>6 DEF Past

\* The order of what stands in sequences of chunks is kept.
LEMMA OrderKept ==
  ASSUME IInv, Queued, [Next]_vars, NEW p \in Seq(AllChunks), NEW q \in Seq(AllChunks)
  PROVE  /\ AllPast(p) => \A i \in DOMAIN p : Past(p[i])'
         /\ Sorted(accepted, p) => Sorted(accepted', p)
         /\ AllBefore(accepted, p, q) => AllBefore(accepted', p, q)
<1> HIDE DEF AllChunks
<1>1. \A i \in DOMAIN p : p[i] \in AllChunks
  OBVIOUS
<1>2. AllPast(p) => \A i \in DOMAIN p : Past(p[i])'
  BY <1>1, PastKept DEF AllPast
<1>3. \A c, d : Before(accepted, c, d) => Before(accepted', c, d)
  BY BeforeKept
<1>4. Sorted(accepted, p) => Sorted(accepted', p)
  BY <1>3, Zenon DEF Sorted
<1>5. AllBefore(accepted, p, q) => AllBefore(accepted', p, q)
  BY <1>3, Zenon DEF AllBefore
<1> QED
  BY <1>2, <1>4, <1>5

LEMMA PastConcat ==
  ASSUME NEW p \in Seq(AllChunks), NEW q \in Seq(AllChunks),
         \A i \in DOMAIN p : Past(p[i])', \A i \in DOMAIN q : Past(q[i])'
  PROVE  \A i \in DOMAIN (p \o q) : Past((p \o q)[i])'
<1> HIDE DEF AllChunks
<1>1. \A i \in DOMAIN (p \o q) : \/ \E m \in DOMAIN p : (p \o q)[i] = p[m]
                                \/ \E m \in DOMAIN q : (p \o q)[i] = q[m]
  BY ConcatFrom
<1> QED
  BY <1>1, Zenon

\* The readers take the first k of a line l that is in order.
LEMMA TakeOrder ==
  ASSUME ReadersOK, NEW l \in Seq(AllChunks), NEW k \in 0 .. Len(l), NEW rs,
         NEW rec \in [Readers -> Seq(AllChunks)], rec = received,
         Line' = SubSeq(l, k + 1, Len(l)), Received(rs, SubSeq(l, 1, k)),
         Sorted(accepted', l), \A i \in DOMAIN l : Past(l[i])',
         \A r \in Readers : /\ \A i \in DOMAIN rec[r] : Past(rec[r][i])'
                            /\ Sorted(accepted', rec[r]) /\ AllBefore(accepted', rec[r], l)
  PROVE  InOrder'
<1> HIDE DEF AllChunks
<1>1. PICK x \in Seq(AllChunks) : x = SubSeq(l, 1, k)
  BY SubSeqItems, Zenon
<1>2. PICK y \in Seq(AllChunks) : y = SubSeq(l, k + 1, Len(l))
  BY SubSeqItems, Zenon
<1>3. Sorted(accepted', x) /\ Sorted(accepted', y) /\ AllBefore(accepted', x, y)
  BY <1>1, <1>2, SortedSplit, Zenon
<1>4. /\ \A i \in DOMAIN x : i \in DOMAIN l /\ x[i] = l[i]
      /\ \A i \in DOMAIN y : k + i \in DOMAIN l /\ y[i] = l[k + i]
  BY <1>1, <1>2, SubSeqItems
<1>5. (\A i \in DOMAIN x : Past(x[i])') /\ (\A i \in DOMAIN y : Past(y[i])')
  BY <1>4
<1>6. Line' = y /\ Received(rs, x)
  BY <1>1, <1>2, Zenon
<1>7. LineOrder'
  BY <1>3, <1>5, <1>6 DEF LineOrder, AllPast
<1>8. ASSUME NEW r \in Readers PROVE ReaderOrder(r)'
  <2>1. PICK z \in Seq(AllChunks) : z = rec[r]
    OBVIOUS
  <2>2. /\ \A i \in DOMAIN z : Past(z[i])'
        /\ Sorted(accepted', z) /\ AllBefore(accepted', z, l)
    BY <2>1
  <2>3. AllBefore(accepted', z, x) /\ AllBefore(accepted', z, y)
    BY <1>1, <1>2, <2>2, AllBeforeSplit, Zenon
  <2>4. received'[r] = IF r \in rs THEN z \o x ELSE z
    BY <1>6, <2>1, ReceivedTyped
  <2>5. CASE r \in rs
    <3>1. Sorted(accepted', z \o x)
      BY <1>3, <2>2, <2>3, SortedConcat
    <3>2. AllBefore(accepted', z \o x, y)
      BY <1>3, <2>3, AllBeforeConcat
    <3>3. \A i \in DOMAIN (z \o x) : Past((z \o x)[i])'
      BY <1>5, <2>2, PastConcat
    <3>4. PICK w : w = z \o x
      OBVIOUS
    <3>5. \A i \in DOMAIN w : Past(w[i])'
      BY <3>3, <3>4
    <3>6. received'[r] = w
      BY <2>4, <2>5, <3>4
    <3> QED
      BY <1>6, <3>1, <3>2, <3>4, <3>5, <3>6 DEF ReaderOrder, AllPast
  <2>6. CASE r \notin rs
    <3>1. received'[r] = z
      BY <2>4, <2>6
    <3> QED
      BY <1>6, <2>2, <2>3, <3>1 DEF ReaderOrder, AllPast
  <2> QED
    BY <2>5, <2>6
<1> QED
  BY <1>7, <1>8 DEF InOrder

\* The line with the chunk that is written is in order, behind what was got.
LEMMA Extended ==
  ASSUME IInv, Queued, InOrder, [Next]_vars, ~destroyed, NEW s \in Sources, Writes(s),
         NEW c, c = <<s, written[s] + 1>>, NEW l, l = Line \o <<c>>
  PROVE  /\ c \in AllChunks /\ l \in Seq(AllChunks) /\ Sorted(accepted, l) /\ UNCHANGED accepted
         /\ \A i \in DOMAIN l : Past(l[i])'
         /\ \A r \in Readers : AllBefore(accepted, received[r], l)
<1>0. /\ IngressOK /\ StreamOK /\ ReadersOK /\ Queueing /\ LineOrder
      /\ \A r \in Readers : ReaderOrder(r)
  BY Zenon DEF IInv, Typed, InOrder
<1>1. c[1] = s /\ c[2] = written[s] + 1 /\ source[s] = "open" /\ UNCHANGED accepted
  BY Zenon DEF Writes
<1>2. c \in AllChunks
  BY <1>0, <1>1, ChunkTyped, Zenon
<1> HIDE DEF AllChunks
<1>3. PICK p \in Seq(AllChunks) : p = Line
  BY <1>0, LineTyped
<1>4. PICK q \in Seq(AllChunks) : q = <<c>>
  <2>1. \A d \in AllChunks : <<d>> \in Seq(AllChunks)
    OBVIOUS
  <2> QED
    BY <1>2, <2>1, Zenon
<1>5. l = p \o q /\ p \o q \in Seq(AllChunks) /\ \A i \in DOMAIN q : q[i] = c
  BY <1>3, <1>4
<1>6. AllPast(p) /\ Sorted(accepted, p)
  BY <1>0, <1>3, Zenon DEF LineOrder
<1>7. \A d \in AllChunks : Past(d) => Before(accepted, d, c)
  BY <1>0, <1>1, WrittenLast
<1>8. Past(c)'
  BY <1>0, <1>1, WrittenPast
<1>9. ASSUME NEW t \in Seq(AllChunks), AllPast(t) PROVE AllBefore(accepted, t, q)
  <2>1. \A i \in DOMAIN t : t[i] \in AllChunks
    OBVIOUS
  <2> QED
    BY <1>5, <1>7, <1>9, <2>1, Zenon DEF AllBefore, AllPast
<1>10. Sorted(accepted, q)
  BY <1>4 DEF Sorted
<1>11. Sorted(accepted, l)
  BY <1>5, <1>6, <1>9, <1>10, SortedConcat
<1>12. \A i \in DOMAIN l : Past(l[i])'
  <2>1. \A i \in DOMAIN p : Past(p[i])'
    BY <1>6, OrderKept, Zenon
  <2>2. \A i \in DOMAIN q : Past(q[i])'
    BY <1>5, <1>8
  <2> QED
    BY <1>5, <2>1, <2>2, PastConcat
<1>13. ASSUME NEW r \in Readers PROVE AllBefore(accepted, received[r], l)
  <2>1. PICK t \in Seq(AllChunks) : t = received[r]
    BY <1>0 DEF ReadersOK
  <2>2. AllPast(t) /\ AllBefore(accepted, t, p)
    BY <1>0, <1>3, <2>1, Zenon DEF ReaderOrder
  <2>3. AllBefore(accepted, t, q)
    BY <1>9, <2>2
  <2> QED
    BY <1>5, <2>1, <2>2, <2>3, AllBeforeConcat
<1> QED
  BY <1>1, <1>2, <1>5, <1>11, <1>12, <1>13

\* What Moves() moves along is a line in order, behind what was got.
Along(l, new) ==
    /\ l \in Seq(AllChunks) /\ l = Line \o new /\ Sorted(accepted, l)
    /\ \A r \in Readers : AllBefore(accepted, received[r], l)

LEMMA Still ==
  ASSUME IInv, InOrder, ~destroyed
  PROVE  Along(Line, <<>>) /\ AllPast(Line)
<1> HIDE DEF AllChunks
<1>1. Line \in Seq(AllChunks) /\ Line \o <<>> = Line
  BY LineTyped DEF IInv, Typed
<1> QED
  BY <1>1, Zenon DEF InOrder, LineOrder, ReaderOrder, Along

LEMMA MovesOrder ==
  ASSUME IInv, Queued, InOrder, [Next]_vars, NEW new, NEW l, Along(l, new),
         \A i \in DOMAIN l : Past(l[i])', NEW k, NEW rs, Moves(new, k, rs)
  PROVE  InOrder'
<1> HIDE DEF AllChunks
<1>1. ReadersOK /\ \A r \in Readers : ReaderOrder(r)
  BY Zenon DEF IInv, Typed, InOrder
<1>2. PICK rec \in [Readers -> Seq(AllChunks)] : rec = received
  BY <1>1 DEF ReadersOK
<1>3. /\ l \in Seq(AllChunks) /\ k \in 0 .. Len(l)
      /\ Line' = SubSeq(l, k + 1, Len(l)) /\ Received(rs, SubSeq(l, 1, k))
  BY Zenon DEF Moves, Along
<1>4. Sorted(accepted', l)
  BY <1>3, OrderKept, Zenon DEF Along
<1>5. ASSUME NEW r \in Readers
      PROVE  /\ \A i \in DOMAIN rec[r] : Past(rec[r][i])'
             /\ Sorted(accepted', rec[r]) /\ AllBefore(accepted', rec[r], l)
  <2>1. PICK z \in Seq(AllChunks) : z = rec[r]
    OBVIOUS
  <2>2. AllPast(z) /\ Sorted(accepted, z) /\ AllBefore(accepted, z, l)
    BY <1>1, <1>2, <2>1, Zenon DEF ReaderOrder, Along
  <2>3. /\ \A i \in DOMAIN z : Past(z[i])'
        /\ Sorted(accepted', z) /\ AllBefore(accepted', z, l)
    BY <1>3, <2>2, OrderKept, Zenon
  <2> QED
    BY <2>1, <2>3
<1> QED
  BY <1>1, <1>2, <1>3, <1>4, <1>5, TakeOrder

LEMMA WriteOrder ==
  ASSUME IInv, Queued, InOrder, [Next]_vars, NEW s \in Sources, Writes(s)
  PROVE  InOrder'
<1> HIDE DEF AllChunks
<1>0. IngressOK /\ StreamOK /\ ReadersOK /\ Quiet /\ Queueing /\ ~destroyed
  BY Zenon DEF IInv, Typed, Writes
<1>1. PICK c : c = <<s, written[s] + 1>>
  OBVIOUS
<1>2. PICK l : l = Line \o <<c>>
  OBVIOUS
<1>3. Along(l, <<c>>) /\ \A i \in DOMAIN l : Past(l[i])'
  BY <1>0, <1>1, <1>2, Extended, Zenon DEF Along
<1>4. CASE \E k, rs : Moves(<<c>>, k, rs)
  BY <1>3, <1>4, MovesOrder
<1>5. CASE Moves(<<>>, 0, {})
  <2>1. PICK p \in Seq(AllChunks) : p = Line
    BY <1>0, LineTyped
  <2>2. Along(p, <<>>) /\ AllPast(p)
    BY <1>0, <2>1, Still, Zenon
  <2>3. \A i \in DOMAIN p : Past(p[i])'
    BY <2>2, OrderKept, Zenon
  <2> QED
    BY <1>5, <2>2, <2>3, MovesOrder, Zenon
<1> QED
  BY <1>0, <1>1, <1>4, <1>5, WriteMoves, Zenon

LEMMA OtherOrder ==
  ASSUME IInv, Queued, InOrder, [Next]_vars, ~destroyed, OtherMoves
  PROVE  InOrder'
<1> HIDE DEF AllChunks
<1>1. PICK p \in Seq(AllChunks) : p = Line
  BY LineTyped DEF IInv, Typed
<1>2. Along(p, <<>>) /\ AllPast(p)
  BY <1>1, Still, Zenon
<1>3. \A i \in DOMAIN p : Past(p[i])'
  BY <1>2, OrderKept, Zenon
<1> QED
  BY <1>2, <1>3, MovesOrder, Zenon DEF OtherMoves

LEMMA OrderNext == IInv /\ Queued /\ InOrder /\ [Next]_vars => InOrder'
<1> SUFFICES ASSUME IInv, Queued, InOrder, [Next]_vars PROVE InOrder'
  OBVIOUS
<1>1. CASE ~destroyed'
  <2>1. ~destroyed
    BY <1>1, Zenon DEF Next, vars, Accept, Write, End, Break, Attach, Detach, Deliver, DeleteTopic
  <2> QED
    BY <1>1, <2>1, StepMoves, WriteOrder, OtherOrder, Zenon
<1>2. CASE destroyed'
  <2>1. UNCHANGED received /\ ReadersOK /\ \A r \in Readers : ReaderOrder(r)
    BY <1>2, DestroyedMoves, Zenon DEF IInv, Typed, InOrder
  <2>2. ASSUME NEW r \in Readers PROVE ReaderOrder(r)'
    <3> HIDE DEF AllChunks
    <3>1. PICK z \in Seq(AllChunks) : z = received[r]
      BY <2>1 DEF ReadersOK
    <3>2. AllPast(z) /\ Sorted(accepted, z)
      BY <2>1, <3>1, Zenon DEF ReaderOrder
    <3>3. (\A i \in DOMAIN z : Past(z[i])') /\ Sorted(accepted', z)
      BY <3>2, OrderKept, Zenon
    <3>4. received'[r] = z
      BY <2>1, <3>1
    <3> QED
      BY <1>2, <3>3, <3>4 DEF ReaderOrder, AllPast
  <2> QED
    BY <1>2, <2>2, Zenon DEF InOrder, LineOrder
<1> QED
  BY <1>1, <1>2

LEMMA TurnFound ==
  ASSUME NEW i \in DOMAIN accepted
  PROVE  Turn(accepted[i]) \in DOMAIN accepted /\ accepted[Turn(accepted[i])] = accepted[i]
  BY Zenon DEF Turn

LEMMA OrderDelivered == IInv /\ Queued /\ InOrder => DeliveredInOrder
<1> SUFFICES ASSUME IInv, Queued, InOrder, NEW r \in Readers,
                    NEW i \in DOMAIN received[r], NEW j \in DOMAIN received[r], i < j
             PROVE  Precedes(received[r][i], received[r][j])
  BY DEF DeliveredInOrder
<1>1. Before(accepted, received[r][i], received[r][j])
  BY Zenon DEF InOrder, ReaderOrder, Sorted
<1>2. PICK m \in DOMAIN accepted, n \in DOMAIN accepted :
        /\ accepted[m] = received[r][i][1] /\ accepted[n] = received[r][j][1]
        /\ m < n \/ (m = n /\ received[r][i][2] < received[r][j][2])
  BY <1>1 DEF Before
<1>3. Turn(received[r][i][1]) = m /\ Turn(received[r][j][1]) = n
  BY <1>2, TurnFound DEF Queued
<1> QED
  BY <1>2, <1>3 DEF Precedes

-----------------------------------------------------------------------------
(* What becomes of a chunk.                                                *)

\* No chunk comes before itself.
LEMMA BeforeIrreflexive ==
  ASSUME Queued, IngressOK, NEW c \in AllChunks, Before(accepted, c, c)
  PROVE  FALSE
<1>1. PICK i \in DOMAIN accepted, j \in DOMAIN accepted :
        accepted[i] = c[1] /\ accepted[j] = c[1] /\ (i < j \/ (i = j /\ c[2] < c[2]))
  BY DEF Before
<1>2. i = j
  BY <1>1 DEF Queued
<1>3. i \in Nat /\ c[2] \in Nat
  BY DEF IngressOK, AllChunks
<1> QED
  BY <1>1, <1>2, <1>3


\* What the readers take of the line is delivered, and no more on its way.
LEMMA TakePlaced ==
  ASSUME IngressOK, ReadersOK, Queued, NEW new, NEW l, Along(l, new), NEW k, NEW rs,
         Moves(new, k, rs), NEW x \in AllChunks, ~(Delivered(x) /\ Occurs(x, l))
  PROVE  /\ Delivered(x)' \/ Occurs(x, Line)' <=> Delivered(x) \/ Occurs(x, l)
         /\ ~(Delivered(x)' /\ Occurs(x, Line)')
<1> HIDE DEF AllChunks
<1>1. /\ l \in Seq(AllChunks) /\ k \in 0 .. Len(l) /\ (k > 0 => rs # {} /\ rs \subseteq Readers)
      /\ Line' = SubSeq(l, k + 1, Len(l)) /\ Received(rs, SubSeq(l, 1, k))
  BY Zenon DEF Moves, Along
<1>2. PICK p \in Seq(AllChunks) : p = SubSeq(l, 1, k)
  BY <1>1, SubSeqItems, Zenon
<1>3. PICK q \in Seq(AllChunks) : q = SubSeq(l, k + 1, Len(l))
  BY <1>1, SubSeqItems, Zenon
<1>4. Occurs(x, l) <=> Occurs(x, p) \/ Occurs(x, q)
  BY <1>1, <1>2, <1>3, OccursSplit, Zenon
<1>5. ~(Occurs(x, p) /\ Occurs(x, q))
  <2>1. AllBefore(accepted, p, q)
    BY <1>1, <1>2, <1>3, SortedSplit, Zenon DEF Along
  <2>2. ~Before(accepted, x, x)
    BY BeforeIrreflexive
  <2> QED
    BY <2>1, <2>2, Zenon DEF AllBefore, Occurs
<1>6. Occurs(x, Line)' <=> Occurs(x, q)
  BY <1>1, <1>3 DEF Occurs
<1>7. \A r \in Readers : received'[r] = IF r \in rs THEN received[r] \o p ELSE received[r]
  BY <1>1, <1>2, ReceivedTyped
<1>8. Occurs(x, p) => rs # {} /\ rs \subseteq Readers
  <2>1. k = 0 => DOMAIN p = {}
    BY <1>1, <1>2, SubSeqItems
  <2>2. k = 0 \/ k > 0
    BY <1>1
  <2> QED
    BY <1>1, <2>1, <2>2, Zenon DEF Occurs
<1>9. ASSUME NEW r \in Readers
      PROVE  Occurs(x, received[r])' <=> Occurs(x, received[r]) \/ (r \in rs /\ Occurs(x, p))
  <2>1. PICK t \in Seq(AllChunks) : t = received[r]
    BY DEF ReadersOK
  <2>2. received'[r] = IF r \in rs THEN t \o p ELSE t
    BY <1>7, <2>1
  <2>3. Occurs(x, t \o p) <=> Occurs(x, t) \/ Occurs(x, p)
    BY OccursConcat
  <2>4. CASE r \in rs
    <3>1. PICK w : w = t \o p
      OBVIOUS
    <3>2. received'[r] = w
      BY <2>2, <2>4, <3>1
    <3>3. Occurs(x, received[r])' <=> Occurs(x, w)
      BY <3>2 DEF Occurs
    <3> QED
      BY <2>1, <2>3, <2>4, <3>1, <3>3, Zenon
  <2>5. CASE r \notin rs
    <3>1. received'[r] = t
      BY <2>2, <2>5
    <3>2. Occurs(x, received[r])' <=> Occurs(x, t)
      BY <3>1 DEF Occurs
    <3> QED
      BY <2>1, <2>5, <3>2, Zenon
  <2> QED
    BY <2>4, <2>5
<1>10. Delivered(x)' <=> Delivered(x) \/ Occurs(x, p)
  <2>1. Delivered(x)' => Delivered(x) \/ Occurs(x, p)
    BY <1>9, Zenon DEF Delivered
  <2>2. Delivered(x) => Delivered(x)'
    BY <1>9, Zenon DEF Delivered
  <2>3. ASSUME Occurs(x, p) PROVE Delivered(x)'
    <3>1. PICK r \in rs : r \in Readers
      BY <1>8, <2>3
    <3> QED
      BY <1>9, <2>3, <3>1, Zenon DEF Delivered
  <2> QED
    BY <2>1, <2>2, <2>3
<1>11. Delivered(x)' <=> Delivered(x) \/ Occurs(x, p)
  BY <1>10
<1> QED
  BY <1>4, <1>5, <1>6, <1>11, Zenon

\* A source writes its next chunk.
LEMMA NextWritten ==
  ASSUME IngressOK, NEW s \in Sources, written' = [written EXCEPT ![s] = @ + 1],
         NEW d, d = <<s, written[s] + 1>>, NEW c \in AllChunks
  PROVE  (c[2] <= written'[c[1]] <=> c[2] <= written[c[1]] \/ c = d) /\ ~(d[2] <= written[d[1]])
<1>1. c[1] \in Sources /\ c[2] \in Nat /\ c = <<c[1], c[2]>>
  BY DEF AllChunks
<1>2. written[c[1]] \in Nat /\ written[s] \in Nat
  BY <1>1, TopicAssumption DEF IngressOK
<1>3. ~(d[2] <= written[d[1]])
  BY <1>2
<1>4. CASE c[1] = s
  <2>1. written'[c[1]] = written[s] + 1
    BY <1>4 DEF IngressOK
  <2>2. c = d <=> c[2] = written[s] + 1
    BY <1>1, <1>4
  <2> QED
    BY <1>1, <1>2, <1>3, <1>4, <2>1, <2>2
<1>5. CASE c[1] # s
  BY <1>1, <1>3, <1>5 DEF IngressOK
<1> QED
  BY <1>4, <1>5

LEMMA WritePlaced ==
  ASSUME IInv, Queued, InOrder, Placed, [Next]_vars, NEW s \in Sources, Writes(s), NEW x \in AllChunks
  PROVE  OnePlace(x)'
<1> HIDE DEF AllChunks
<1>0. IngressOK /\ StreamOK /\ ReadersOK /\ Quiet /\ Queueing /\ ~destroyed /\ WriteChunk(s)
  BY Zenon DEF IInv, Typed, Writes
<1>1. PICK c : c = <<s, written[s] + 1>>
  OBVIOUS
<1>2. PICK l : l = Line \o <<c>>
  OBVIOUS
<1>3. Along(l, <<c>>) /\ c \in AllChunks
  BY <1>0, <1>1, <1>2, Extended, Zenon DEF Along
<1>4. written' = [written EXCEPT ![s] = @ + 1]
  BY <1>0, WriteCases, Zenon
<1>5. OnePlace(x) /\ OnePlace(c)
  BY <1>0, <1>3, Zenon DEF Placed
<1>6. (x[2] <= written'[x[1]] <=> x[2] <= written[x[1]] \/ x = c) /\ ~(c[2] <= written[c[1]])
  BY <1>0, <1>1, <1>4, NextWritten
<1>7. ~Delivered(c) /\ ~Occurs(c, Line) /\ c \notin dropped
  BY <1>5, <1>6, Zenon DEF OnePlace
<1>8. Occurs(x, l) <=> Occurs(x, Line) \/ x = c
  <2>1. PICK p \in Seq(AllChunks) : p = Line
    BY <1>0, LineTyped
  <2>2. PICK q \in Seq(AllChunks) : q = <<c>>
    <3>1. \A d \in AllChunks : <<d>> \in Seq(AllChunks)
      OBVIOUS
    <3> QED
      BY <1>3, <3>1, Zenon
  <2>3. Occurs(x, p \o q) <=> Occurs(x, p) \/ Occurs(x, q)
    BY OccursConcat
  <2>4. Occurs(x, q) <=> x = c
    BY <2>2 DEF Occurs
  <2> QED
    BY <1>2, <2>1, <2>2, <2>3, <2>4, Zenon
<1>9. CASE UNCHANGED dropped /\ \E k, rs : Moves(<<c>>, k, rs)
  <2>1. ~(Delivered(x) /\ Occurs(x, l))
    BY <1>5, <1>7, <1>8, Zenon DEF OnePlace
  <2>2. /\ Delivered(x)' \/ Occurs(x, Line)' <=> Delivered(x) \/ Occurs(x, l)
        /\ ~(Delivered(x)' /\ Occurs(x, Line)')
    BY <1>0, <1>3, <1>9, <2>1, TakePlaced
  <2>3. x \in dropped' => ~Delivered(x) /\ ~Occurs(x, l)
    BY <1>5, <1>7, <1>8, <1>9, Zenon DEF OnePlace
  <2> QED
    BY <1>5, <1>6, <1>8, <1>9, <2>2, <2>3, Zenon DEF OnePlace
<1>10. CASE dropped' = dropped \cup {c} /\ Moves(<<>>, 0, {})
  <2>1. PICK p \in Seq(AllChunks) : p = Line
    BY <1>0, LineTyped
  <2>2. Along(p, <<>>)
    BY <1>0, <2>1, Still, Zenon
  <2>3. ~(Delivered(x) /\ Occurs(x, p))
    BY <1>5, <2>1, Zenon DEF OnePlace
  <2>4. /\ Delivered(x)' \/ Occurs(x, Line)' <=> Delivered(x) \/ Occurs(x, p)
        /\ ~(Delivered(x)' /\ Occurs(x, Line)')
    BY <1>0, <1>10, <2>2, <2>3, TakePlaced
  <2>5. x \in dropped' <=> x \in dropped \/ x = c
    BY <1>10
  <2> QED
    BY <1>5, <1>6, <1>7, <2>1, <2>4, <2>5, Zenon DEF OnePlace
<1> QED
  BY <1>0, <1>1, <1>9, <1>10, WriteMoves, Zenon

LEMMA OtherPlaced ==
  ASSUME IInv, Queued, InOrder, Placed, ~destroyed, OtherMoves, NEW x \in AllChunks
  PROVE  OnePlace(x)'
<1> HIDE DEF AllChunks
<1>0. IngressOK /\ ReadersOK /\ UNCHANGED <<written, dropped>> /\ OnePlace(x)
  BY Zenon DEF IInv, Typed, OtherMoves, Placed
<1>1. PICK p \in Seq(AllChunks) : p = Line
  BY LineTyped DEF IInv, Typed
<1>2. Along(p, <<>>)
  BY <1>1, Still, Zenon
<1>3. ~(Delivered(x) /\ Occurs(x, p))
  BY <1>0, <1>1, Zenon DEF OnePlace
<1>4. /\ Delivered(x)' \/ Occurs(x, Line)' <=> Delivered(x) \/ Occurs(x, p)
      /\ ~(Delivered(x)' /\ Occurs(x, Line)')
  BY <1>0, <1>2, <1>3, TakePlaced DEF OtherMoves
<1> QED
  BY <1>0, <1>1, <1>4, Zenon DEF OnePlace

LEMMA PlacedNext == IInv /\ Queued /\ InOrder /\ Placed /\ [Next]_vars => Placed'
<1> SUFFICES ASSUME IInv, Queued, InOrder, Placed, [Next]_vars, ~destroyed', NEW x \in AllChunks
             PROVE  OnePlace(x)'
  BY Zenon DEF Placed
<1>1. ~destroyed
  BY Zenon DEF Next, vars, Accept, Write, End, Break, Attach, Detach, Deliver, DeleteTopic
<1> QED
  BY <1>1, StepMoves, WritePlaced, OtherPlaced, Zenon

LEMMA PlacedAccounted == IInv /\ Placed => Accounted
<1> SUFFICES ASSUME IInv, Placed, ~destroyed PROVE Accounted
  BY Zenon DEF Accounted
<1> HIDE DEF AllChunks
<1> DEFINE delivered == UNION {Elements(received[r]) : r \in Readers}
           onWay == Elements(buffer) \cup Elements(waiting) \cup ({held} \ {None})
<1>0. StreamOK /\ ReadersOK
  BY DEF IInv, Typed
<1>1. delivered \subseteq AllChunks /\ onWay \subseteq AllChunks /\ dropped \subseteq AllChunks
  BY <1>0 DEF StreamOK, ReadersOK, Elements
<1>2. \A c \in AllChunks : c \in delivered <=> Delivered(c)
  BY DEF Delivered, Occurs, Elements
<1>3. ASSUME NEW c \in AllChunks PROVE c \in onWay <=> Occurs(c, Line)
  <2>1. buffer \in Seq(AllChunks) /\ waiting \in Seq(AllChunks)
    BY <1>0 DEF StreamOK
  <2>2. c # None
    BY TopicAssumption DEF AllChunks
  <2>3. PICK q \in Seq(AllChunks) : q = Rest
    BY <1>0, LineTyped
  <2>4. Occurs(c, buffer \o q) <=> Occurs(c, buffer) \/ Occurs(c, q)
    BY <2>1, OccursConcat
  <2>5. Occurs(c, q) <=> c = held \/ Occurs(c, waiting)
    <3>1. CASE held = None
      BY <2>2, <2>3, <3>1 DEF Rest
    <3>2. CASE held # None
      <4>1. PICK h \in Seq(AllChunks) : h = <<held>>
        <5>1. \A d \in AllChunks : <<d>> \in Seq(AllChunks)
          OBVIOUS
        <5>2. held \in AllChunks
          BY <1>0, <3>2 DEF StreamOK
        <5> QED
          BY <5>1, <5>2, Zenon
      <4>2. Occurs(c, h \o waiting) <=> Occurs(c, h) \/ Occurs(c, waiting)
        BY <2>1, OccursConcat
      <4>3. Occurs(c, h) <=> c = held
        BY <4>1 DEF Occurs
      <4>4. q = h \o waiting
        BY <2>3, <3>2, <4>1, Zenon DEF Rest
      <4> QED
        BY <4>2, <4>3, <4>4, Zenon
    <3> QED
      BY <3>1, <3>2
  <2>6. c \in onWay <=> Occurs(c, buffer) \/ Occurs(c, waiting) \/ c = held
    BY <2>2 DEF Occurs, Elements
  <2> QED
    BY <2>3, <2>4, <2>5, <2>6, Zenon DEF Line
<1> HIDE DEF delivered, onWay
<1>4. \A c \in AllChunks : OnePlace(c)
  BY Zenon DEF Placed
<1>5. delivered \cup onWay \cup dropped = {c \in AllChunks : c[2] <= written[c[1]]}
  BY <1>1, <1>2, <1>3, <1>4 DEF OnePlace
<1>6. delivered \cap onWay = {} /\ (delivered \cup onWay) \cap dropped = {}
  BY <1>1, <1>2, <1>3, <1>4 DEF OnePlace
<1> QED
  BY <1>5, <1>6, Zenon DEF Accounted, delivered, onWay

-----------------------------------------------------------------------------
LEMMA InitOrder == Init => Queued /\ InOrder /\ Placed
<1> SUFFICES ASSUME Init PROVE Queued /\ InOrder /\ Placed
  OBVIOUS
<1>1. Queued
  BY TopicAssumption DEF Init, Queued
<1>2. \A i \in DOMAIN Line : FALSE
  BY DEF Init, Line, Rest
<1>3. \A r \in Readers : received[r] = <<>>
  BY DEF Init
<1>4. InOrder
  <2>1. LineOrder
    BY <1>2, Zenon DEF LineOrder, AllPast, Sorted
  <2>2. \A r \in Readers : \A i \in DOMAIN received[r] : FALSE
    BY <1>3
  <2>3. \A r \in Readers : ReaderOrder(r)
    BY <1>2, <2>2, Zenon DEF ReaderOrder, AllPast, Sorted, AllBefore
  <2> QED
    BY <2>1, <2>3, Zenon DEF InOrder
<1>5. ASSUME NEW c \in AllChunks PROVE OnePlace(c)
  <2>1. c[1] \in Sources /\ c[2] \in 1 .. Chunks + 1
    BY DEF AllChunks
  <2>2. ~(c[2] <= written[c[1]])
    BY <2>1, TopicAssumption DEF Init
  <2>3. ~Delivered(c)
    BY <1>3 DEF Delivered, Occurs
  <2>4. ~Occurs(c, Line)
    BY <1>2, Zenon DEF Occurs
  <2>5. c \notin dropped
    BY DEF Init
  <2> QED
    BY <2>2, <2>3, <2>4, <2>5, Zenon DEF OnePlace
<1> QED
  BY <1>1, <1>4, <1>5, Zenon DEF Placed

LEMMA OrderInvariance == Spec => [](IInv /\ Queued /\ InOrder /\ Placed)
<1>1. /\ IInv /\ Queued /\ InOrder /\ Placed /\ IInv' /\ [Next]_vars
      => Queued' /\ InOrder' /\ Placed'
  BY QueuedNext, OrderNext, PlacedNext, Zenon
<1> QED
  BY <1>1, InitOrder, Invariance, PTL DEF Spec

\* Readers get the sources in the order they were accepted and the chunks of
\* each in order, none twice, also those that are still in the writable side
\* when the next source writes behind them (consumePipe(), _transform(),
\* flushPendingIngress()).
THEOREM DeliveryInOrder == Spec => []DeliveredInOrder
<1> QED
  BY OrderDelivered, OrderInvariance, PTL

\* No chunk is lost, kept twice, or both discarded and delivered, as long as
\* the topic lives: one that was written is delivered, discarded, held or on
\* either side of the stream, also when its source ended (_transform(),
\* flushPendingIngress(), _read()).
THEOREM ChunksAccounted == Spec => []Accounted
<1> QED
  BY PlacedAccounted, OrderInvariance, PTL

=============================================================================
