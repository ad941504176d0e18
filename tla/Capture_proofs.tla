--------------------------- MODULE Capture_proofs ---------------------------
(***************************************************************************)
(* Proofs about Capture, and about those who read what it writes, for any  *)
(* number of sessions, any frames, any chunk size and any limits.          *)
(*                                                                         *)
(* The store: an index which can be read describes the disk however the    *)
(* process died, and a chunk file once written is never written again.  A  *)
(* session's step grows its list of closed chunks and orders just the      *)
(* writes for the growth, a chunk before the index that lists it (Grows).  *)
(* Grows composes, so it holds of append_frame, which may close two        *)
(* chunks.  StoreInv says of the writes still to be carried out what makes *)
(* every prefix of them safe, and each step keeps it.                      *)
(*                                                                         *)
(* The log: what a session recorded says what it received (Tells), whose   *)
(* heart is that the baseline in memory is the one the stream shows        *)
(* (Tracks).                                                               *)
(*                                                                         *)
(* The end: a final manifest is written after all it speaks of, and alone  *)
(* (FinishInv).                                                            *)
(*                                                                         *)
(* The audit: Judges says what the audit of Check would report of the      *)
(* records a session has so far, and each step of the recorder keeps it,   *)
(* though the recorder and the audit judge continuity by different rules.  *)
(*                                                                         *)
(* The reader beside the running capture: what it has read of the manifest *)
(* and the index is what the disk held then, and the chunks do not change. *)
(***************************************************************************)
EXTENDS Readers, SequenceLemmas, FiniteSetTheorems

\* writes takes the disk from the chunks old to the chunks new of session s.
Grows(s, old, new, writes) ==
    /\ old \in Seq(Chunk) /\ new \in Seq(Chunk)
    /\ Len(old) <= Len(new)
    /\ \A n \in 1..Len(old) : new[n] = old[n]
    /\ writes \in Seq(WriteOrder)
    /\ \A i \in 1..Len(writes) : writes[i].session = s
    /\ \A i \in 1..Len(writes) : writes[i].file = "chunk" =>
          /\ writes[i].number \in Len(old) + 1 .. Len(new)
          /\ writes[i].content = new[writes[i].number]
    /\ \A i, j \in 1..Len(writes) :
          writes[i].file = "chunk" /\ writes[j].file = "chunk"
              /\ writes[i].number = writes[j].number => i = j
    /\ \A i \in 1..Len(writes) : writes[i].file = "index" =>
          /\ writes[i].content # <<>>
          /\ Len(writes[i].content) <= Len(new)
          /\ \A n \in 1..Len(writes[i].content) :
                /\ writes[i].content[n] = new[n]
                /\ n > Len(old) =>
                      \E j \in 1..i - 1 : writes[j].file = "chunk" /\ writes[j].number = n
    /\ \A n \in Len(old) + 1 .. Len(new) :
          \E i \in 1..Len(writes) : writes[i].file = "chunk" /\ writes[i].number = n

LEMMA GrowsNothing ==
    ASSUME NEW s \in Sessions, NEW old \in Seq(Chunk)
    PROVE  Grows(s, old, old, <<>>)
BY DEF Grows

LEMMA GrowsManifest ==
    ASSUME NEW s \in Sessions, NEW old \in Seq(Chunk), NEW m \in Manifest
    PROVE  Grows(s, old, old, <<ManifestWrite(s, m)>>)
<1> DEFINE w == ManifestWrite(s, m)
<1>1. w \in WriteOrder
  BY DEF WriteOrder, ManifestWrite, Manifest
<1>2. w.session = s /\ w.file = "manifest"
  BY DEF ManifestWrite
<1> HIDE DEF w
<1> DEFINE writes == <<w>>
<1>3. writes \in Seq(WriteOrder) /\ Len(writes) = 1 /\ writes[1] = w
  BY <1>1
<1> HIDE DEF writes
<1>4. \A i \in 1..Len(writes) : writes[i].session = s /\ writes[i].file = "manifest"
  BY <1>2, <1>3
<1>5. Grows(s, old, old, writes)
  BY <1>3, <1>4 DEF Grows
<1> QED
  BY <1>5 DEF writes, w

LEMMA GrowsChunk ==
    ASSUME NEW s \in Sessions, NEW old \in Seq(Chunk), NEW c \in Chunk
    PROVE  Grows(s, old, Append(old, c),
                 <<ChunkWrite(s, Len(old) + 1, c), IndexWrite(s, Append(old, c))>>)
<1> DEFINE new == Append(old, c)
           w == ChunkWrite(s, Len(old) + 1, c)
           x == IndexWrite(s, new)
<1>1. new \in Seq(Chunk) /\ Len(new) = Len(old) + 1 /\ new[Len(old) + 1] = c
      /\ \A n \in 1..Len(old) : new[n] = old[n]
  OBVIOUS
<1>2. new # <<>>
  BY <1>1
<1> HIDE DEF new
<1>3. w \in WriteOrder /\ w.session = s /\ w.file = "chunk" /\ w.number = Len(old) + 1 /\ w.content = c
  BY DEF WriteOrder, ChunkWrite
<1>4. x \in WriteOrder /\ x.session = s /\ x.file = "index" /\ x.content = new
  BY <1>1 DEF WriteOrder, IndexWrite
<1> HIDE DEF w, x
<1>5. <<w, x>> \in Seq(WriteOrder) /\ Len(<<w, x>>) = 2 /\ <<w, x>>[1] = w /\ <<w, x>>[2] = x
  BY <1>3, <1>4
<1> DEFINE writes == <<w, x>>
<1> HIDE DEF writes
<1>6. writes \in Seq(WriteOrder) /\ Len(writes) = 2 /\ writes[1] = w /\ writes[2] = x
  BY <1>5 DEF writes
<1>7. \A i \in 1..Len(writes) : i = 1 \/ i = 2
  BY <1>6
<1>8. Grows(s, old, new, writes)
  BY <1>1, <1>2, <1>3, <1>4, <1>6, <1>7 DEF Grows
<1> QED
  BY <1>8 DEF writes, new, w, x

\* Two growths in a row are one, with the writes of the first before the second's.
LEMMA GrowsTwice ==
    ASSUME NEW s, NEW old, NEW mid, NEW new, NEW first, NEW second,
           Grows(s, old, mid, first), Grows(s, mid, new, second)
    PROVE  Grows(s, old, new, first \o second)
<1> DEFINE both == first \o second
           L == Len(first)
<1>1. first \in Seq(WriteOrder) /\ second \in Seq(WriteOrder)
  BY DEF Grows
<1>2. /\ both \in Seq(WriteOrder)
      /\ Len(both) = L + Len(second)
      /\ \A i \in 1..L : both[i] = first[i]
      /\ \A i \in 1..Len(second) : both[L + i] = second[i]
      /\ L \in Nat /\ Len(second) \in Nat
  BY <1>1
<1> HIDE DEF both, L
<1>3. /\ old \in Seq(Chunk) /\ mid \in Seq(Chunk) /\ new \in Seq(Chunk)
      /\ Len(old) \in Nat /\ Len(mid) \in Nat /\ Len(new) \in Nat
      /\ Len(old) <= Len(mid) /\ Len(mid) <= Len(new)
      /\ \A n \in 1..Len(mid) : new[n] = mid[n]
      /\ \A n \in 1..Len(old) : new[n] = old[n]
  BY DEF Grows
<1>4. ASSUME NEW i \in 1..Len(both)
      PROVE  \/ i \in 1..L /\ both[i] = first[i]
             \/ \E k \in 1..Len(second) : i = L + k /\ both[i] = second[k]
  <2>1. CASE i <= L
    BY <1>2, <2>1
  <2>2. CASE i > L
    <3>1. i - L \in 1..Len(second) /\ i = L + (i - L)
      BY <1>2, <2>2
    <3> QED
      BY <1>2, <3>1
  <2> QED
    BY <1>2, <2>1, <2>2
<1>5. L = Len(first)
  BY DEF L
<1>6. \A i \in 1..Len(both) : both[i].session = s
  BY <1>4, <1>5 DEF Grows
<1>7. ASSUME NEW i \in 1..Len(both), both[i].file = "chunk"
      PROVE  /\ i <= L => both[i].number \in Len(old) + 1 .. Len(mid)
             /\ i > L => both[i].number \in Len(mid) + 1 .. Len(new)
             /\ both[i].number \in Len(old) + 1 .. Len(new)
             /\ both[i].content = new[both[i].number]
  <2>1. CASE i \in 1..L /\ both[i] = first[i]
    <3>1. both[i].number \in Len(old) + 1 .. Len(mid) /\ both[i].content = mid[both[i].number]
      BY <1>5, <1>7, <2>1 DEF Grows
    <3>2. i <= L /\ ~(i > L)
      BY <1>2, <2>1
    <3>3. both[i].number \in 1..Len(mid) /\ both[i].number \in Len(old) + 1 .. Len(new)
      BY <1>3, <3>1
    <3>4. both[i].content = new[both[i].number]
      BY <1>3, <3>1, <3>3
    <3> QED
      BY <3>1, <3>2, <3>3, <3>4
  <2>2. CASE \E k \in 1..Len(second) : i = L + k /\ both[i] = second[k]
    <3>1. both[i].number \in Len(mid) + 1 .. Len(new) /\ both[i].content = new[both[i].number]
      BY <1>7, <2>2 DEF Grows
    <3>2. i > L /\ ~(i <= L)
      BY <1>2, <2>2
    <3>3. both[i].number \in Len(old) + 1 .. Len(new)
      BY <1>3, <3>1
    <3> QED
      BY <3>1, <3>2, <3>3
  <2> QED
    BY <1>4, <2>1, <2>2
<1>8. ASSUME NEW i \in 1..Len(both), NEW j \in 1..Len(both),
             both[i].file = "chunk", both[j].file = "chunk", both[i].number = both[j].number
      PROVE  i = j
  <2>1. CASE i <= L /\ j <= L
    <3>1. i \in 1..L /\ j \in 1..L
      BY <1>2, <2>1
    <3>2. both[i] = first[i] /\ both[j] = first[j]
      BY <1>2, <3>1
    <3> QED
      BY <1>5, <1>8, <3>1, <3>2 DEF Grows
  <2>2. CASE i > L /\ j > L
    <3>0. i \notin 1..L /\ j \notin 1..L
      BY <1>2, <2>2
    <3>1. PICK k \in 1..Len(second) : i = L + k /\ both[i] = second[k]
      BY <1>4, <3>0
    <3>2. PICK h \in 1..Len(second) : j = L + h /\ both[j] = second[h]
      BY <1>4, <3>0
    <3>3. k = h
      BY <1>8, <3>1, <3>2 DEF Grows
    <3> QED
      BY <3>1, <3>2, <3>3
  <2>3. CASE i <= L /\ j > L
    BY <1>3, <1>7, <1>8, <2>3
  <2>4. CASE i > L /\ j <= L
    BY <1>3, <1>7, <1>8, <2>4
  <2> QED
    BY <1>2, <2>1, <2>2, <2>3, <2>4
<1>9. ASSUME NEW i \in 1..Len(both), both[i].file = "index"
      PROVE  /\ both[i].content # <<>>
             /\ Len(both[i].content) <= Len(new)
             /\ \A n \in 1..Len(both[i].content) :
                   /\ both[i].content[n] = new[n]
                   /\ n > Len(old) =>
                         \E j \in 1..i - 1 : both[j].file = "chunk" /\ both[j].number = n
  <2>1. CASE i \in 1..L /\ both[i] = first[i]
    <3>1. i \in 1..Len(first) /\ first[i].file = "index"
      BY <1>5, <1>9, <2>1
    <3>2. /\ first[i].content # <<>>
          /\ Len(first[i].content) <= Len(mid)
          /\ \A n \in 1..Len(first[i].content) :
                /\ first[i].content[n] = mid[n]
                /\ n > Len(old) =>
                      \E j \in 1..i - 1 : first[j].file = "chunk" /\ first[j].number = n
      BY <3>1 DEF Grows
    <3>3. Len(first[i].content) \in Nat
      <4>1. first[i] \in WriteOrder
        BY <1>1, <3>1
      <4> QED
        BY <3>1, <4>1 DEF WriteOrder
    <3>4. \A j \in 1..i - 1 : both[j] = first[j]
      BY <1>2, <2>1
    <3>5. \A n \in 1..Len(first[i].content) : n \in 1..Len(mid)
      BY <1>3, <3>2, <3>3
    <3>6. both[i].content # <<>> /\ Len(both[i].content) <= Len(new)
      BY <1>3, <2>1, <3>2, <3>3
    <3>7. ASSUME NEW n \in 1..Len(both[i].content)
          PROVE  both[i].content[n] = new[n]
      BY <1>3, <2>1, <3>2, <3>5
    <3>8. ASSUME NEW n \in 1..Len(both[i].content), n > Len(old)
          PROVE  \E j \in 1..i - 1 : both[j].file = "chunk" /\ both[j].number = n
      <4>1. PICK j \in 1..i - 1 : first[j].file = "chunk" /\ first[j].number = n
        BY <2>1, <3>2, <3>8
      <4> QED
        BY <3>4, <4>1
    <3> QED
      BY <3>6, <3>7, <3>8
  <2>2. ASSUME NEW k \in 1..Len(second), i = L + k, both[i] = second[k]
        PROVE  /\ both[i].content # <<>>
               /\ Len(both[i].content) <= Len(new)
               /\ \A n \in 1..Len(both[i].content) :
                     /\ both[i].content[n] = new[n]
                     /\ n > Len(old) =>
                           \E j \in 1..i - 1 : both[j].file = "chunk" /\ both[j].number = n
    <3>0. second[k].file = "index" /\ both[i].content = second[k].content
      BY <1>9, <2>2
    <3>1. /\ second[k].content # <<>>
          /\ Len(second[k].content) <= Len(new)
          /\ \A n \in 1..Len(second[k].content) :
                /\ second[k].content[n] = new[n]
                /\ n > Len(mid) =>
                      \E j \in 1..k - 1 : second[j].file = "chunk" /\ second[j].number = n
      BY <3>0 DEF Grows
    <3>2. Len(both[i].content) \in Nat
      <4>1. second[k] \in WriteOrder
        BY <1>1
      <4> QED
        BY <3>0, <4>1 DEF WriteOrder
    <3>3. ASSUME NEW n \in 1..Len(both[i].content), n > Len(old)
          PROVE  \E j \in 1..i - 1 : both[j].file = "chunk" /\ both[j].number = n
      <4>1. CASE n > Len(mid)
        <5>1. PICK j \in 1..k - 1 : second[j].file = "chunk" /\ second[j].number = n
          BY <3>0, <3>1, <3>3, <4>1
        <5>2. L + j \in 1..i - 1 /\ both[L + j] = second[j]
          BY <1>2, <2>2, <5>1
        <5> QED
          BY <5>1, <5>2
      <4>2. CASE n <= Len(mid)
        <5>1. n \in Len(old) + 1 .. Len(mid)
          BY <1>3, <3>2, <3>3, <4>2
        <5>2. PICK j \in 1..L : first[j].file = "chunk" /\ first[j].number = n
          BY <1>5, <5>1 DEF Grows
        <5>3. j \in 1..i - 1 /\ both[j] = first[j]
          BY <1>2, <2>2, <5>2
        <5> QED
          BY <5>2, <5>3
      <4> QED
        BY <1>3, <3>2, <4>1, <4>2
    <3> QED
      BY <3>0, <3>1, <3>3
  <2> QED
    BY <1>4, <2>1, <2>2
<1>10. ASSUME NEW n \in Len(old) + 1 .. Len(new)
       PROVE  \E i \in 1..Len(both) : both[i].file = "chunk" /\ both[i].number = n
  <2>1. CASE n <= Len(mid)
    <3>1. n \in Len(old) + 1 .. Len(mid)
      BY <1>3, <2>1
    <3>2. PICK i \in 1..L : first[i].file = "chunk" /\ first[i].number = n
      BY <1>5, <3>1 DEF Grows
    <3>3. i \in 1..Len(both) /\ both[i] = first[i]
      BY <1>2, <3>2
    <3> QED
      BY <3>2, <3>3
  <2>2. CASE n > Len(mid)
    <3>1. n \in Len(mid) + 1 .. Len(new)
      BY <1>3, <2>2
    <3>2. PICK k \in 1..Len(second) : second[k].file = "chunk" /\ second[k].number = n
      BY <3>1 DEF Grows
    <3>3. L + k \in 1..Len(both) /\ both[L + k] = second[k]
      BY <1>2, <3>2
    <3> QED
      BY <3>2, <3>3
  <2> QED
    BY <1>3, <2>1, <2>2
<1>11. Grows(s, old, new, both)
  <2>1. /\ old \in Seq(Chunk) /\ new \in Seq(Chunk) /\ Len(old) <= Len(new)
        /\ \A n \in 1..Len(old) : new[n] = old[n]
        /\ both \in Seq(WriteOrder)
    BY <1>2, <1>3
  <2> QED
    BY <1>6, <1>7, <1>8, <1>9, <1>10, <2>1 DEF Grows
<1> QED
  BY <1>11 DEF both

-----------------------------------------------------------------------------
\* A Session whose open chunk is not full, which is how every step finds it.
Tidy(m) == m \in SessionState /\ Len(m.buffer) < RecordsPerChunk

\* What a session's step does to a tidy Session.
StepOK(s, m, step) ==
    /\ Tidy(step.mem)
    /\ Grows(s, m.closed, step.mem.closed, step.writes)

\* The assignments the steps make keep the type of a Session and its other fields.
LEMMA WithRecord ==
    ASSUME NEW m \in SessionState, NEW b \in Chunk
    PROVE  /\ [m EXCEPT !.buffer = b, !.seq = @ + 1] \in SessionState
           /\ [m EXCEPT !.buffer = b, !.seq = @ + 1].closed = m.closed
           /\ [m EXCEPT !.buffer = b, !.seq = @ + 1].buffer = b
<1>1. [m EXCEPT !.buffer = b, !.seq = @ + 1] \in SessionState
  <2>1. m.seq + 1 \in Nat
    BY DEF SessionState
  <2> QED
    BY <2>1 DEF SessionState
<1>2. [m EXCEPT !.buffer = b, !.seq = @ + 1].closed = m.closed
  BY DEF SessionState
<1>3. [m EXCEPT !.buffer = b, !.seq = @ + 1].buffer = b
  BY DEF SessionState
<1> QED
  BY <1>1, <1>2, <1>3

LEMMA WithClosed ==
    ASSUME NEW m \in SessionState, NEW b \in Chunk, NEW c \in Seq(Chunk)
    PROVE  /\ [m EXCEPT !.closed = c, !.buffer = b] \in SessionState
           /\ [m EXCEPT !.closed = c, !.buffer = b].closed = c
           /\ [m EXCEPT !.closed = c, !.buffer = b].buffer = b
<1>1. [m EXCEPT !.closed = c, !.buffer = b] \in SessionState
  BY DEF SessionState
<1>2. [m EXCEPT !.closed = c, !.buffer = b].closed = c
  BY DEF SessionState
<1>3. [m EXCEPT !.closed = c, !.buffer = b].buffer = b
  BY DEF SessionState
<1> QED
  BY <1>1, <1>2, <1>3

LEMMA WithFrame ==
    ASSUME NEW m \in SessionState
    PROVE  /\ [m EXCEPT !.frames = @ + 1] \in SessionState
           /\ [m EXCEPT !.frames = @ + 1].closed = m.closed
           /\ [m EXCEPT !.frames = @ + 1].buffer = m.buffer
<1>1. [m EXCEPT !.frames = @ + 1] \in SessionState
  BY DEF SessionState
<1>2. [m EXCEPT !.frames = @ + 1].closed = m.closed
  BY DEF SessionState
<1>3. [m EXCEPT !.frames = @ + 1].buffer = m.buffer
  BY DEF SessionState
<1> QED
  BY <1>1, <1>2, <1>3

LEMMA WithReconnect ==
    ASSUME NEW m \in SessionState
    PROVE  /\ [m EXCEPT !.connection_gaps = @ + 1, !.previous_last = None] \in SessionState
           /\ [m EXCEPT !.connection_gaps = @ + 1, !.previous_last = None].closed = m.closed
           /\ [m EXCEPT !.connection_gaps = @ + 1, !.previous_last = None].buffer = m.buffer
<1>1. [m EXCEPT !.connection_gaps = @ + 1, !.previous_last = None] \in SessionState
  <2>1. m.connection_gaps + 1 \in Nat /\ None \in Ids \cup {None}
    BY DEF SessionState
  <2> QED
    BY <2>1 DEF SessionState
<1>2. [m EXCEPT !.connection_gaps = @ + 1, !.previous_last = None].closed = m.closed
  BY DEF SessionState
<1>3. [m EXCEPT !.connection_gaps = @ + 1, !.previous_last = None].buffer = m.buffer
  BY DEF SessionState
<1> QED
  BY <1>1, <1>2, <1>3

LEMMA WithSpan ==
    ASSUME NEW m \in SessionState, NEW last \in Ids, NEW g \in Nat
    PROVE  /\ [m EXCEPT !.checked = @ + 1, !.previous_last = last, !.gaps = g] \in SessionState
           /\ [m EXCEPT !.checked = @ + 1, !.previous_last = last, !.gaps = g].closed = m.closed
           /\ [m EXCEPT !.checked = @ + 1, !.previous_last = last, !.gaps = g].buffer = m.buffer
<1>1. [m EXCEPT !.checked = @ + 1, !.previous_last = last, !.gaps = g] \in SessionState
  <2>1. m.checked + 1 \in Nat /\ last \in Ids \cup {None}
    BY DEF SessionState
  <2> QED
    BY <2>1 DEF SessionState
<1>2. [m EXCEPT !.checked = @ + 1, !.previous_last = last, !.gaps = g].closed = m.closed
  BY DEF SessionState
<1>3. [m EXCEPT !.checked = @ + 1, !.previous_last = last, !.gaps = g].buffer = m.buffer
  BY DEF SessionState
<1> QED
  BY <1>1, <1>2, <1>3

LEMMA CloseChunkOK ==
    ASSUME NEW s \in Sessions, NEW m \in SessionState
    PROVE  StepOK(s, m, CloseChunk(s, m))
<1> DEFINE closed == Append(m.closed, m.buffer)
<1>1. /\ m.closed \in Seq(Chunk) /\ m.buffer \in Chunk
      /\ RecordsPerChunk \in Nat \ {0}
  BY CaptureAssumption DEF SessionState
<1>2. CASE m.buffer = <<>>
  <2>1. CloseChunk(s, m) = [mem |-> m, writes |-> <<>>]
    BY <1>2 DEF CloseChunk, Step
  <2>2. Len(m.buffer) < RecordsPerChunk
    BY <1>1, <1>2
  <2> QED
    BY <1>1, <2>1, <2>2, GrowsNothing DEF StepOK, Tidy
<1>3. CASE m.buffer # <<>>
  <2>1. closed \in Seq(Chunk) /\ Len(closed) = Len(m.closed) + 1
    BY <1>1
  <2> DEFINE empty == <<>>
             next == [m EXCEPT !.closed = closed, !.buffer = empty]
             writes == <<ChunkWrite(s, Len(closed), m.buffer), IndexWrite(s, closed)>>
  <2>2. CloseChunk(s, m) = [mem |-> next, writes |-> writes]
    BY <1>3 DEF CloseChunk, Step
  <2>3. empty \in Chunk /\ Len(empty) < RecordsPerChunk
    BY <1>1 DEF Chunk
  <2>5. Grows(s, m.closed, closed, writes)
    BY <1>1, <2>1, GrowsChunk
  <2> HIDE DEF writes, closed, empty
  <2>4. next \in SessionState /\ next.closed = closed /\ next.buffer = empty
    <3>1. closed \in Seq(Chunk) /\ empty \in Chunk
      BY <2>1, <2>3
    <3>2. next \in SessionState
      BY <3>1, WithClosed
    <3>3. next.closed = closed
      BY DEF SessionState
    <3>4. next.buffer = empty
      BY DEF SessionState
    <3> QED
      BY <3>2, <3>3, <3>4
  <2> HIDE DEF next
  <2> QED
    BY <2>2, <2>3, <2>4, <2>5 DEF StepOK, Tidy
<1> QED
  BY <1>2, <1>3

LEMMA AppendRecordOK ==
    ASSUME NEW s \in Sessions, NEW m, Tidy(m), NEW record \in Record
    PROVE  StepOK(s, m, AppendRecord(s, m, record))
<1> DEFINE added == [m EXCEPT !.buffer = Append(@, record), !.seq = @ + 1]
<1>1. m \in SessionState /\ m.closed \in Seq(Chunk)
  BY DEF Tidy, SessionState
<1>2. Append(m.buffer, record) \in Chunk
  BY <1>1 DEF SessionState, Chunk
<1>3. added \in SessionState /\ added.closed = m.closed
  BY <1>1, <1>2, WithRecord
<1>4. Len(added.buffer) \in Nat
  BY <1>3 DEF SessionState, Chunk
<1> HIDE DEF added
<1>5. AppendRecord(s, m, record) =
        IF Len(added.buffer) >= RecordsPerChunk THEN CloseChunk(s, added) ELSE Step(added, <<>>)
  BY DEF AppendRecord, added
<1>6. CASE Len(added.buffer) >= RecordsPerChunk
  <2>1. StepOK(s, added, CloseChunk(s, added))
    BY <1>3, CloseChunkOK
  <2> QED
    BY <1>3, <1>5, <1>6, <2>1 DEF StepOK
<1>7. CASE ~(Len(added.buffer) >= RecordsPerChunk)
  <2>1. AppendRecord(s, m, record) = [mem |-> added, writes |-> <<>>]
    BY <1>5, <1>7 DEF Step
  <2>2. Len(added.buffer) < RecordsPerChunk
    BY <1>4, <1>7, CaptureAssumption
  <2>3. Grows(s, m.closed, added.closed, <<>>)
    BY <1>1, <1>3, GrowsNothing
  <2> QED
    BY <1>3, <2>1, <2>2, <2>3 DEF StepOK, Tidy
<1> QED
  BY <1>6, <1>7

\* Changing anything but the chunks leaves a Session tidy and its growth alone.
LEMMA StepsCompose ==
    ASSUME NEW s \in Sessions, NEW m, NEW one, NEW two, NEW between,
           StepOK(s, m, one), StepOK(s, between, two), between.closed = one.mem.closed
    PROVE  StepOK(s, m, Step(two.mem, one.writes \o two.writes))
<1>1. Grows(s, m.closed, two.mem.closed, one.writes \o two.writes)
  BY GrowsTwice DEF StepOK
<1> QED
  BY <1>1 DEF StepOK, Step

LEMMA GapRecordType ==
    ASSUME NEW m, Tidy(m), NEW kind \in {"update_id_gap", "connection_gap"}
    PROVE  GapRecord(m.seq, kind) \in Record
BY DEF GapRecord, Record, Tidy, SessionState

LEMMA AppendGapOK ==
    ASSUME NEW s \in Sessions, NEW m, Tidy(m), NEW kind \in {"update_id_gap", "connection_gap"}
    PROVE  StepOK(s, m, AppendGap(s, m, kind))
BY AppendRecordOK, GapRecordType DEF AppendGap

LEMMA TrackedTidy ==
    ASSUME NEW m, Tidy(m), NEW span \in Span \cup {NoSpan}
    PROVE  Tidy(Tracked(m, span)) /\ Tracked(m, span).closed = m.closed
<1>1. CASE span = NoSpan
  BY <1>1 DEF Tracked
<1>2. CASE span # NoSpan
  <2> DEFINE last == span.last
             g == IF SequenceGap(m, span) THEN m.gaps + 1 ELSE m.gaps
             next == [m EXCEPT !.checked = @ + 1, !.previous_last = last, !.gaps = g]
  <2>1. last \in Ids
    BY <1>2 DEF Span
  <2>2. m \in SessionState /\ g \in Nat
    BY DEF Tidy, SessionState
  <2>3. Tracked(m, span) = next
    BY <1>2 DEF Tracked
  <2> HIDE DEF g, last
  <2>4. next \in SessionState /\ next.closed = m.closed /\ next.buffer = m.buffer
    BY <2>1, <2>2, WithSpan
  <2> HIDE DEF next
  <2> QED
    BY <2>3, <2>4 DEF Tidy
<1> QED
  BY <1>1, <1>2

LEMMA AppendFrameOK ==
    ASSUME NEW s \in Sessions, NEW m, Tidy(m), NEW span \in Span \cup {NoSpan}
    PROVE  StepOK(s, m, AppendFrame(s, m, span))
<1> DEFINE marked == IF SequenceGap(m, span)
                     THEN AppendGap(s, Tracked(m, span), "update_id_gap")
                     ELSE Step(Tracked(m, span), <<>>)
           between == [marked.mem EXCEPT !.frames = @ + 1]
           record == FrameRecord(marked.mem.seq, span)
           added == AppendRecord(s, between, record)
<1>1. StepOK(s, m, marked)
  <2>1. Tidy(Tracked(m, span)) /\ Tracked(m, span).closed = m.closed
    BY TrackedTidy
  <2>2. CASE SequenceGap(m, span)
    <3>1. StepOK(s, Tracked(m, span), AppendGap(s, Tracked(m, span), "update_id_gap"))
      BY <2>1, AppendGapOK
    <3> QED
      BY <2>1, <2>2, <3>1 DEF StepOK
  <2>3. CASE ~SequenceGap(m, span)
    <3>1. m.closed \in Seq(Chunk)
      BY DEF Tidy, SessionState
    <3>2. marked.mem = Tracked(m, span) /\ marked.writes = <<>>
      BY <2>3 DEF Step
    <3> QED
      BY <2>1, <3>1, <3>2, GrowsNothing DEF StepOK
  <2> QED
    BY <2>2, <2>3
<1> HIDE DEF marked
<1>2. Tidy(between) /\ between.closed = marked.mem.closed
  BY <1>1, WithFrame DEF StepOK, Tidy
<1>3. record \in Record
  BY <1>1 DEF FrameRecord, Record, StepOK, Tidy, SessionState
<1>4. StepOK(s, between, added)
  BY <1>2, <1>3, AppendRecordOK
<1>5. AppendFrame(s, m, span) = Step(added.mem, marked.writes \o added.writes)
  BY DEF AppendFrame, marked
<1> QED
  BY <1>1, <1>2, <1>4, <1>5, StepsCompose

LEMMA MarkReconnectOK ==
    ASSUME NEW s \in Sessions, NEW m, Tidy(m)
    PROVE  StepOK(s, m, MarkReconnect(s, m))
<1> DEFINE marked == AppendGap(s, m, "connection_gap")
           after == [marked.mem EXCEPT !.connection_gaps = @ + 1, !.previous_last = None]
<1>1. StepOK(s, m, marked)
  BY AppendGapOK
<1>2. MarkReconnect(s, m) = [mem |-> after, writes |-> marked.writes]
  BY DEF MarkReconnect, Step
<1> HIDE DEF marked
<1>3. Tidy(after) /\ after.closed = marked.mem.closed
  BY <1>1, WithReconnect DEF StepOK, Tidy
<1> HIDE DEF after
<1> QED
  BY <1>1, <1>2, <1>3 DEF StepOK

\* Session::finish: the manifest goes last.
LEMMA FinishOK ==
    ASSUME NEW s \in Sessions, NEW m, Tidy(m), NEW content \in Manifest
    PROVE  StepOK(s, m, Step(CloseChunk(s, m).mem,
                             Append(CloseChunk(s, m).writes, ManifestWrite(s, content))))
<1> DEFINE step == CloseChunk(s, m)
           w == ManifestWrite(s, content)
<1>1. StepOK(s, m, step)
  BY CloseChunkOK DEF Tidy
<1>2. step.mem.closed \in Seq(Chunk) /\ step.writes \in Seq(WriteOrder)
  BY <1>1 DEF StepOK, Grows
<1>3. Grows(s, step.mem.closed, step.mem.closed, <<w>>)
  BY <1>2, GrowsManifest
<1>4. Grows(s, m.closed, step.mem.closed, step.writes \o <<w>>)
  BY <1>1, <1>3, GrowsTwice DEF StepOK
<1>5. step.writes \o <<w>> = Append(step.writes, w)
  BY <1>2
<1> QED
  BY <1>1, <1>4, <1>5 DEF StepOK, Step

-----------------------------------------------------------------------------
\* A step of an opened session that finds nothing left to write keeps StoreInv.
LEMMA StepKeepsStore ==
    ASSUME TypeOK, StoreInv, todo = <<>>, NEW s \in Sessions, Opened(s),
           NEW step, StepOK(s, mem[s], step),
           mem' = [mem EXCEPT ![s] = step.mem], todo' = step.writes, disk' = disk,
           Running', \A r \in Sessions : Opened(r)' => Opened(r)
    PROVE  StoreInv'
<1> DEFINE old == mem[s].closed
           new == step.mem.closed
<1>1. Grows(s, old, new, todo')
  BY DEF StepOK
<1>2. /\ old \in Seq(Chunk) /\ new \in Seq(Chunk)
      /\ Len(old) \in Nat /\ Len(new) \in Nat /\ Len(old) <= Len(new)
      /\ DOMAIN old = 1..Len(old) /\ DOMAIN new = 1..Len(new)
      /\ \A n \in 1..Len(old) : new[n] = old[n]
      /\ todo' \in Seq(WriteOrder) /\ DOMAIN todo' = 1..Len(todo')
  BY <1>1 DEF Grows
<1>3. mem'[s].closed = new /\ \A r \in Sessions : r # s => mem'[r] = mem[r]
  BY DEF TypeOK
<1> HIDE DEF new
<1>4. \A r \in Sessions : \A n \in DOMAIN mem[r].closed :
         n \in DOMAIN mem'[r].closed /\ mem'[r].closed[n] = mem[r].closed[n]
  BY <1>2, <1>3
<1>5. \A r \in Sessions : \A n : OnDisk(r, n) => OnDisk(r, n)'
  BY <1>4 DEF OnDisk
<1>6. \A r \in Sessions : Opened(r) => \A n \in DOMAIN mem[r].closed : OnDisk(r, n)
  BY DEF StoreInv
<1>7. ASSUME NEW r \in Sessions
      PROVE  FilesInv(r)'
  <2>1. FilesInv(r)
    BY DEF StoreInv
  <2>2. \A n \in DOMAIN disk[r].chunks :
           /\ n \in DOMAIN mem'[r].closed
           /\ disk[r].chunks[n] \in {mem'[r].closed[n], Torn}
    BY <1>4, <2>1 DEF FilesInv
  <2>3. Whole(disk[r].index) =>
           \A n \in DOMAIN disk[r].index :
              OnDisk(r, n)' /\ disk[r].index[n] = mem'[r].closed[n]
    <3>1. ASSUME Whole(disk[r].index), NEW n \in DOMAIN disk[r].index
          PROVE  OnDisk(r, n)' /\ disk[r].index[n] = mem'[r].closed[n]
      <4>1. OnDisk(r, n) /\ disk[r].index[n] = mem[r].closed[n]
        BY <2>1, <3>1 DEF FilesInv
      <4>2. n \in DOMAIN mem[r].closed
        BY <4>1 DEF OnDisk
      <4> QED
        BY <1>4, <1>5, <4>1, <4>2
    <3> QED
      BY <3>1
  <2> QED
    BY <2>1, <2>2, <2>3 DEF FilesInv, HasChunks, Whole
<1>8. ASSUME NEW r \in Sessions, Opened(r)', NEW n \in DOMAIN mem'[r].closed
      PROVE  OnDisk(r, n)' \/ \E i \in DOMAIN todo' : Ordered(i, r, n)'
  <2>1. CASE r # s
    BY <1>3, <1>5, <1>6, <1>8, <2>1
  <2>2. CASE r = s /\ n \in DOMAIN old
    BY <1>5, <1>6, <2>2
  <2>3. CASE r = s /\ n \notin DOMAIN old
    <3>1. n \in Len(old) + 1 .. Len(new)
      BY <1>2, <1>3, <1>8, <2>3
    <3>2. PICK i \in 1..Len(todo') : todo'[i].file = "chunk" /\ todo'[i].number = n
      BY <1>1, <3>1 DEF Grows
    <3>3. todo'[i].session = s
      BY <1>1 DEF Grows
    <3> QED
      BY <1>2, <2>3, <3>2, <3>3 DEF Ordered
  <2> QED
    BY <2>1, <2>2, <2>3
<1>9. ASSUME NEW i \in DOMAIN todo'
      PROVE  ChunkOrderInv(i)' /\ IndexOrderInv(i)'
  <2>1. i \in 1..Len(todo') /\ todo'[i].session = s
    BY <1>1, <1>2 DEF Grows
  <2>2. ASSUME todo'[i].file = "chunk"
        PROVE  ChunkOrderInv(i)'
    <3>1. todo'[i].number \in Len(old) + 1 .. Len(new) /\ todo'[i].content = new[todo'[i].number]
      BY <1>1, <2>1, <2>2 DEF Grows
    <3>2. todo'[i].number \in DOMAIN new /\ todo'[i].number \notin DOMAIN old
      BY <1>2, <3>1
    <3>3. todo'[i].number \notin DOMAIN disk[s].chunks
      BY <3>2 DEF StoreInv, FilesInv
    <3>4. ASSUME NEW j \in DOMAIN todo',
                 todo'[j].file = "chunk", todo'[j].number = todo'[i].number
          PROVE  j = i
      <4>1. j \in 1..Len(todo')
        BY <1>2
      <4> QED
        BY <1>1, <2>1, <2>2, <3>4, <4>1 DEF Grows
    <3>5. /\ todo'[i].number \in DOMAIN mem'[s].closed
          /\ todo'[i].content = mem'[s].closed[todo'[i].number]
          /\ todo'[i].number \notin DOMAIN disk'[s].chunks
      BY <1>3, <3>1, <3>2, <3>3
    <3> QED
      BY <2>1, <3>4, <3>5 DEF ChunkOrderInv, Ordered
  <2>3. ASSUME todo'[i].file = "index"
        PROVE  IndexOrderInv(i)'
    <3> DEFINE index == todo'[i].content
    <3>1. index \in Seq(Chunk)
      <4>1. todo'[i] \in WriteOrder
        BY <1>2, <2>1
      <4> QED
        BY <2>3, <4>1 DEF WriteOrder
    <3>2. /\ index # <<>>
          /\ Len(index) <= Len(new)
          /\ \A n \in 1..Len(index) :
                /\ index[n] = new[n]
                /\ n > Len(old) =>
                      \E j \in 1..i - 1 : todo'[j].file = "chunk" /\ todo'[j].number = n
      BY <1>1, <2>1, <2>3 DEF Grows
    <3> HIDE DEF index
    <3>3. DOMAIN index = 1..Len(index) /\ Len(index) \in Nat
      BY <3>1
    <3>4. ASSUME NEW n \in DOMAIN index
          PROVE  /\ n \in DOMAIN mem'[s].closed
                 /\ index[n] = mem'[s].closed[n]
                 /\ OnDisk(s, n)' \/ \E j \in 1..i - 1 : Ordered(j, s, n)'
      <4>1. n \in 1..Len(index) /\ n \in DOMAIN new /\ index[n] = new[n]
        BY <1>2, <3>2, <3>3
      <4>2. CASE n > Len(old)
        <5>1. PICK j \in 1..i - 1 : todo'[j].file = "chunk" /\ todo'[j].number = n
          BY <3>2, <4>1, <4>2
        <5>2. j \in 1..Len(todo')
          BY <2>1
        <5>3. todo'[j].session = s
          BY <1>1, <5>2 DEF Grows
        <5> QED
          BY <1>3, <4>1, <5>1, <5>3 DEF Ordered
      <4>3. CASE n <= Len(old)
        <5>1. n \in DOMAIN old
          BY <1>2, <4>1, <4>3
        <5> QED
          BY <1>3, <1>5, <1>6, <4>1, <5>1
      <4> QED
        BY <1>2, <3>3, <4>1, <4>2, <4>3
    <3> QED
      BY <2>1, <3>2, <3>4 DEF IndexOrderInv, index
  <2> QED
    BY <2>2, <2>3 DEF ChunkOrderInv, IndexOrderInv
<1>10. DOMAIN disk' = Sessions
  BY DEF StoreInv
<1> QED
  BY <1>2, <1>7, <1>8, <1>9, <1>10 DEF StoreInv

\* A step that touches neither memory nor disk, and opens no session.
LEMMA StoreUndisturbed ==
    ASSUME StoreInv, mem' = mem, disk' = disk, todo' = todo, ~Running' => todo = <<>>,
           \A r \in Sessions : Opened(r)' => Opened(r)
    PROVE  StoreInv'
<1>1. \A r \in Sessions : \A n : OnDisk(r, n) <=> OnDisk(r, n)'
  BY DEF OnDisk
<1>2. \A i, r, n : Ordered(i, r, n) <=> Ordered(i, r, n)'
  BY DEF Ordered
<1>3. \A r \in Sessions : FilesInv(r)'
  BY DEF StoreInv, FilesInv, OnDisk, HasChunks, Whole
<1>4. \A i \in DOMAIN todo : ChunkOrderInv(i)' /\ IndexOrderInv(i)'
  BY DEF StoreInv, ChunkOrderInv, IndexOrderInv, OnDisk, Ordered
<1> QED
  BY <1>1, <1>2, <1>3, <1>4 DEF StoreInv

\* The process is dead: what is on disk is all that matters.
LEMMA StoreOfTheDead ==
    ASSUME mem' = mem, todo' = <<>>, ~Running', DOMAIN disk' = Sessions,
           \A r \in Sessions : FilesInv(r)'
    PROVE  StoreInv'
<1>1. \A r \in Sessions : ~Opened(r)'
  BY DEF Opened
<1> QED
  BY <1>1 DEF StoreInv

-----------------------------------------------------------------------------
\* One write, whole or torn: the directories stay in order, nothing that was on
\* disk is lost, and a chunk file that existed is as it was.
LEMMA WrittenFiles ==
    ASSUME TypeOK, StoreInv, todo # <<>>, NEW content \in {Head(todo).content, Torn},
           mem' = mem,
           disk' = [disk EXCEPT ![Head(todo).session] = Written(@, Head(todo), content)]
    PROVE  /\ DOMAIN disk' = Sessions
           /\ \A r \in Sessions : FilesInv(r)'
           /\ \A r \in Sessions : \A n \in DOMAIN disk[r].chunks :
                 n \in DOMAIN disk'[r].chunks /\ disk'[r].chunks[n] = disk[r].chunks[n]
           /\ \A r \in Sessions : \A n \in DOMAIN disk'[r].chunks :
                 n \in DOMAIN disk[r].chunks \/ Ordered(1, r, n)
<1>1. PICK w \in WriteOrder : w = Head(todo) /\ w = todo[1] /\ 1 \in DOMAIN todo
  BY DEF StoreInv
<1> DEFINE s == w.session
           before == disk[s]
           after == Written(before, w, content)
<1>2. /\ s \in Sessions /\ w.file \in {"manifest", "chunk", "index"}
      /\ w.file = "index" => w.content \in Seq(Chunk)
  BY <1>1 DEF WriteOrder
<1>3. ChunkOrderInv(1) /\ IndexOrderInv(1)
  BY <1>1 DEF StoreInv
<1>4. /\ DOMAIN disk' = Sessions
      /\ disk'[s] = after
      /\ \A r \in Sessions : r # s => disk'[r] = disk[r]
  BY <1>1, <1>2 DEF StoreInv
<1>5. FilesInv(s) /\ DOMAIN before = {"manifest", "chunks", "index"}
  BY <1>2 DEF StoreInv, FilesInv
<1>6. /\ w.file = "manifest" => after = [before EXCEPT !.manifest = content]
      /\ w.file = "chunk" => after = [before EXCEPT !.chunks =
             [n \in DOMAIN before.chunks \cup {w.number} |->
                 IF n = w.number THEN content ELSE before.chunks[n]]]
      /\ w.file = "index" => after = [before EXCEPT !.index = content]
  BY DEF Written
<1>7. content \in {w.content, Torn}
  BY <1>1
<1>8. w.file = "chunk" => Ordered(1, s, w.number)
  BY <1>1 DEF Ordered
<1>9. /\ w.file = "chunk" =>
            /\ w.number \in DOMAIN mem[s].closed
            /\ w.content = mem[s].closed[w.number]
            /\ w.number \notin DOMAIN before.chunks
      /\ w.file = "index" =>
            /\ w.content # <<>>
            /\ \A n \in DOMAIN w.content : OnDisk(s, n) /\ w.content[n] = mem[s].closed[n]
  <2>1. \A j : j \notin 1..1 - 1
    OBVIOUS
  <2> QED
    BY <1>1, <1>3, <2>1 DEF ChunkOrderInv, IndexOrderInv
<1> HIDE DEF after
<1> DEFINE Kept ==
             /\ \A n \in DOMAIN before.chunks :
                   n \in DOMAIN after.chunks /\ after.chunks[n] = before.chunks[n]
             /\ \A n \in DOMAIN after.chunks :
                   n \in DOMAIN before.chunks \/ Ordered(1, s, n)
<1>10. Kept /\ FilesInv(s)'
  <2>1. CASE w.file = "manifest"
    <3>1. /\ after.chunks = before.chunks /\ after.index = before.index
          /\ DOMAIN after = {"manifest", "chunks", "index"}
      BY <1>5, <1>6, <2>1
    <3>2. Kept
      BY <3>1
    <3>3. FilesInv(s)'
      BY <1>4, <1>5, <3>1 DEF FilesInv, OnDisk, HasChunks, Whole
    <3> QED
      BY <3>2, <3>3
  <2>2. CASE w.file = "chunk"
    <3>1. /\ after.index = before.index
          /\ DOMAIN after = {"manifest", "chunks", "index"}
          /\ DOMAIN after.chunks = DOMAIN before.chunks \cup {w.number}
          /\ after.chunks[w.number] = content
          /\ \A n \in DOMAIN before.chunks : after.chunks[n] = before.chunks[n]
      BY <1>5, <1>6, <1>9, <2>2
    <3>2. Kept
      BY <1>8, <2>2, <3>1
    <3>3. \A n \in DOMAIN after.chunks :
             n \in DOMAIN mem[s].closed /\ after.chunks[n] \in {mem[s].closed[n], Torn}
      BY <1>5, <1>7, <1>9, <2>2, <3>1 DEF FilesInv
    <3>4. \A n : OnDisk(s, n) => OnDisk(s, n)'
      BY <1>4, <3>1 DEF OnDisk
    <3>5. after.index # None => DOMAIN after.chunks # {}
      BY <3>1
    <3>6. Whole(after.index) => \A n \in DOMAIN after.index :
             OnDisk(s, n)' /\ after.index[n] = mem[s].closed[n]
      BY <1>5, <3>1, <3>4 DEF FilesInv
    <3>7. after.index \in Seq(Chunk) \cup {None, Torn}
      BY <1>5, <3>1 DEF FilesInv
    <3>8. FilesInv(s)'
      BY <1>4, <3>1, <3>3, <3>5, <3>6, <3>7 DEF FilesInv, HasChunks, Whole
    <3> QED
      BY <3>2, <3>8
  <2>3. CASE w.file = "index"
    <3>1. /\ after.chunks = before.chunks /\ after.index = content
          /\ DOMAIN after = {"manifest", "chunks", "index"}
      BY <1>5, <1>6, <2>3
    <3>2. Kept
      BY <3>1
    <3>3. \A n : OnDisk(s, n) => OnDisk(s, n)'
      BY <1>4, <3>1 DEF OnDisk
    <3>4. DOMAIN after.chunks # {}
      <4>1. 1 \in DOMAIN w.content
        BY <1>2, <1>9, <2>3
      <4> QED
        BY <1>9, <2>3, <3>1, <4>1 DEF OnDisk
    <3>5. content \in Seq(Chunk) \cup {None, Torn}
      BY <1>2, <1>7, <2>3
    <3>6. Whole(content) => \A n \in DOMAIN content :
             OnDisk(s, n)' /\ content[n] = mem[s].closed[n]
      BY <1>7, <1>9, <2>3, <3>3 DEF Whole
    <3>7. \A n \in DOMAIN after.chunks :
             n \in DOMAIN mem[s].closed /\ after.chunks[n] \in {mem[s].closed[n], Torn}
      BY <1>5, <3>1 DEF FilesInv
    <3>8. FilesInv(s)'
      BY <1>4, <3>1, <3>4, <3>5, <3>6, <3>7 DEF FilesInv, HasChunks, Whole
    <3> QED
      BY <3>2, <3>8
  <2> QED
    BY <1>2, <2>1, <2>2, <2>3
<1>11. ASSUME NEW r \in Sessions, r # s
       PROVE  /\ FilesInv(r)'
              /\ disk'[r].chunks = disk[r].chunks
  <2>1. FilesInv(r) /\ disk'[r] = disk[r]
    BY <1>4, <1>11 DEF StoreInv
  <2> QED
    BY <2>1 DEF FilesInv, OnDisk, HasChunks, Whole
<1>12. \A r \in Sessions : FilesInv(r)'
  BY <1>10, <1>11
<1>13. \A r \in Sessions :
          /\ \A n \in DOMAIN disk[r].chunks :
                n \in DOMAIN disk'[r].chunks /\ disk'[r].chunks[n] = disk[r].chunks[n]
          /\ \A n \in DOMAIN disk'[r].chunks :
                n \in DOMAIN disk[r].chunks \/ Ordered(1, r, n)
  BY <1>4, <1>10, <1>11
<1> QED
  BY <1>4, <1>12, <1>13

LEMMA WriteKeepsStore ==
    ASSUME TypeOK, StoreInv, Write
    PROVE  StoreInv'
<1> DEFINE w == Head(todo)
<1>1. /\ Running /\ Running' /\ todo # <<>> /\ todo' = Tail(todo) /\ mem' = mem
      /\ pc' = pc /\ session' = session
      /\ disk' = [disk EXCEPT ![w.session] = Written(@, w, w.content)]
  BY DEF Write, Running
<1>2. /\ DOMAIN disk' = Sessions
      /\ \A r \in Sessions : FilesInv(r)'
      /\ \A r \in Sessions : \A n \in DOMAIN disk[r].chunks :
            n \in DOMAIN disk'[r].chunks /\ disk'[r].chunks[n] = disk[r].chunks[n]
      /\ \A r \in Sessions : \A n \in DOMAIN disk'[r].chunks :
            n \in DOMAIN disk[r].chunks \/ Ordered(1, r, n)
  BY <1>1, WrittenFiles
<1>3. /\ todo \in Seq(WriteOrder) /\ Len(todo) \in Nat /\ DOMAIN todo = 1..Len(todo)
      /\ todo' \in Seq(WriteOrder) /\ DOMAIN todo' = 1..Len(todo) - 1
      /\ \A i \in 1..Len(todo) - 1 : todo'[i] = todo[i + 1]
      /\ w = todo[1] /\ 1 \in DOMAIN todo /\ w \in WriteOrder
  BY <1>1 DEF StoreInv
<1>4. \A r \in Sessions : \A n : OnDisk(r, n) => OnDisk(r, n)'
  BY <1>1, <1>2 DEF OnDisk
\* What was ordered is on disk, or still ordered, one place further up.
<1>5. ASSUME NEW i \in DOMAIN todo, NEW r \in Sessions, NEW n, Ordered(i, r, n)
      PROVE  IF i = 1 THEN OnDisk(r, n)' ELSE i - 1 \in DOMAIN todo' /\ Ordered(i - 1, r, n)'
  <2>1. CASE i = 1
    <3>1. w.file = "chunk" /\ w.session = r /\ w.number = n
      BY <1>3, <1>5, <2>1 DEF Ordered
    <3>2. /\ n \in DOMAIN mem[r].closed
          /\ w.content = mem[r].closed[n]
      BY <1>3, <3>1 DEF StoreInv, ChunkOrderInv
    <3>3. disk'[r] = Written(disk[r], w, w.content)
      BY <1>1, <3>1 DEF StoreInv
    <3>4. FilesInv(r)
      BY DEF StoreInv
    <3>5. n \in DOMAIN disk'[r].chunks /\ disk'[r].chunks[n] = w.content
      <4> HIDE DEF w
      <4>1. Written(disk[r], w, w.content) = [disk[r] EXCEPT !.chunks =
               [k \in DOMAIN disk[r].chunks \cup {n} |->
                   IF k = n THEN w.content ELSE disk[r].chunks[k]]]
        BY <3>1 DEF Written
      <4> QED
        BY <3>3, <3>4, <4>1 DEF FilesInv
    <3> QED
      BY <1>1, <2>1, <3>2, <3>5 DEF OnDisk
  <2>2. CASE i # 1
    <3>1. i - 1 \in 1..Len(todo) - 1 /\ todo'[i - 1] = todo[i - 1 + 1] /\ i - 1 + 1 = i
      BY <1>3, <2>2
    <3>2. todo'[i - 1] = todo[i]
      BY <3>1
    <3> QED
      BY <1>3, <1>5, <2>2, <3>1, <3>2 DEF Ordered
  <2> QED
    BY <2>1, <2>2
<1>6. ASSUME NEW r \in Sessions, Opened(r)', NEW n \in DOMAIN mem'[r].closed
      PROVE  OnDisk(r, n)' \/ \E i \in DOMAIN todo' : Ordered(i, r, n)'
  <2>1. Opened(r) /\ n \in DOMAIN mem[r].closed
    BY <1>1, <1>6 DEF Opened, Running
  <2>2. OnDisk(r, n) \/ \E i \in DOMAIN todo : Ordered(i, r, n)
    BY <2>1 DEF StoreInv
  <2> QED
    BY <1>4, <1>5, <2>2
<1>7. ASSUME NEW i \in DOMAIN todo'
      PROVE  ChunkOrderInv(i)' /\ IndexOrderInv(i)'
  <2>1. PICK x \in WriteOrder :
           /\ i \in 1..Len(todo) - 1 /\ i + 1 \in DOMAIN todo /\ i + 1 # 1 /\ i \in Nat
           /\ todo'[i] = x /\ x = todo[i + 1]
    BY <1>3
  <2>2. x.session \in Sessions
    BY <2>1 DEF WriteOrder
  <2>3. ChunkOrderInv(i + 1) /\ IndexOrderInv(i + 1)
    BY <2>1 DEF StoreInv
  <2>4. ASSUME x.file = "chunk"
        PROVE  ChunkOrderInv(i)'
    <3>1. /\ x.number \in DOMAIN mem[x.session].closed
          /\ x.content = mem[x.session].closed[x.number]
          /\ x.number \notin DOMAIN disk[x.session].chunks
          /\ \A j \in DOMAIN todo : Ordered(j, x.session, x.number) => j = i + 1
      BY <2>1, <2>3, <2>4 DEF ChunkOrderInv
    <3>2. x.number \notin DOMAIN disk'[x.session].chunks
      BY <1>2, <1>3, <2>1, <2>2, <3>1
    <3>3. ASSUME NEW j \in DOMAIN todo', Ordered(j, x.session, x.number)'
          PROVE  j = i
      <4>1. /\ j \in 1..Len(todo) - 1 /\ j + 1 \in DOMAIN todo
            /\ todo'[j] = todo[j + 1]
        BY <1>3
      <4>2. Ordered(j + 1, x.session, x.number)
        BY <3>3, <4>1 DEF Ordered
      <4>3. j + 1 = i + 1
        BY <3>1, <4>1, <4>2
      <4> QED
        BY <2>1, <4>1, <4>3
    <3> QED
      BY <1>1, <2>1, <3>1, <3>2, <3>3 DEF ChunkOrderInv
  <2>5. ASSUME x.file = "index"
        PROVE  IndexOrderInv(i)'
    <3>1. /\ x.content # <<>>
          /\ \A n \in DOMAIN x.content :
                /\ n \in DOMAIN mem[x.session].closed
                /\ x.content[n] = mem[x.session].closed[n]
                /\ OnDisk(x.session, n) \/ \E j \in 1..i + 1 - 1 : Ordered(j, x.session, n)
      BY <2>1, <2>3, <2>5 DEF IndexOrderInv
    <3>2. ASSUME NEW n \in DOMAIN x.content
          PROVE  OnDisk(x.session, n)' \/ \E j \in 1..i - 1 : Ordered(j, x.session, n)'
      <4>1. CASE OnDisk(x.session, n)
        BY <1>4, <2>2, <4>1
      <4>2. CASE \E j \in 1..i + 1 - 1 : Ordered(j, x.session, n)
        <5>1. PICK j \in 1..i + 1 - 1 : Ordered(j, x.session, n)
          BY <4>2
        <5>2. j \in DOMAIN todo /\ j \in 1..i
          BY <1>3, <2>1
        <5>3. IF j = 1 THEN OnDisk(x.session, n)'
              ELSE Ordered(j - 1, x.session, n)'
          BY <1>5, <2>2, <5>1, <5>2
        <5>4. j # 1 => j - 1 \in 1..i - 1
          BY <2>1, <5>2
        <5> QED
          BY <5>3, <5>4
      <4> QED
        BY <3>1, <4>1, <4>2
    <3> QED
      BY <1>1, <2>1, <3>1, <3>2 DEF IndexOrderInv
  <2> QED
    BY <2>1, <2>4, <2>5 DEF ChunkOrderInv, IndexOrderInv
<1> QED
  BY <1>1, <1>2, <1>3, <1>6, <1>7 DEF StoreInv

LEMMA TearKeepsStore ==
    ASSUME TypeOK, StoreInv, TearWrite
    PROVE  StoreInv'
<1>1. /\ todo # <<>> /\ todo' = <<>> /\ mem' = mem /\ ~Running'
      /\ disk' = [disk EXCEPT ![Head(todo).session] = Written(@, Head(todo), Torn)]
  BY DEF TearWrite, Running
<1>2. DOMAIN disk' = Sessions /\ \A r \in Sessions : FilesInv(r)'
  BY <1>1, WrittenFiles
<1> QED
  BY <1>1, <1>2, StoreOfTheDead

LEMMA CrashKeepsStore ==
    ASSUME StoreInv, Crash
    PROVE  StoreInv'
<1>1. todo' = <<>> /\ mem' = mem /\ disk' = disk /\ ~Running'
  BY DEF Crash, Running
<1>2. \A r \in Sessions : FilesInv(r)'
  BY <1>1 DEF StoreInv, FilesInv, OnDisk, HasChunks, Whole
<1>3. DOMAIN disk' = Sessions
  BY <1>1 DEF StoreInv
<1> QED
  BY <1>1, <1>2, <1>3, StoreOfTheDead

-----------------------------------------------------------------------------
Inv == TypeOK /\ StoreInv

LEMMA FreshTidy == Tidy(FreshSession(<<>>)) /\ FreshSession(<<>>).closed = <<>>
<1> DEFINE empty == <<>>
<1>1. empty \in Chunk /\ empty \in Seq(Chunk) /\ Len(empty) = 0
  BY DEF Chunk
<1>2. RecordsPerChunk \in Nat \ {0}
  BY CaptureAssumption
<1> HIDE DEF empty
<1>3. FreshSession(empty) \in SessionState
  BY <1>1 DEF FreshSession, SessionState
<1>4. FreshSession(empty).closed = empty
  BY DEF FreshSession
<1>5. Len(FreshSession(empty).buffer) < RecordsPerChunk
  BY <1>2 DEF FreshSession
<1> QED
  BY <1>3, <1>4, <1>5 DEF Tidy, empty

LEMMA InitInv == Init => Inv
<1> SUFFICES ASSUME Init PROVE Inv
  OBVIOUS
<1>1. NumSessions \in Nat \ {0} /\ MaxReconnects \in Nat /\ MaxReads \in Nat
  BY CaptureAssumption
<1>2. /\ mem \in [Sessions -> SessionState]
      /\ \A s \in Sessions : Len(mem[s].buffer) < RecordsPerChunk /\ mem[s].closed = <<>>
  BY FreshTidy DEF Init, Tidy
<1>3. TypeOK
  <2>1. session \in Sessions
    BY <1>1 DEF Init, Sessions
  <2>2. pc \in Labels /\ reason \in Stops \cup {None}
    BY DEF Init, Labels
  <2>3. /\ reconnects \in 0..MaxReconnects /\ reads \in 0..MaxReads /\ unknown \in 0..reads
        /\ runs \in Nat
    BY <1>1 DEF Init
  <2>4. interrupted \in BOOLEAN /\ elapsed \in BOOLEAN
    BY DEF Init
  <2> QED
    BY <1>2, <2>1, <2>2, <2>3, <2>4 DEF TypeOK
<1>4. \A s \in Sessions : FilesInv(s)
  <2>1. \A s \in Sessions : disk[s] = EmptyDirectory
    BY DEF Init
  <2>2. /\ DOMAIN EmptyDirectory = {"manifest", "chunks", "index"}
        /\ DOMAIN EmptyDirectory.chunks = {}
        /\ EmptyDirectory.index = None
    BY DEF EmptyDirectory
  <2> QED
    BY <2>1, <2>2 DEF FilesInv, Whole
<1>5. StoreInv
  <2>1. DOMAIN mem[1].closed = {} /\ \A s \in Sessions : DOMAIN mem[s].closed = {}
    BY <1>1, <1>2 DEF Sessions
  <2>2. todo = <<>> /\ DOMAIN disk = Sessions /\ Running
    BY DEF Init, Running
  <2>3. todo \in Seq(WriteOrder) /\ DOMAIN todo = {}
    BY <2>2
  <2> QED
    BY <1>4, <2>1, <2>2, <2>3 DEF StoreInv
<1> QED
  BY <1>3, <1>5 DEF Inv

\* What a session's step leaves in memory has the type of a memory.
LEMMA StepKeepsMemory ==
    ASSUME TypeOK, NEW s \in Sessions, NEW step, Tidy(step.mem),
           mem' = [mem EXCEPT ![s] = step.mem]
    PROVE  /\ mem' \in [Sessions -> SessionState]
           /\ \A r \in Sessions : Len(mem'[r].buffer) < RecordsPerChunk
BY DEF TypeOK, Tidy

\* The parts of TypeOK that are not about memory.
Scalars ==
    /\ pc \in Labels
    /\ session \in Sessions
    /\ reason \in Stops \cup {None}
    /\ reconnects \in 0..MaxReconnects
    /\ reads \in 0..MaxReads
    /\ unknown \in 0..reads
    /\ interrupted \in BOOLEAN
    /\ elapsed \in BOOLEAN
    /\ runs \in Nat

LEMMA TypeParts ==
    TypeOK <=> /\ Scalars
               /\ mem \in [Sessions -> SessionState]
               /\ \A s \in Sessions : Len(mem[s].buffer) < RecordsPerChunk
BY DEF TypeOK, Scalars

\* Session::open reads an index only where there is one, and an index is written
\* after a chunk: where no chunk is, the list of chunks starts empty.
LEMMA OpenSessionInv ==
    ASSUME Inv, OpenSession
    PROVE  mem' \in [Sessions -> SessionState]
           /\ (\A r \in Sessions : Len(mem'[r].buffer) < RecordsPerChunk)
           /\ StoreInv'
<1> DEFINE s == session
<1>1. /\ TypeOK /\ StoreInv /\ pc = "open" /\ todo = <<>> /\ session \in Sessions
      /\ DOMAIN disk[session].chunks = {} /\ FilesInv(session)
  BY DEF Inv, OpenSession, At, HasChunks, StoreInv, TypeOK
<1>2. ReadIndex(disk[session]) = <<>>
  BY <1>1 DEF FilesInv, HasChunks, ReadIndex
<1>3. /\ mem' = [mem EXCEPT ![session] = FreshSession(<<>>)]
      /\ todo' = <<ManifestWrite(session, InProgress)>> /\ disk' = disk
  BY <1>2 DEF OpenSession
<1>4. \/ pc' = "connect" /\ session = NumSessions
      \/ pc' = "open" /\ session' = session + 1
  BY <1>1 DEF OpenSession
<1>5. PICK k \in Sessions : k = session
  BY <1>1
<1>6. /\ mem' \in [Sessions -> SessionState]
      /\ \A r \in Sessions : Len(mem'[r].buffer) < RecordsPerChunk
      /\ mem'[k].closed = <<>>
      /\ \A r \in Sessions : r # k => mem'[r] = mem[r]
  BY <1>1, <1>3, <1>5, FreshTidy DEF Tidy, TypeOK
<1>7. \A r \in Sessions \ {k} : \A n : OnDisk(r, n) => OnDisk(r, n)'
  BY <1>3, <1>6 DEF OnDisk
<1>8. ASSUME NEW r \in Sessions
      PROVE  FilesInv(r)'
  <2>1. CASE r = k
    <3>1. /\ DOMAIN disk[k] = {"manifest", "chunks", "index"}
          /\ DOMAIN disk[k].chunks = {} /\ disk[k].index = None
      BY <1>1, <1>5 DEF FilesInv, HasChunks
    <3> QED
      BY <1>3, <2>1, <3>1 DEF FilesInv, Whole
  <2>2. CASE r # k
    <3>1. FilesInv(r) /\ mem'[r] = mem[r] /\ disk' = disk
      BY <1>1, <1>3, <1>6, <2>2 DEF StoreInv
    <3> QED
      BY <3>1 DEF FilesInv, OnDisk, HasChunks, Whole
  <2> QED
    BY <2>1, <2>2
<1>9. ASSUME NEW r \in Sessions, Opened(r)', NEW n \in DOMAIN mem'[r].closed
      PROVE  OnDisk(r, n)'
  <2>1. r # k
    BY <1>6, <1>9
  <2>2. r < session
    <3>1. r \in Int /\ session \in Int /\ NumSessions \in Int /\ r <= NumSessions
      BY <1>1, CaptureAssumption DEF Sessions
    <3>2. r <= session
      BY <1>4, <1>9, <3>1 DEF Opened
    <3> QED
      BY <1>5, <2>1, <3>1, <3>2
  <2>3. Opened(r) /\ n \in DOMAIN mem[r].closed
    BY <1>1, <1>6, <1>9, <2>1, <2>2 DEF Opened, Running
  <2>4. OnDisk(r, n)
    BY <1>1, <2>3 DEF StoreInv
  <2> QED
    BY <1>7, <2>1, <2>4
<1>10. /\ todo' \in Seq(WriteOrder)
       /\ \A i \in DOMAIN todo' : todo'[i].file = "manifest"
  <2>1. InProgress \in Manifest
    BY DEF InProgress, Manifest
  <2>2. ManifestWrite(k, InProgress) \in WriteOrder
        /\ ManifestWrite(k, InProgress).file = "manifest"
    BY <2>1 DEF ManifestWrite, WriteOrder, Manifest
  <2> QED
    BY <1>3, <1>5, <2>2
<1>11. \A i \in DOMAIN todo' : ChunkOrderInv(i)' /\ IndexOrderInv(i)'
  BY <1>10 DEF ChunkOrderInv, IndexOrderInv
<1>12. Running' /\ DOMAIN disk' = Sessions
  BY <1>1, <1>3, <1>4 DEF Running, StoreInv
<1> QED
  BY <1>6, <1>8, <1>9, <1>10, <1>11, <1>12 DEF StoreInv

-----------------------------------------------------------------------------
\* The three actions of the running process that make a step in a Session.
LEMMA SessionSteps ==
    ASSUME Inv
    PROVE  \/ \E s \in Sessions : \E span \in Frames[s] : ReadFrame(s, span)
           \/ MarkSession
           \/ FinishSession
           => /\ mem' \in [Sessions -> SessionState]
              /\ \A r \in Sessions : Len(mem'[r].buffer) < RecordsPerChunk
              /\ StoreInv'
<1> DEFINE Kept == /\ mem' \in [Sessions -> SessionState]
                   /\ \A r \in Sessions : Len(mem'[r].buffer) < RecordsPerChunk
                   /\ StoreInv'
<1>1. /\ TypeOK /\ StoreInv /\ session \in Sessions
      /\ \A s \in Sessions : Tidy(mem[s])
  BY DEF Inv, TypeOK, Tidy
\* Such a step, wherever it is taken.
<1>2. ASSUME todo = <<>>, Running, pc # "open", Running', pc' # "open", disk' = disk,
             NEW s \in Sessions, NEW step, StepOK(s, mem[s], step),
             mem' = [mem EXCEPT ![s] = step.mem], todo' = step.writes
      PROVE  Kept
  <2>1. Opened(s) /\ \A r \in Sessions : Opened(r)' => Opened(r)
    BY <1>2 DEF Opened
  <2>2. StoreInv'
    BY <1>1, <1>2, <2>1, StepKeepsStore
  <2>3. Tidy(step.mem)
    BY <1>2 DEF StepOK
  <2> QED
    BY <1>1, <1>2, <2>2, <2>3, StepKeepsMemory
<1>3. ASSUME NEW s \in Sessions, NEW span \in Frames[s], ReadFrame(s, span)
      PROVE  Kept
  <2>1. span \in Span \cup {NoSpan}
    BY <1>3, CaptureAssumption
  <2>2. StepOK(s, mem[s], AppendFrame(s, mem[s], span))
    BY <1>1, <2>1, AppendFrameOK
  <2>3. /\ todo = <<>> /\ pc = "read" /\ pc' = "top" /\ disk' = disk
        /\ mem' = [mem EXCEPT ![s] = AppendFrame(s, mem[s], span).mem]
        /\ todo' = AppendFrame(s, mem[s], span).writes
    BY <1>3 DEF ReadFrame, At
  <2>4. Running /\ Running' /\ pc # "open" /\ pc' # "open"
    BY <2>3 DEF Running
  <2> QED
    BY <1>2, <2>2, <2>3, <2>4
<1>4. ASSUME MarkSession
      PROVE  Kept
  <2>1. PICK k \in Sessions : k = session
    BY <1>1
  <2>2. StepOK(k, mem[k], MarkReconnect(k, mem[k]))
    BY <1>1, MarkReconnectOK
  <2>3. /\ todo = <<>> /\ pc = "mark" /\ pc' \in {"top", "mark"} /\ disk' = disk
        /\ mem' = [mem EXCEPT ![k] = MarkReconnect(k, mem[k]).mem]
        /\ todo' = MarkReconnect(k, mem[k]).writes
    BY <1>4, <2>1 DEF MarkSession, At
  <2>4. Running /\ Running' /\ pc # "open" /\ pc' # "open"
    BY <2>3 DEF Running
  <2> QED
    BY <1>2, <2>2, <2>3, <2>4
<1>5. ASSUME FinishSession
      PROVE  Kept
  <2>1. PICK k \in Sessions : k = session
    BY <1>1
  <2> DEFINE content == [frames |-> mem[k].frames, stop |-> reason]
             step == Step(CloseChunk(k, mem[k]).mem,
                          Append(CloseChunk(k, mem[k]).writes, ManifestWrite(k, content)))
  <2>2. content \in Manifest
    BY <1>1 DEF Manifest, TypeOK, SessionState
  <2>3. StepOK(k, mem[k], step)
    BY <1>1, <2>2, FinishOK
  <2>4. /\ todo = <<>> /\ pc = "finish" /\ pc' \in {"flush", "finish"} /\ disk' = disk
        /\ mem' = [mem EXCEPT ![k] = step.mem] /\ todo' = step.writes
    BY <1>5, <2>1 DEF FinishSession, At, Step
  <2>5. Running /\ Running' /\ pc # "open" /\ pc' # "open"
    BY <2>4 DEF Running
  <2> HIDE DEF step
  <2> QED
    BY <1>2, <2>3, <2>4, <2>5
<1> QED
  BY <1>3, <1>4, <1>5

\* The actions that change neither memory nor disk.
Quiet ==
    \/ RefuseSession \/ Connect \/ ConnectFails \/ LoopTop \/ ReadUnknown \/ ReadNothing
    \/ \E why \in {"venue_close", "read_error"} : Disconnect(why)
    \/ Backoff \/ Reconnect \/ ReconnectFails \/ Return
    \/ Interrupt \/ Elapse \/ Restart \/ UNCHANGED vars

LEMMA QuietSteps ==
    ASSUME Inv, Quiet
    PROVE  mem' = mem /\ StoreInv'
<1>1. TypeOK /\ StoreInv /\ (~Running => todo = <<>>)
  BY DEF Inv, StoreInv
<1>2. mem' = mem /\ disk' = disk /\ todo' = todo
  BY DEF Quiet, RefuseSession, Connect, ConnectFails, LoopTop, ReadUnknown, ReadNothing,
         Disconnect, Backoff, Reconnect, ReconnectFails, Return, Interrupt, Elapse, Restart,
         files, vars
<1>3. /\ ~Running' => todo = <<>>
      /\ \A r \in Sessions : Opened(r)' => Opened(r)
  <2>1. CASE \/ RefuseSession \/ Connect \/ ConnectFails \/ LoopTop \/ ReadUnknown \/ ReadNothing
             \/ \E why \in {"venue_close", "read_error"} : Disconnect(why)
             \/ Backoff \/ Reconnect \/ ReconnectFails \/ Return
    <3>1. todo = <<>>
      BY <2>1 DEF RefuseSession, Connect, ConnectFails, LoopTop, ReadUnknown, ReadNothing,
                  Disconnect, Backoff, Reconnect, ReconnectFails, Return, At
    <3>2. \/ pc = "open" /\ pc' = "dead"
          \/ pc # "open" /\ Running
      BY <2>1 DEF RefuseSession, Connect, ConnectFails, LoopTop, ReadUnknown, ReadNothing,
                  Disconnect, Backoff, Reconnect, ReconnectFails, Return, At, Running
    <3> QED
      BY <3>1, <3>2 DEF Opened, Running
  <2>2. CASE Interrupt \/ Elapse \/ UNCHANGED vars
    <3>1. pc' = pc /\ session' = session
      BY <2>2 DEF Interrupt, Elapse, vars
    <3> QED
      BY <1>1, <3>1 DEF Opened, Running
  <2>3. CASE Restart
    <3>1. pc' = "open" /\ session' = 1 /\ todo = <<>>
      BY <1>1, <2>3 DEF Restart
    <3>2. \A r \in Sessions : ~(r < 1)
      BY CaptureAssumption DEF Sessions
    <3> QED
      BY <3>1, <3>2 DEF Opened
  <2> QED
    BY <2>1, <2>2, <2>3 DEF Quiet
<1> QED
  BY <1>1, <1>2, <1>3, StoreUndisturbed

LEMMA StopForType ==
    ASSUME NEW why \in Stops, StopFor(why)
    PROVE  pc' \in Labels /\ session' \in Sessions /\ reason' \in Stops \cup {None}
<1>1. 1 \in Sessions
  BY CaptureAssumption DEF Sessions
<1> QED
  BY <1>1 DEF StopFor, Labels

\* The parts of TypeOK that are not about memory, action by action.
LEMMA NextScalars ==
    ASSUME TypeOK, [Next]_vars
    PROVE  Scalars'
<1>1. /\ Scalars /\ session \in 1..NumSessions
      /\ NumSessions \in Nat \ {0} /\ MaxReconnects \in Nat /\ MaxReads \in Nat
  BY CaptureAssumption DEF TypeOK, Scalars, Sessions
<1>2. 1 \in Sessions /\ (session # NumSessions => session + 1 \in Sessions)
  BY <1>1 DEF Sessions
<1>3. {"interrupted", "max_frames", "duration", "venue_close", "read_error",
       "reconnect_exhausted", "reconnect_failed"} = Stops
  BY DEF Stops
<1>4. CASE OpenSession \/ RefuseSession \/ Connect \/ ConnectFails
  BY <1>1, <1>2, <1>4 DEF OpenSession, RefuseSession, Connect, ConnectFails,
                          Scalars, Labels, environment
<1>5. CASE LoopTop
  <2>1. pc' \in Labels /\ session' \in Sessions /\ reason' \in Stops \cup {None}
    <3>1. CASE StopFor("interrupted") \/ StopFor("max_frames") \/ StopFor("duration")
      BY <1>3, <3>1, StopForType
    <3>2. CASE pc' = "read" /\ UNCHANGED <<reason, session>>
      BY <1>1, <3>2 DEF Labels, Scalars
    <3> QED
      BY <1>5, <3>1, <3>2 DEF LoopTop
  <2>2. UNCHANGED <<reconnects, unknown, reads, interrupted, elapsed, runs>>
    BY <1>5 DEF LoopTop, environment
  <2> QED
    BY <1>1, <2>1, <2>2 DEF Scalars
<1>6. CASE (\E s \in Sessions : \E span \in Frames[s] : ReadFrame(s, span)) \/ ReadUnknown
  <2>1. /\ pc' = "top" /\ session' = session /\ reason' = reason /\ reconnects' = reconnects
        /\ UNCHANGED <<interrupted, elapsed, runs>>
    BY <1>6 DEF ReadFrame, ReadUnknown, environment
  <2>2. reads < MaxReads /\ reads' = reads + 1 /\ unknown' \in {unknown, unknown + 1}
    BY <1>6 DEF ReadFrame, ReadUnknown
  <2>3. reads' \in 0..MaxReads /\ unknown' \in 0..reads'
    BY <1>1, <2>2 DEF Scalars
  <2> QED
    BY <1>1, <2>1, <2>3 DEF Scalars, Labels
<1>7. CASE ReadNothing \/ Reconnect \/ Return
  BY <1>1, <1>2, <1>7 DEF ReadNothing, Reconnect, Return, Scalars, Labels, environment
<1>8. CASE \E why \in {"venue_close", "read_error"} : Disconnect(why)
  <2>1. PICK why \in {"venue_close", "read_error"} : Disconnect(why)
    BY <1>8
  <2>2. why \in Stops /\ "reconnect_exhausted" \in Stops
    BY <1>3
  <2>3. UNCHANGED <<unknown, reads, interrupted, elapsed, runs>>
    BY <2>1 DEF Disconnect, environment
  <2>4. CASE reconnects >= MaxReconnects
    <3>1. /\ StopFor(IF MaxReconnects = 0 THEN why ELSE "reconnect_exhausted")
          /\ reconnects' = reconnects
      BY <2>1, <2>4 DEF Disconnect
    <3>2. pc' \in Labels /\ session' \in Sessions /\ reason' \in Stops \cup {None}
      BY <2>2, <3>1, StopForType
    <3> QED
      BY <1>1, <2>3, <3>1, <3>2 DEF Scalars
  <2>5. CASE ~(reconnects >= MaxReconnects)
    <3>1. /\ reconnects' = reconnects + 1 /\ reason' = why /\ pc' = "backoff"
          /\ session' = session
      BY <2>1, <2>5 DEF Disconnect
    <3>2. reconnects' \in 0..MaxReconnects
      BY <1>1, <2>5, <3>1 DEF Scalars
    <3> QED
      BY <1>1, <2>2, <2>3, <3>1, <3>2 DEF Scalars, Labels
  <2> QED
    BY <2>4, <2>5
<1>9. CASE Backoff \/ ReconnectFails
  <2>1. pc' \in Labels /\ session' \in Sessions /\ reason' \in Stops \cup {None}
    <3>1. CASE StopFor("interrupted") \/ StopFor("reconnect_failed")
      BY <1>3, <3>1, StopForType
    <3>2. CASE pc' = "reconnect" /\ UNCHANGED <<reason, session>>
      BY <1>1, <3>2 DEF Labels, Scalars
    <3> QED
      BY <1>9, <3>1, <3>2 DEF Backoff, ReconnectFails
  <2>2. UNCHANGED <<reconnects, unknown, reads, interrupted, elapsed, runs>>
    BY <1>9 DEF Backoff, ReconnectFails, environment
  <2> QED
    BY <1>1, <2>1, <2>2 DEF Scalars
<1>10. CASE MarkSession \/ FinishSession
  <2>1. pc' \in {"top", "flush", pc} /\ reason' \in {reason, None}
    BY <1>10 DEF MarkSession, FinishSession
  <2>2. session' = session \/ (session # NumSessions /\ session' = session + 1)
    BY <1>10 DEF MarkSession, FinishSession
  <2>3. UNCHANGED <<reconnects, unknown, reads, interrupted, elapsed, runs>>
    BY <1>10 DEF MarkSession, FinishSession, environment
  <2> QED
    BY <1>1, <1>2, <2>1, <2>2, <2>3 DEF Scalars, Labels
<1>11. CASE Write \/ TearWrite \/ Crash \/ UNCHANGED vars
  <2>1. /\ pc' \in {pc, "dead"}
        /\ UNCHANGED <<session, reason, reconnects, unknown, reads, interrupted, elapsed, runs>>
    BY <1>11 DEF Write, TearWrite, Crash, environment, vars
  <2> QED
    BY <1>1, <2>1 DEF Scalars, Labels
<1>12. CASE Interrupt \/ Elapse
  <2>1. UNCHANGED <<pc, session, reason, reconnects, unknown, reads, runs>>
    BY <1>12 DEF Interrupt, Elapse
  <2>2. interrupted' \in BOOLEAN /\ elapsed' \in BOOLEAN
    <3>1. CASE Interrupt
      BY <1>1, <3>1 DEF Interrupt, Scalars
    <3>2. CASE Elapse
      BY <1>1, <3>2 DEF Elapse, Scalars
    <3> QED
      BY <1>12, <3>1, <3>2
  <2>3. /\ pc' \in Labels /\ session' \in Sessions /\ reason' \in Stops \cup {None}
        /\ reconnects' \in 0..MaxReconnects /\ reads' \in 0..MaxReads
        /\ unknown' \in 0..reads' /\ runs' \in Nat
    BY <1>1, <2>1 DEF Scalars
  <2> QED
    BY <2>2, <2>3 DEF Scalars
<1>13. CASE Restart
  <2>1. /\ pc' = "open" /\ session' = 1 /\ reason' = None /\ reconnects' = 0
        /\ reads' = 0 /\ unknown' = 0 /\ runs' = runs + 1
    BY <1>13 DEF Restart
  <2>2. interrupted' \in BOOLEAN /\ elapsed' \in BOOLEAN
    BY <1>13 DEF Restart
  <2>3. /\ pc' \in Labels /\ session' \in Sessions /\ reason' \in Stops \cup {None}
        /\ reconnects' \in 0..MaxReconnects /\ reads' \in 0..MaxReads
        /\ unknown' \in 0..reads' /\ runs' \in Nat
    BY <1>1, <1>2, <2>1 DEF Scalars, Labels
  <2> QED
    BY <2>2, <2>3 DEF Scalars
<1> QED
  BY <1>4, <1>5, <1>6, <1>7, <1>8, <1>9, <1>10, <1>11, <1>12, <1>13 DEF Next, Process, Dial

LEMMA NextInv == Inv /\ [Next]_vars => Inv'
<1> SUFFICES ASSUME Inv, [Next]_vars PROVE Inv'
  OBVIOUS
<1>1. TypeOK /\ StoreInv
  BY DEF Inv
<1>2. Scalars'
  BY <1>1, NextScalars
<1>3. CASE OpenSession
  BY <1>2, <1>3, OpenSessionInv, TypeParts DEF Inv, TypeOK, Scalars
<1>4. CASE \/ \E s \in Sessions : \E span \in Frames[s] : ReadFrame(s, span)
           \/ MarkSession
           \/ FinishSession
  BY <1>2, <1>4, SessionSteps DEF Inv, TypeOK, Scalars
<1>5. CASE Quiet
  BY <1>1, <1>2, <1>5, QuietSteps DEF Inv, TypeOK, Scalars
<1>6. CASE Write \/ TearWrite \/ Crash
  <2>1. StoreInv'
    BY <1>1, <1>6, WriteKeepsStore, TearKeepsStore, CrashKeepsStore
  <2>2. mem' = mem
    BY <1>6 DEF Write, TearWrite, Crash
  <2> QED
    BY <1>1, <1>2, <2>1, <2>2 DEF Inv, TypeOK, Scalars
<1> QED
  BY <1>3, <1>4, <1>5, <1>6 DEF Next, Process, Dial, Quiet

LEMMA Invariance == Spec => []Inv
BY InitInv, NextInv, PTL DEF Spec

\* In every reachable state the capture's variables have their types and no open
\* chunk is full, for any number of sessions, limits and frames.
THEOREM TypeCorrect == Spec => []TypeOK
<1>1. Inv => TypeOK
  BY DEF Inv
<1> QED
  BY <1>1, Invariance, PTL

\* However the process died, and however often it was started again: an index.json
\* that can be read lists chunk files that are on disk, whole, and are the first
\* ones the session recorded.
THEOREM IndexIsHonest == Spec => []IndexDescribesDisk
<1>1. Inv => IndexDescribesDisk
  BY DEF Inv, StoreInv, FilesInv, IndexDescribesDisk, OnDisk
<1> QED
  BY <1>1, Invariance, PTL

\* Only a write, whole or cut short, changes the disk.
LEMMA DiskChanges ==
    ASSUME [Next]_vars, disk' # disk
    PROVE  Write \/ TearWrite
BY DEF Next, Process, Dial, OpenSession, RefuseSession, Connect, ConnectFails, LoopTop, ReadFrame,
       ReadUnknown, ReadNothing, Disconnect, Backoff, Reconnect, MarkSession, ReconnectFails,
       FinishSession, Return, Crash, Interrupt, Elapse, Restart, files, vars

LEMMA ChunksStay ==
    ASSUME Inv, [Next]_vars
    PROVE  \A s \in Sessions : \A n \in DOMAIN disk[s].chunks :
               n \in DOMAIN disk'[s].chunks /\ disk'[s].chunks[n] = disk[s].chunks[n]
<1>1. CASE disk' = disk
  BY <1>1
<1>2. CASE Write
  BY <1>2, WrittenFiles DEF Write, Inv
<1>3. CASE TearWrite
  BY <1>3, WrittenFiles DEF TearWrite, Inv
<1> QED
  BY <1>1, <1>2, <1>3, DiskChanges

\* No step of any run writes a chunk file that exists, torn ones included.
THEOREM ChunkFilesAreFinal == Spec => ChunksAreFinal
<1>1. Inv /\ [Next]_vars =>
          [\A s \in Sessions : \A n \in DOMAIN disk[s].chunks :
              n \in DOMAIN disk'[s].chunks /\ disk'[s].chunks[n] = disk[s].chunks[n]]_disk
  BY ChunksStay
<1> QED
  BY <1>1, Invariance, PTL DEF Spec, ChunksAreFinal

-----------------------------------------------------------------------------
(* What a session's records say of the stream it received.                 *)

LEMMA LogType ==
    ASSUME NEW m \in SessionState
    PROVE  Log(m) \in Seq(Record)
<1>1. m.closed \in Seq(Seq(Record)) /\ m.buffer \in Seq(Record)
  BY DEF SessionState, Chunk
<1>2. FlattenSeq(m.closed) \in Seq(Record)
  BY <1>1, FlattenType
<1> QED
  BY <1>1, <1>2 DEF Log

\* Closing a chunk moves records from memory to disk and changes none.
LEMMA CloseChunkLog ==
    ASSUME NEW s \in Sessions, NEW m \in SessionState
    PROVE  LET n == CloseChunk(s, m).mem
           IN  /\ Log(n) = Log(m) /\ n.buffer = <<>> /\ n \in SessionState
               /\ n.seq = m.seq /\ n.frames = m.frames /\ n.gaps = m.gaps
               /\ n.connection_gaps = m.connection_gaps /\ n.previous_last = m.previous_last
<1>1. m.closed \in Seq(Seq(Record)) /\ m.buffer \in Seq(Record)
  BY DEF SessionState, Chunk
<1>2. CASE m.buffer = <<>>
  BY <1>2 DEF CloseChunk, Step
<1>3. CASE m.buffer # <<>>
  <2> DEFINE closed == Append(m.closed, m.buffer)
             empty == <<>>
             next == [m EXCEPT !.closed = closed, !.buffer = empty]
  <2>1. CloseChunk(s, m).mem = next
    BY <1>3 DEF CloseChunk, Step
  <2>2. FlattenSeq(closed) = FlattenSeq(m.closed) \o m.buffer
    BY <1>1, FlattenAppend
  <2>3. FlattenSeq(m.closed) \in Seq(Record)
    BY <1>1, FlattenType
  <2>4. FlattenSeq(closed) \o empty = FlattenSeq(m.closed) \o m.buffer
    BY <1>1, <2>2, <2>3
  <2>5. closed \in Seq(Chunk) /\ empty \in Chunk
    BY DEF SessionState, Chunk
  <2> HIDE DEF closed, empty
  <2>6. next.closed = closed /\ next.buffer = empty /\ next \in SessionState
    <3>1. next \in SessionState
      BY <2>5, WithClosed
    <3>2. next.closed = closed
      BY DEF SessionState
    <3>3. next.buffer = empty
      BY DEF SessionState
    <3> QED
      BY <3>1, <3>2, <3>3
  <2>7. /\ next.seq = m.seq /\ next.frames = m.frames /\ next.gaps = m.gaps
        /\ next.connection_gaps = m.connection_gaps /\ next.previous_last = m.previous_last
    BY DEF SessionState
  <2> HIDE DEF next
  <2>8. Log(next) = Log(m)
    BY <2>4, <2>6 DEF Log
  <2> QED
    BY <2>1, <2>6, <2>7, <2>8 DEF empty
<1> QED
  BY <1>2, <1>3

LEMMA AppendRecordLog ==
    ASSUME NEW s \in Sessions, NEW m \in SessionState, NEW record \in Record
    PROVE  LET n == AppendRecord(s, m, record).mem
           IN  /\ Log(n) = Append(Log(m), record) /\ n \in SessionState
               /\ n.seq = m.seq + 1 /\ n.frames = m.frames /\ n.gaps = m.gaps
               /\ n.connection_gaps = m.connection_gaps /\ n.previous_last = m.previous_last
<1> DEFINE longer == Append(m.buffer, record)
           added == [m EXCEPT !.buffer = longer, !.seq = @ + 1]
<1>1. /\ m.closed \in Seq(Seq(Record)) /\ m.buffer \in Seq(Record)
      /\ longer \in Chunk /\ longer \in Seq(Record)
  BY DEF SessionState, Chunk
<1>2. FlattenSeq(m.closed) \in Seq(Record)
  BY <1>1, FlattenType
<1>3. FlattenSeq(m.closed) \o longer = Append(FlattenSeq(m.closed) \o m.buffer, record)
  <2> DEFINE flat == FlattenSeq(m.closed)
             buffer == m.buffer
  <2>1. flat \in Seq(Record) /\ buffer \in Seq(Record)
    BY <1>1, <1>2
  <2> HIDE DEF flat, buffer
  <2>2. flat \o Append(buffer, record) = Append(flat \o buffer, record)
    BY <2>1, ConcatAppend
  <2> QED
    BY <2>2 DEF flat, buffer
<1>4. AppendRecord(s, m, record) =
        IF Len(added.buffer) >= RecordsPerChunk THEN CloseChunk(s, added) ELSE Step(added, <<>>)
  BY DEF AppendRecord
<1> HIDE DEF longer
<1>5. added \in SessionState /\ added.closed = m.closed /\ added.buffer = longer
  <2>1. added \in SessionState /\ added.closed = m.closed
    BY <1>1, WithRecord
  <2>2. added.buffer = longer
    BY DEF SessionState
  <2> QED
    BY <2>1, <2>2
<1>6. /\ added.seq = m.seq + 1 /\ added.frames = m.frames /\ added.gaps = m.gaps
      /\ added.connection_gaps = m.connection_gaps /\ added.previous_last = m.previous_last
  BY DEF SessionState
<1> HIDE DEF added
<1>7. Log(added) = Append(Log(m), record)
  BY <1>3, <1>5 DEF Log
<1>8. CASE Len(added.buffer) >= RecordsPerChunk
  BY <1>4, <1>5, <1>6, <1>7, <1>8, CloseChunkLog
<1>9. CASE ~(Len(added.buffer) >= RecordsPerChunk)
  BY <1>4, <1>5, <1>6, <1>7, <1>9 DEF Step
<1> QED
  BY <1>8, <1>9

\* The positions of one kind of record in a log, and of the frames in a stream.
Of(log, kind) == {i \in DOMAIN log : log[i].kind = kind}
Arrived(stream) == {i \in DOMAIN stream : stream[i] # Cut}

\* A set of positions that gets the next position has one more.
LEMMA NextPosition ==
    ASSUME NEW n \in Nat, NEW S \in SUBSET (1..n)
    PROVE  /\ Cardinality(S) \in Nat
           /\ Cardinality(S \cup {n + 1}) = Cardinality(S) + 1
<1>1. IsFiniteSet(1..n)
  BY FS_Interval
<1>2. IsFiniteSet(S)
  BY <1>1, FS_Subset
<1>3. n + 1 \notin S
  OBVIOUS
<1> QED
  BY <1>2, <1>3, FS_CardinalityType, FS_AddElement

LEMMA CountAppend ==
    ASSUME NEW log \in Seq(Record), NEW record \in Record, NEW kind
    PROVE  /\ Cardinality(Of(log, kind)) \in Nat
           /\ Cardinality(Of(Append(log, record), kind))
                  = Cardinality(Of(log, kind)) + (IF record.kind = kind THEN 1 ELSE 0)
<1> DEFINE n == Len(log)
           S == Of(log, kind)
<1>1. /\ n \in Nat /\ DOMAIN log = 1..n /\ DOMAIN Append(log, record) = 1..n + 1
      /\ \A i \in 1..n : Append(log, record)[i] = log[i]
      /\ Append(log, record)[n + 1] = record
  OBVIOUS
<1>2. S \in SUBSET (1..n)
  BY <1>1 DEF Of
<1>3. Of(Append(log, record), kind) = IF record.kind = kind THEN S \cup {n + 1} ELSE S
  BY <1>1 DEF Of
<1> HIDE DEF n, S
<1>4. Cardinality(S) \in Nat /\ Cardinality(S \cup {n + 1}) = Cardinality(S) + 1
  BY <1>1, <1>2, NextPosition
<1> QED
  BY <1>3, <1>4 DEF S

LEMMA SummaryAppend ==
    ASSUME NEW log \in Seq(Record), NEW record \in Record
    PROVE  Summary(Append(log, record)) = Append(Summary(log), Entry(record.kind, record.span))
<1> DEFINE n == Len(log)
           more == Append(log, record)
           E == [kind : {"frame", "update_id_gap", "connection_gap"}, span : Span \cup {NoSpan}]
           e == Entry(record.kind, record.span)
<1>1. /\ n \in Nat /\ DOMAIN log = 1..n /\ DOMAIN more = 1..n + 1 /\ more \in Seq(Record)
      /\ \A i \in 1..n : more[i] = log[i]
      /\ more[n + 1] = record
  OBVIOUS
<1>2. \A r \in Record : Entry(r.kind, r.span) \in E
  BY DEF Entry, Record
<1>3. \A i \in 1..n : log[i] \in Record
  BY <1>1
<1> HIDE DEF more, E, n
<1>4. Summary(log) \in Seq(E) /\ Len(Summary(log)) = n
      /\ \A i \in 1..n : Summary(log)[i] = Entry(log[i].kind, log[i].span)
  <2>1. Summary(log) = [i \in 1..n |-> Entry(log[i].kind, log[i].span)]
    BY <1>1 DEF Summary
  <2>2. \A i \in 1..n : Entry(log[i].kind, log[i].span) \in E
    BY <1>2, <1>3
  <2> QED
    BY <1>1, <2>1, <2>2
<1>5. Summary(more) \in Seq(E) /\ Len(Summary(more)) = n + 1
      /\ \A i \in 1..n + 1 : Summary(more)[i] = Entry(more[i].kind, more[i].span)
  <2>1. Summary(more) = [i \in 1..n + 1 |-> Entry(more[i].kind, more[i].span)]
    BY <1>1 DEF Summary
  <2>2. \A i \in 1..n + 1 : Entry(more[i].kind, more[i].span) \in E
    BY <1>1, <1>2
  <2> QED
    BY <1>1, <2>1, <2>2
<1> DEFINE right == Append(Summary(log), e)
<1>6. e \in E
  BY <1>2
<1> HIDE DEF e
<1>7. /\ right \in Seq(E) /\ Len(right) = n + 1
      /\ \A i \in 1..n : right[i] = Summary(log)[i]
      /\ right[n + 1] = e
  BY <1>1, <1>4, <1>6
<1> HIDE DEF right
<1>8. \A i \in 1..n + 1 : Summary(more)[i] = right[i]
  <2>1. \A i \in 1..n + 1 : i \in 1..n \/ i = n + 1
    BY <1>1
  <2> QED
    BY <1>1, <1>4, <1>5, <1>7, <2>1 DEF e
<1>9. Summary(more) = right
  BY <1>5, <1>7, <1>8, SameElements
<1> QED
  BY <1>9 DEF more, right, e

-----------------------------------------------------------------------------
(* The stream.                                                             *)

StreamItems == Span \cup {NoSpan, Cut}
Entries == [kind : {"frame", "update_id_gap", "connection_gap"}, span : Span \cup {NoSpan}]

\* What the log says of what came at i depends on nothing that comes later.
LEMMA SaysPast ==
    ASSUME NEW stream \in Seq(StreamItems), NEW x \in StreamItems, NEW i \in 1..Len(stream)
    PROVE  Says(Append(stream, x), i) = Says(stream, i)
<1> DEFINE more == Append(stream, x)
<1>1. Len(stream) \in Nat /\ \A k \in 1..Len(stream) : more[k] = stream[k]
  OBVIOUS
<1> HIDE DEF more
<1>2. ASSUME NEW j \in 1..i - 1
      PROVE  IsBaseline(more, j, i) <=> IsBaseline(stream, j, i)
  <2>1. \A k \in j + 1..i - 1 : k \in 1..Len(stream)
    BY <1>1
  <2>2. j \in 1..Len(stream) /\ i \in 1..Len(stream)
    BY <1>1
  <2> QED
    BY <1>1, <2>1, <2>2 DEF IsBaseline
<1>3. \A j \in 1..i - 1 : more[j] = stream[j]
  BY <1>1
<1>4. ShowsGap(more, i) <=> ShowsGap(stream, i)
  BY <1>1, <1>2, <1>3 DEF ShowsGap
<1> QED
  BY <1>1, <1>4 DEF Says, more

LEMMA SaysType ==
    ASSUME NEW stream \in Seq(StreamItems), NEW i \in 1..Len(stream)
    PROVE  Says(stream, i) \in Seq(Entries)
<1>1. stream[i] \in StreamItems
  OBVIOUS
<1>2. /\ Entry("connection_gap", NoSpan) \in Entries /\ Entry("update_id_gap", NoSpan) \in Entries
      /\ stream[i] # Cut => Entry("frame", stream[i]) \in Entries
  BY <1>1 DEF Entry, Entries, StreamItems
<1> QED
  BY <1>2 DEF Says

\* The annotated stream grows at its end.
LEMMA AnnotatedAppend ==
    ASSUME NEW stream \in Seq(StreamItems), NEW x \in StreamItems
    PROVE  /\ Annotated(stream) \in Seq(Entries)
           /\ Annotated(Append(stream, x))
                  = Annotated(stream) \o Says(Append(stream, x), Len(stream) + 1)
<1> DEFINE more == Append(stream, x)
           n == Len(stream)
           said == [i \in 1..n |-> Says(stream, i)]
           saidMore == [i \in 1..n + 1 |-> Says(more, i)]
           last == Says(more, n + 1)
<1>1. /\ n \in Nat /\ more \in Seq(StreamItems) /\ Len(more) = n + 1
      /\ DOMAIN stream = 1..n /\ DOMAIN more = 1..n + 1
  OBVIOUS
<1>2. \A i \in 1..n : Says(more, i) = Says(stream, i)
  BY SaysPast
<1> HIDE DEF more
<1>3. Annotated(stream) = FlattenSeq(said) /\ Annotated(more) = FlattenSeq(saidMore)
  BY <1>1 DEF Annotated
<1>4. \A i \in 1..n : Says(stream, i) \in Seq(Entries)
  BY SaysType
<1>5. \A i \in 1..n + 1 : Says(more, i) \in Seq(Entries)
  BY <1>1, SaysType
<1>6. said \in Seq(Seq(Entries)) /\ Len(said) = n
      /\ \A i \in 1..n : said[i] = Says(stream, i)
  BY <1>1, <1>4
<1>7. saidMore \in Seq(Seq(Entries)) /\ Len(saidMore) = n + 1
      /\ \A i \in 1..n + 1 : saidMore[i] = Says(more, i)
  BY <1>1, <1>5
<1>8. last \in Seq(Entries)
  BY <1>1, <1>5
<1> HIDE DEF said, saidMore, last, n
<1> DEFINE right == Append(said, last)
<1>9. /\ right \in Seq(Seq(Entries)) /\ Len(right) = n + 1
      /\ \A i \in 1..n : right[i] = said[i]
      /\ right[n + 1] = last
  BY <1>1, <1>6, <1>8
<1> HIDE DEF right
<1>10. \A i \in 1..n + 1 : saidMore[i] = right[i]
  <2>1. \A i \in 1..n + 1 : i \in 1..n \/ i = n + 1
    BY <1>1
  <2> QED
    BY <1>1, <1>2, <1>6, <1>7, <1>9, <2>1 DEF last
<1>11. saidMore = right
  BY <1>7, <1>9, <1>10, SameElements
<1>12. FlattenSeq(right) = FlattenSeq(said) \o last
  BY <1>6, <1>8, FlattenAppend DEF right
<1>13. FlattenSeq(said) \in Seq(Entries)
  BY <1>6, FlattenType
<1> QED
  BY <1>3, <1>11, <1>12, <1>13 DEF more, last, n

\* The frame that is the baseline of what comes next on this connection, and a
\* tracker that holds it.
Latest(stream, j) ==
    /\ stream[j] \notin {NoSpan, Cut}
    /\ \A k \in j + 1..Len(stream) : stream[k] = NoSpan

Tracks(m, stream) ==
    /\ m.previous_last = None => \A j \in DOMAIN stream : ~Latest(stream, j)
    /\ m.previous_last # None =>
           \E j \in DOMAIN stream : Latest(stream, j) /\ stream[j].last = m.previous_last

\* The recorder sees a gap exactly where the stream shows one.
LEMMA GapIsShown ==
    ASSUME NEW stream \in Seq(StreamItems), NEW span \in Span \cup {NoSpan},
           NEW m \in SessionState, Tracks(m, stream)
    PROVE  ShowsGap(Append(stream, span), Len(stream) + 1) <=> SequenceGap(m, span)
<1> DEFINE more == Append(stream, span)
           n == Len(stream)
<1>1. /\ n \in Nat /\ DOMAIN stream = 1..n
      /\ \A i \in 1..n : more[i] = stream[i]
      /\ more[n + 1] = span
  OBVIOUS
<1> HIDE DEF more, n
<1>2. n = Len(stream)
  BY DEF n
<1>3. Cut \notin Span /\ NoSpan \notin Span /\ Cut # NoSpan
  BY CaptureAssumption
<1>4. ASSUME NEW j \in 1..n
      PROVE  IsBaseline(more, j, n + 1) <=> span # NoSpan /\ Latest(stream, j)
  <2>1. span # Cut /\ (n + 1) - 1 = n
    BY <1>1, <1>3
  <2>2. \A k \in j + 1..n : more[k] = stream[k]
    BY <1>1
  <2> QED
    BY <1>1, <1>2, <2>1, <2>2 DEF IsBaseline, Latest
<1>5. ShowsGap(more, n + 1) <=>
          \E j \in 1..n : /\ span # NoSpan /\ Latest(stream, j)
                          /\ stream[j].last < MaxId /\ span.first # stream[j].last + 1
  <2>1. (n + 1) - 1 = n
    BY <1>1
  <2> QED
    BY <1>1, <1>4, <2>1 DEF ShowsGap
<1>6. CASE m.previous_last = None
  <2>1. \A j \in 1..n : ~Latest(stream, j)
    BY <1>1, <1>6 DEF Tracks
  <2> QED
    BY <1>5, <1>6, <2>1 DEF SequenceGap, more, n
<1>7. CASE m.previous_last # None
  <2>1. PICK j \in 1..n : Latest(stream, j) /\ stream[j].last = m.previous_last
    BY <1>1, <1>7 DEF Tracks
  <2>2. ASSUME NEW k \in 1..n, Latest(stream, k)
        PROVE  k = j
    <3>1. CASE k < j
      <4>1. j \in k + 1..n
        BY <1>1, <3>1
      <4> QED
        BY <1>2, <2>1, <2>2, <4>1 DEF Latest
    <3>2. CASE k > j
      <4>1. k \in j + 1..n
        BY <1>1, <3>2
      <4> QED
        BY <1>2, <2>1, <2>2, <4>1 DEF Latest
    <3> QED
      BY <1>1, <3>1, <3>2
  <2>3. ShowsGap(more, n + 1) <=>
            span # NoSpan /\ m.previous_last < MaxId /\ span.first # m.previous_last + 1
    BY <1>5, <2>1, <2>2
  <2> QED
    BY <1>7, <2>3 DEF SequenceGap, more, n
<1> QED
  BY <1>6, <1>7

\* The tracker after a frame, and after a reconnect.
LEMMA TracksNext ==
    ASSUME NEW stream \in Seq(StreamItems), NEW x \in StreamItems,
           NEW m, NEW n, Tracks(m, stream),
           x = NoSpan => n.previous_last = m.previous_last,
           x = Cut => n.previous_last = None,
           x \in Span => n.previous_last = x.last
    PROVE  Tracks(n, Append(stream, x))
<1> DEFINE more == Append(stream, x)
           l == Len(stream)
<1>1. /\ l \in Nat /\ DOMAIN stream = 1..l /\ DOMAIN more = 1..l + 1 /\ Len(more) = l + 1
      /\ \A i \in 1..l : more[i] = stream[i]
      /\ more[l + 1] = x
  OBVIOUS
<1> HIDE DEF more
<1>3. Cut \notin Span /\ NoSpan \notin Span /\ Cut # NoSpan /\ x \in Span \cup {NoSpan, Cut}
  BY CaptureAssumption DEF StreamItems
<1>4. \A j \in 1..l : Latest(more, j) <=> x = NoSpan /\ Latest(stream, j)
  <2> SUFFICES ASSUME NEW j \in 1..l
      PROVE  Latest(more, j) <=> x = NoSpan /\ Latest(stream, j)
    OBVIOUS
  <2>1. (\A k \in j + 1..l + 1 : more[k] = NoSpan)
            <=> x = NoSpan /\ \A k \in j + 1..l : stream[k] = NoSpan
    <3>1. l + 1 \in j + 1..l + 1
      BY <1>1
    <3>2. \A k \in j + 1..l + 1 : k = l + 1 \/ k \in j + 1..l
      BY <1>1
    <3>3. \A k \in j + 1..l : k \in j + 1..l + 1 /\ k \in 1..l
      BY <1>1
    <3> QED
      BY <1>1, <3>1, <3>2, <3>3
  <2> QED
    BY <1>1, <2>1 DEF Latest
<1>5. Latest(more, l + 1) <=> x \in Span
  <2>1. \A k \in (l + 1) + 1..l + 1 : FALSE
    BY <1>1
  <2> QED
    BY <1>1, <1>3, <2>1 DEF Latest
<1>6. CASE x = NoSpan
  <2>1. n.previous_last = m.previous_last /\ ~Latest(more, l + 1)
    BY <1>3, <1>5, <1>6
  <2>2. CASE m.previous_last = None
    <3>1. \A j \in 1..l : ~Latest(more, j)
      BY <1>1, <1>4, <2>2 DEF Tracks
    <3>2. \A j \in 1..l + 1 : j \in 1..l \/ j = l + 1
      BY <1>1
    <3> QED
      BY <1>1, <2>1, <2>2, <3>1, <3>2 DEF Tracks, more
  <2>3. CASE m.previous_last # None
    <3>1. PICK j \in 1..l : Latest(stream, j) /\ stream[j].last = m.previous_last
      BY <1>1, <2>3 DEF Tracks
    <3>2. Latest(more, j) /\ more[j].last = n.previous_last /\ j \in DOMAIN more
      BY <1>1, <1>4, <1>6, <2>1, <3>1
    <3> QED
      BY <2>1, <2>3, <3>2 DEF Tracks, more
  <2> QED
    BY <2>2, <2>3
<1>7. CASE x = Cut
  <2>1. n.previous_last = None
    BY <1>7
  <2>2. \A j \in 1..l + 1 : j \in 1..l \/ j = l + 1
    BY <1>1
  <2>3. \A j \in 1..l + 1 : ~Latest(more, j)
    BY <1>3, <1>4, <1>5, <1>7, <2>2
  <2> QED
    BY <1>1, <2>1, <2>3 DEF Tracks, more
<1>8. CASE x \in Span
  <2>1. n.previous_last = x.last /\ x.last # None
    <3>1. x.last \in Nat
      BY <1>8, CaptureAssumption DEF Span, Ids
    <3> QED
      BY <1>8, <3>1, CaptureAssumption
  <2>2. Latest(more, l + 1) /\ more[l + 1].last = n.previous_last /\ l + 1 \in DOMAIN more
    BY <1>1, <1>5, <1>8, <2>1
  <2> QED
    BY <2>1, <2>2 DEF Tracks, more
<1> QED
  BY <1>3, <1>6, <1>7, <1>8

-----------------------------------------------------------------------------
\* A session's records, counters and baseline are those of the stream it received.
Positioned(log) == \A i \in DOMAIN log : log[i].seq = i - 1

Tells(m, stream) ==
    /\ Summary(Log(m)) = Annotated(stream)
    /\ m.seq = Len(Log(m)) /\ Positioned(Log(m))
    /\ m.frames = Cardinality(Of(Log(m), "frame"))
    /\ m.gaps = Cardinality(Of(Log(m), "update_id_gap"))
    /\ m.connection_gaps = Cardinality(Of(Log(m), "connection_gap"))
    /\ m.frames = Cardinality(Arrived(stream))
    /\ Tracks(m, stream)

LEMMA PositionedAppend ==
    ASSUME NEW log \in Seq(Record), NEW record \in Record,
           Positioned(log), record.seq = Len(log)
    PROVE  Positioned(Append(log, record)) /\ Len(Append(log, record)) = Len(log) + 1
<1>1. /\ Len(log) \in Nat /\ DOMAIN log = 1..Len(log)
      /\ DOMAIN Append(log, record) = 1..Len(log) + 1
      /\ \A i \in 1..Len(log) : Append(log, record)[i] = log[i]
      /\ Append(log, record)[Len(log) + 1] = record
      /\ \A i \in 1..Len(log) + 1 : i \in 1..Len(log) \/ i = Len(log) + 1
  OBVIOUS
<1>2. (Len(log) + 1) - 1 = Len(log)
  BY <1>1
<1> QED
  BY <1>1, <1>2 DEF Positioned

LEMMA ArrivedAppend ==
    ASSUME NEW stream \in Seq(StreamItems), NEW x \in StreamItems
    PROVE  /\ Cardinality(Arrived(stream)) \in Nat
           /\ Cardinality(Arrived(Append(stream, x)))
                  = Cardinality(Arrived(stream)) + (IF x = Cut THEN 0 ELSE 1)
<1> DEFINE n == Len(stream)
           S == Arrived(stream)
<1>1. /\ n \in Nat /\ DOMAIN stream = 1..n /\ DOMAIN Append(stream, x) = 1..n + 1
      /\ \A i \in 1..n : Append(stream, x)[i] = stream[i]
      /\ Append(stream, x)[n + 1] = x
  OBVIOUS
<1>2. S \in SUBSET (1..n)
  BY <1>1 DEF Arrived
<1>3. Arrived(Append(stream, x)) = IF x = Cut THEN S ELSE S \cup {n + 1}
  BY <1>1 DEF Arrived
<1> HIDE DEF n, S
<1>4. Cardinality(S) \in Nat /\ Cardinality(S \cup {n + 1}) = Cardinality(S) + 1
  BY <1>1, <1>2, NextPosition
<1> QED
  BY <1>3, <1>4 DEF S

LEMMA TrackedLog ==
    ASSUME NEW m \in SessionState, NEW span \in Span \cup {NoSpan}
    PROVE  LET n == Tracked(m, span)
           IN  /\ Log(n) = Log(m) /\ n \in SessionState
               /\ n.seq = m.seq /\ n.frames = m.frames
               /\ n.gaps = m.gaps + (IF SequenceGap(m, span) THEN 1 ELSE 0)
               /\ n.connection_gaps = m.connection_gaps
               /\ n.previous_last = IF span = NoSpan THEN m.previous_last ELSE span.last
<1>1. CASE span = NoSpan
  <2>1. Tracked(m, span) = m /\ ~SequenceGap(m, span) /\ m.gaps \in Nat
    BY <1>1 DEF Tracked, SequenceGap, SessionState
  <2> QED
    BY <1>1, <2>1
<1>2. CASE span # NoSpan
  <2> DEFINE last == span.last
             g == IF SequenceGap(m, span) THEN m.gaps + 1 ELSE m.gaps
             next == [m EXCEPT !.checked = @ + 1, !.previous_last = last, !.gaps = g]
  <2>1. last \in Ids
    BY <1>2 DEF Span
  <2>2. g \in Nat /\ g = m.gaps + (IF SequenceGap(m, span) THEN 1 ELSE 0)
    BY DEF SessionState
  <2>3. Tracked(m, span) = next
    BY <1>2 DEF Tracked
  <2> HIDE DEF g, last
  <2>4. next \in SessionState /\ next.closed = m.closed /\ next.buffer = m.buffer
    <3>1. g \in Nat
      BY <2>2
    <3> QED
      BY <2>1, <3>1, WithSpan
  <2>5. next.seq = m.seq /\ next.frames = m.frames /\ next.connection_gaps = m.connection_gaps
    BY DEF SessionState
  <2>6. next.gaps = g
    BY DEF SessionState
  <2>7. next.previous_last = last
    BY DEF SessionState
  <2> HIDE DEF next
  <2> QED
    BY <1>2, <2>2, <2>3, <2>4, <2>5, <2>6, <2>7 DEF Log, last
<1> QED
  BY <1>1, <1>2

\* The records that append_frame adds, and what it counts.
LEMMA AppendFrameLog ==
    ASSUME NEW s \in Sessions, NEW m \in SessionState, NEW span \in Span \cup {NoSpan}
    PROVE  LET n == AppendFrame(s, m, span).mem
           IN  /\ n \in SessionState
               /\ SequenceGap(m, span) =>
                      /\ Log(n) = Append(Append(Log(m), GapRecord(m.seq, "update_id_gap")),
                                         FrameRecord(m.seq + 1, span))
                      /\ n.seq = m.seq + 2 /\ n.gaps = m.gaps + 1
               /\ ~SequenceGap(m, span) =>
                      /\ Log(n) = Append(Log(m), FrameRecord(m.seq, span))
                      /\ n.seq = m.seq + 1 /\ n.gaps = m.gaps
               /\ n.frames = m.frames + 1 /\ n.connection_gaps = m.connection_gaps
               /\ n.previous_last = IF span = NoSpan THEN m.previous_last ELSE span.last
<1> DEFINE tracked == Tracked(m, span)
           marked == IF SequenceGap(m, span)
                     THEN AppendGap(s, Tracked(m, span), "update_id_gap")
                     ELSE Step(Tracked(m, span), <<>>)
           between == [marked.mem EXCEPT !.frames = @ + 1]
           record == FrameRecord(marked.mem.seq, span)
           added == AppendRecord(s, between, record)
<1>1. /\ tracked \in SessionState /\ Log(tracked) = Log(m)
      /\ tracked.seq = m.seq /\ tracked.frames = m.frames
      /\ tracked.gaps = m.gaps + (IF SequenceGap(m, span) THEN 1 ELSE 0)
      /\ tracked.connection_gaps = m.connection_gaps
      /\ tracked.previous_last = IF span = NoSpan THEN m.previous_last ELSE span.last
  BY TrackedLog
<1>2. AppendFrame(s, m, span).mem = added.mem
  BY DEF AppendFrame, Step
<1>3. m.seq \in Nat /\ m.frames \in Nat /\ m.gaps \in Nat
  BY DEF SessionState
<1>4. SequenceGap(m, span) => marked = AppendGap(s, tracked, "update_id_gap")
  OBVIOUS
<1>5. ~SequenceGap(m, span) => marked.mem = tracked
  BY DEF Step
<1> HIDE DEF tracked, marked
<1>6. GapRecord(m.seq, "update_id_gap") \in Record
  BY <1>3 DEF GapRecord, Record
<1>7. /\ marked.mem \in SessionState
      /\ SequenceGap(m, span) =>
             /\ Log(marked.mem) = Append(Log(m), GapRecord(m.seq, "update_id_gap"))
             /\ marked.mem.seq = m.seq + 1
      /\ ~SequenceGap(m, span) => Log(marked.mem) = Log(m) /\ marked.mem.seq = m.seq
      /\ marked.mem.frames = m.frames /\ marked.mem.gaps = tracked.gaps
      /\ marked.mem.connection_gaps = m.connection_gaps
      /\ marked.mem.previous_last = tracked.previous_last
  <2>1. CASE SequenceGap(m, span)
    <3>1. marked = AppendRecord(s, tracked, GapRecord(m.seq, "update_id_gap"))
      BY <1>1, <1>4, <2>1 DEF AppendGap
    <3> QED
      BY <1>1, <1>6, <2>1, <3>1, AppendRecordLog
  <2>2. CASE ~SequenceGap(m, span)
    BY <1>1, <1>5, <2>2
  <2> QED
    BY <2>1, <2>2
<1>8. /\ between \in SessionState /\ Log(between) = Log(marked.mem)
      /\ between.seq = marked.mem.seq /\ between.frames = marked.mem.frames + 1
      /\ between.gaps = marked.mem.gaps
      /\ between.connection_gaps = marked.mem.connection_gaps
      /\ between.previous_last = marked.mem.previous_last
  <2>1. /\ between \in SessionState
        /\ between.closed = marked.mem.closed /\ between.buffer = marked.mem.buffer
    BY <1>7, WithFrame
  <2>2. /\ between.seq = marked.mem.seq /\ between.frames = marked.mem.frames + 1
        /\ between.gaps = marked.mem.gaps
        /\ between.connection_gaps = marked.mem.connection_gaps
        /\ between.previous_last = marked.mem.previous_last
    BY <1>7 DEF SessionState
  <2> HIDE DEF between
  <2> QED
    BY <2>1, <2>2 DEF Log
<1> HIDE DEF between
<1>9. record \in Record
  BY <1>7 DEF FrameRecord, Record, SessionState
<1> HIDE DEF record
<1>10. /\ added.mem \in SessionState /\ Log(added.mem) = Append(Log(between), record)
       /\ added.mem.seq = between.seq + 1 /\ added.mem.frames = between.frames
       /\ added.mem.gaps = between.gaps
       /\ added.mem.connection_gaps = between.connection_gaps
       /\ added.mem.previous_last = between.previous_last
  BY <1>8, <1>9, AppendRecordLog
<1> HIDE DEF added
<1>11. CASE SequenceGap(m, span)
  <2>1. marked.mem.seq = m.seq + 1 /\ record = FrameRecord(m.seq + 1, span)
    BY <1>7, <1>11 DEF record
  <2>2. added.mem.seq = m.seq + 2 /\ added.mem.gaps = m.gaps + 1
    BY <1>1, <1>3, <1>7, <1>8, <1>10, <1>11, <2>1
  <2> QED
    BY <1>1, <1>2, <1>7, <1>8, <1>10, <1>11, <2>1, <2>2
<1>12. CASE ~SequenceGap(m, span)
  <2>1. marked.mem.seq = m.seq /\ record = FrameRecord(m.seq, span)
    BY <1>7, <1>12 DEF record
  <2>2. added.mem.seq = m.seq + 1 /\ added.mem.gaps = m.gaps
    BY <1>1, <1>3, <1>7, <1>8, <1>10, <1>12, <2>1
  <2> QED
    BY <1>1, <1>2, <1>7, <1>8, <1>10, <1>12, <2>1, <2>2
<1> QED
  BY <1>11, <1>12

LEMMA MarkReconnectLog ==
    ASSUME NEW s \in Sessions, NEW m \in SessionState
    PROVE  LET n == MarkReconnect(s, m).mem
           IN  /\ n \in SessionState
               /\ Log(n) = Append(Log(m), GapRecord(m.seq, "connection_gap"))
               /\ n.seq = m.seq + 1 /\ n.frames = m.frames /\ n.gaps = m.gaps
               /\ n.connection_gaps = m.connection_gaps + 1 /\ n.previous_last = None
<1> DEFINE marked == AppendGap(s, m, "connection_gap")
           after == [marked.mem EXCEPT !.connection_gaps = @ + 1, !.previous_last = None]
           record == GapRecord(m.seq, "connection_gap")
<1>1. MarkReconnect(s, m).mem = after
  BY DEF MarkReconnect, Step
<1>2. record \in Record
  BY DEF GapRecord, Record, SessionState
<1>3. marked = AppendRecord(s, m, record)
  BY DEF AppendGap
<1> HIDE DEF record, marked
<1>4. /\ marked.mem \in SessionState /\ Log(marked.mem) = Append(Log(m), record)
      /\ marked.mem.seq = m.seq + 1 /\ marked.mem.frames = m.frames
      /\ marked.mem.gaps = m.gaps /\ marked.mem.connection_gaps = m.connection_gaps
  BY <1>2, <1>3, AppendRecordLog
<1>5. /\ after \in SessionState
      /\ after.closed = marked.mem.closed /\ after.buffer = marked.mem.buffer
  BY <1>4, WithReconnect
<1>6. /\ after.seq = marked.mem.seq /\ after.frames = marked.mem.frames
      /\ after.gaps = marked.mem.gaps
      /\ after.connection_gaps = marked.mem.connection_gaps + 1
  BY <1>4 DEF SessionState
<1>7. after.previous_last = None
  BY <1>4 DEF SessionState
<1> HIDE DEF after
<1>8. Log(after) = Log(marked.mem)
  BY <1>5 DEF Log
<1> QED
  BY <1>1, <1>4, <1>5, <1>6, <1>7, <1>8 DEF record

LEMMA TellsFrame ==
    ASSUME NEW s \in Sessions, NEW m \in SessionState, NEW span \in Span \cup {NoSpan},
           NEW stream \in Seq(StreamItems), Tells(m, stream)
    PROVE  Tells(AppendFrame(s, m, span).mem, Append(stream, span))
<1> DEFINE n == AppendFrame(s, m, span).mem
           more == Append(stream, span)
           marker == GapRecord(m.seq, "update_id_gap")
           said == Annotated(stream)
           log == Log(m)
<1>1. /\ n \in SessionState
      /\ SequenceGap(m, span) =>
             /\ Log(n) = Append(Append(log, marker), FrameRecord(m.seq + 1, span))
             /\ n.seq = m.seq + 2 /\ n.gaps = m.gaps + 1
      /\ ~SequenceGap(m, span) =>
             /\ Log(n) = Append(log, FrameRecord(m.seq, span))
             /\ n.seq = m.seq + 1 /\ n.gaps = m.gaps
      /\ n.frames = m.frames + 1 /\ n.connection_gaps = m.connection_gaps
      /\ n.previous_last = IF span = NoSpan THEN m.previous_last ELSE span.last
  BY AppendFrameLog
<1> HIDE DEF n
<1>2. span \in StreamItems /\ span # Cut
  BY CaptureAssumption DEF StreamItems
<1>3. /\ m.seq \in Nat /\ m.frames \in Nat /\ m.gaps \in Nat /\ m.connection_gaps \in Nat
      /\ log \in Seq(Record)
  BY LogType DEF SessionState
<1>4. /\ Summary(log) = said /\ m.seq = Len(log) /\ Positioned(log)
      /\ m.frames = Cardinality(Of(log, "frame"))
      /\ m.gaps = Cardinality(Of(log, "update_id_gap"))
      /\ m.connection_gaps = Cardinality(Of(log, "connection_gap"))
      /\ m.frames = Cardinality(Arrived(stream)) /\ Tracks(m, stream)
  BY DEF Tells
<1>5. Tracks(n, more)
  <2>1. /\ span = NoSpan => n.previous_last = m.previous_last
        /\ span \in Span => n.previous_last = span.last
    BY <1>1, CaptureAssumption
  <2> QED
    BY <1>2, <1>4, <2>1, TracksNext
<1>6. n.frames = Cardinality(Arrived(more))
  BY <1>1, <1>2, <1>4, ArrivedAppend
<1>7. said \in Seq(Entries) /\ Annotated(more) = said \o Says(more, Len(stream) + 1)
  BY <1>2, AnnotatedAppend
<1>8. Says(more, Len(stream) + 1) =
          IF SequenceGap(m, span) THEN <<Entry("update_id_gap", NoSpan), Entry("frame", span)>>
          ELSE <<Entry("frame", span)>>
  <2>1. more[Len(stream) + 1] = span
    OBVIOUS
  <2>2. ShowsGap(more, Len(stream) + 1) <=> SequenceGap(m, span)
    BY <1>4, GapIsShown
  <2> HIDE DEF more
  <2> QED
    BY <1>2, <2>1, <2>2 DEF Says
<1>9. /\ marker \in Record /\ marker.seq = m.seq /\ marker.kind = "update_id_gap"
      /\ marker.span = NoSpan
  BY <1>3 DEF GapRecord, Record
<1>10. \A seq \in Nat :
           /\ FrameRecord(seq, span) \in Record /\ FrameRecord(seq, span).seq = seq
           /\ FrameRecord(seq, span).kind = "frame" /\ FrameRecord(seq, span).span = span
  BY DEF FrameRecord, Record
<1>11. Entry("update_id_gap", NoSpan) \in Entries /\ Entry("frame", span) \in Entries
  BY DEF Entry, Entries
<1>12. \A a, b : /\ said \o <<a>> = Append(said, a)
                 /\ said \o <<a, b>> = Append(Append(said, a), b)
  BY <1>7
<1> HIDE DEF more, marker, said, log
<1>13. CASE ~SequenceGap(m, span)
  <2> DEFINE frame == FrameRecord(m.seq, span)
  <2>1. Log(n) = Append(log, frame) /\ n.seq = m.seq + 1 /\ n.gaps = m.gaps
    BY <1>1, <1>13
  <2>2. /\ frame \in Record /\ frame.seq = m.seq /\ frame.kind = "frame" /\ frame.span = span
    BY <1>3, <1>10
  <2> HIDE DEF frame
  <2>3. Summary(Log(n)) = Append(said, Entry("frame", span))
    BY <1>3, <1>4, <2>1, <2>2, SummaryAppend
  <2>4. Annotated(more) = Append(said, Entry("frame", span))
    BY <1>7, <1>8, <1>12, <1>13
  <2>5. n.seq = Len(Log(n)) /\ Positioned(Log(n))
    BY <1>3, <1>4, <2>1, <2>2, PositionedAppend
  <2>6. /\ n.frames = Cardinality(Of(Log(n), "frame"))
        /\ n.gaps = Cardinality(Of(Log(n), "update_id_gap"))
        /\ n.connection_gaps = Cardinality(Of(Log(n), "connection_gap"))
    <3>1. /\ Cardinality(Of(Log(n), "frame")) = Cardinality(Of(log, "frame")) + 1
          /\ Cardinality(Of(Log(n), "update_id_gap")) = Cardinality(Of(log, "update_id_gap")) + 0
          /\ Cardinality(Of(Log(n), "connection_gap")) = Cardinality(Of(log, "connection_gap")) + 0
      BY <1>3, <2>1, <2>2, CountAppend
    <3> QED
      BY <1>1, <1>3, <1>4, <2>1, <3>1
  <2> QED
    BY <1>5, <1>6, <2>3, <2>4, <2>5, <2>6 DEF Tells, n, more
<1>14. CASE SequenceGap(m, span)
  <2> DEFINE frame == FrameRecord(m.seq + 1, span)
             marked == Append(log, marker)
  <2>1. Log(n) = Append(marked, frame) /\ n.seq = m.seq + 2 /\ n.gaps = m.gaps + 1
    BY <1>1, <1>14
  <2>2. /\ frame \in Record /\ frame.seq = m.seq + 1 /\ frame.kind = "frame"
        /\ frame.span = span
    BY <1>3, <1>10
  <2> HIDE DEF frame
  <2>3. marked \in Seq(Record)
    BY <1>3, <1>9
  <2>4. Summary(marked) = Append(said, Entry("update_id_gap", NoSpan))
    BY <1>3, <1>4, <1>9, SummaryAppend
  <2>5. Len(marked) = m.seq + 1 /\ Positioned(marked)
    BY <1>3, <1>4, <1>9, PositionedAppend
  <2>6. /\ Cardinality(Of(marked, "frame")) = m.frames
        /\ Cardinality(Of(marked, "update_id_gap")) = m.gaps + 1
        /\ Cardinality(Of(marked, "connection_gap")) = m.connection_gaps
    <3>1. /\ Cardinality(Of(marked, "frame")) = Cardinality(Of(log, "frame")) + 0
          /\ Cardinality(Of(marked, "update_id_gap")) = Cardinality(Of(log, "update_id_gap")) + 1
          /\ Cardinality(Of(marked, "connection_gap"))
                 = Cardinality(Of(log, "connection_gap")) + 0
      BY <1>3, <1>9, CountAppend
    <3> QED
      BY <1>3, <1>4, <3>1
  <2> HIDE DEF marked
  <2>7. Summary(Log(n)) = Append(Summary(marked), Entry("frame", span))
    BY <2>1, <2>2, <2>3, SummaryAppend
  <2>8. Annotated(more) = Summary(Log(n))
    BY <1>7, <1>8, <1>12, <1>14, <2>4, <2>7
  <2>9. n.seq = Len(Log(n)) /\ Positioned(Log(n))
    <3>1. Positioned(Append(marked, frame)) /\ Len(Append(marked, frame)) = Len(marked) + 1
      BY <2>2, <2>3, <2>5, PositionedAppend
    <3> QED
      BY <1>3, <2>1, <2>5, <3>1
  <2>10. /\ n.frames = Cardinality(Of(Log(n), "frame"))
         /\ n.gaps = Cardinality(Of(Log(n), "update_id_gap"))
         /\ n.connection_gaps = Cardinality(Of(Log(n), "connection_gap"))
    <3>1. /\ Cardinality(Of(Log(n), "frame")) = Cardinality(Of(marked, "frame")) + 1
          /\ Cardinality(Of(Log(n), "update_id_gap"))
                 = Cardinality(Of(marked, "update_id_gap")) + 0
          /\ Cardinality(Of(Log(n), "connection_gap"))
                 = Cardinality(Of(marked, "connection_gap")) + 0
      BY <2>1, <2>2, <2>3, CountAppend
    <3> QED
      BY <1>1, <1>3, <2>1, <2>6, <3>1
  <2> QED
    BY <1>5, <1>6, <2>8, <2>9, <2>10 DEF Tells, n, more
<1> QED
  BY <1>13, <1>14

LEMMA TellsCut ==
    ASSUME NEW s \in Sessions, NEW m \in SessionState,
           NEW stream \in Seq(StreamItems), Tells(m, stream)
    PROVE  Tells(MarkReconnect(s, m).mem, Append(stream, Cut))
<1> DEFINE n == MarkReconnect(s, m).mem
           more == Append(stream, Cut)
           marker == GapRecord(m.seq, "connection_gap")
           said == Annotated(stream)
           log == Log(m)
<1>1. /\ n \in SessionState /\ Log(n) = Append(log, marker)
      /\ n.seq = m.seq + 1 /\ n.frames = m.frames /\ n.gaps = m.gaps
      /\ n.connection_gaps = m.connection_gaps + 1 /\ n.previous_last = None
  BY MarkReconnectLog
<1> HIDE DEF n
<1>2. Cut \in StreamItems /\ Cut # NoSpan /\ Cut \notin Span
  BY CaptureAssumption DEF StreamItems
<1>3. /\ m.seq \in Nat /\ m.frames \in Nat /\ m.gaps \in Nat /\ m.connection_gaps \in Nat
      /\ log \in Seq(Record)
  BY LogType DEF SessionState
<1>4. /\ Summary(log) = said /\ m.seq = Len(log) /\ Positioned(log)
      /\ m.frames = Cardinality(Of(log, "frame"))
      /\ m.gaps = Cardinality(Of(log, "update_id_gap"))
      /\ m.connection_gaps = Cardinality(Of(log, "connection_gap"))
      /\ m.frames = Cardinality(Arrived(stream)) /\ Tracks(m, stream)
  BY DEF Tells
<1>5. Tracks(n, more)
  BY <1>1, <1>2, <1>4, TracksNext
<1>6. n.frames = Cardinality(Arrived(more))
  BY <1>1, <1>2, <1>4, ArrivedAppend
<1>7. said \in Seq(Entries) /\ Annotated(more) = said \o Says(more, Len(stream) + 1)
  BY <1>2, AnnotatedAppend
<1>8. Says(more, Len(stream) + 1) = <<Entry("connection_gap", NoSpan)>>
  BY DEF Says
<1>9. /\ marker \in Record /\ marker.seq = m.seq /\ marker.kind = "connection_gap"
      /\ marker.span = NoSpan
  BY <1>3 DEF GapRecord, Record
<1>10. \A a : said \o <<a>> = Append(said, a)
  BY <1>7
<1> HIDE DEF more, marker, said, log
<1>11. Summary(Log(n)) = Annotated(more)
  BY <1>1, <1>3, <1>4, <1>7, <1>8, <1>9, <1>10, SummaryAppend
<1>12. n.seq = Len(Log(n)) /\ Positioned(Log(n))
  BY <1>1, <1>3, <1>4, <1>9, PositionedAppend
<1>13. /\ n.frames = Cardinality(Of(Log(n), "frame"))
       /\ n.gaps = Cardinality(Of(Log(n), "update_id_gap"))
       /\ n.connection_gaps = Cardinality(Of(Log(n), "connection_gap"))
  <2>1. /\ Cardinality(Of(Log(n), "frame")) = Cardinality(Of(log, "frame")) + 0
        /\ Cardinality(Of(Log(n), "update_id_gap")) = Cardinality(Of(log, "update_id_gap")) + 0
        /\ Cardinality(Of(Log(n), "connection_gap")) = Cardinality(Of(log, "connection_gap")) + 1
    BY <1>1, <1>3, <1>9, CountAppend
  <2> QED
    BY <1>1, <1>3, <1>4, <2>1
<1> QED
  BY <1>5, <1>6, <1>11, <1>12, <1>13 DEF Tells, n, more
-----------------------------------------------------------------------------
(* The log and the stream, in every session of every run.                  *)

LogInv ==
    /\ received \in [Sessions -> Seq(StreamItems)]
    /\ \A s \in Sessions : Tells(mem[s], received[s])

LEMMA TellsFresh == Tells(FreshSession(<<>>), <<>>)
<1> DEFINE empty == <<>>
           fresh == FreshSession(empty)
<1>1. /\ fresh.seq = 0 /\ fresh.frames = 0 /\ fresh.gaps = 0 /\ fresh.connection_gaps = 0
      /\ fresh.previous_last = None
  BY DEF FreshSession
<1>2. Log(fresh) = empty
  <2>1. fresh.closed = empty /\ fresh.buffer = <<>>
    BY DEF FreshSession
  <2> QED
    BY <2>1, FlattenEmpty DEF Log
<1>3. DOMAIN empty = {} /\ Len(empty) = 0
  OBVIOUS
<1>4. Summary(empty) = empty
  BY <1>3 DEF Summary
<1>5. Annotated(empty) = empty
  <2>1. [i \in DOMAIN empty |-> Says(empty, i)] = empty
    BY <1>3
  <2> QED
    BY <2>1, FlattenEmpty DEF Annotated
<1>6. Of(empty, "frame") = {} /\ Of(empty, "update_id_gap") = {}
      /\ Of(empty, "connection_gap") = {} /\ Arrived(empty) = {}
  BY <1>3 DEF Of, Arrived
<1>7. Cardinality({}) = 0
  BY FS_EmptySet
<1> HIDE DEF empty, fresh
<1>8. Tells(fresh, empty)
  BY <1>1, <1>2, <1>3, <1>4, <1>5, <1>6, <1>7 DEF Tells, Positioned, Tracks
<1> QED
  BY <1>8 DEF fresh, empty

LEMMA LogInvInit == Init => LogInv
<1> SUFFICES ASSUME Init PROVE LogInv
  OBVIOUS
<1>1. \A s \in Sessions : mem[s] = FreshSession(<<>>) /\ received[s] = <<>>
  BY DEF Init
<1>2. received \in [Sessions -> Seq(StreamItems)]
  BY DEF Init
<1> QED
  BY <1>1, <1>2, TellsFresh DEF LogInv

\* What a step of the system does to a session: nothing, or one of four things.
Same(m, n) ==
    /\ n \in SessionState /\ Log(n) = Log(m)
    /\ n.seq = m.seq /\ n.frames = m.frames /\ n.gaps = m.gaps
    /\ n.connection_gaps = m.connection_gaps /\ n.previous_last = m.previous_last

Begins(s) == mem'[s] = FreshSession(<<>>) /\ received'[s] = <<>>
GetsFrame(s, span) ==
    mem'[s] = AppendFrame(s, mem[s], span).mem /\ received'[s] = Append(received[s], span)
GetsCut(s) == mem'[s] = MarkReconnect(s, mem[s]).mem /\ received'[s] = Append(received[s], Cut)
Stays(s) == Same(mem[s], mem'[s]) /\ received'[s] = received[s]

LEMMA SessionChange ==
    ASSUME Inv, received \in [Sessions -> Seq(StreamItems)], [Next]_vars
    PROVE  /\ received' \in [Sessions -> Seq(StreamItems)]
           /\ \A r \in Sessions :
                 \/ Stays(r) \/ Begins(r) \/ GetsCut(r)
                 \/ \E span \in Span \cup {NoSpan} : GetsFrame(r, span)
<1> DEFINE Goal ==
             /\ received' \in [Sessions -> Seq(StreamItems)]
             /\ \A r \in Sessions :
                   \/ Stays(r) \/ Begins(r) \/ GetsCut(r)
                   \/ \E span \in Span \cup {NoSpan} : GetsFrame(r, span)
<1>1. /\ mem \in [Sessions -> SessionState] /\ session \in Sessions
      /\ \A s \in Sessions : received[s] \in Seq(StreamItems)
  BY DEF Inv, TypeOK
<1>2. \A r \in Sessions : mem'[r] = mem[r] /\ received'[r] = received[r] => Stays(r)
  BY <1>1 DEF Stays, Same
\* Such a step in one session leaves the others as they are.
<1>3. ASSUME NEW s \in Sessions, NEW m, NEW stream \in Seq(StreamItems),
             mem' = [mem EXCEPT ![s] = m], received' = [received EXCEPT ![s] = stream]
      PROVE  /\ mem'[s] = m /\ received'[s] = stream
             /\ received' \in [Sessions -> Seq(StreamItems)]
             /\ \A r \in Sessions : r # s => Stays(r)
  <2>1. \A r \in Sessions : r # s => mem'[r] = mem[r] /\ received'[r] = received[r]
    BY <1>1, <1>3
  <2>2. mem'[s] = m /\ received'[s] = stream /\ received' \in [Sessions -> Seq(StreamItems)]
    BY <1>1, <1>3
  <2> QED
    BY <1>2, <2>1, <2>2
<1>4. CASE OpenSession
  <2>1. FilesInv(session) /\ DOMAIN disk[session].chunks = {}
    BY <1>1, <1>4 DEF Inv, StoreInv, OpenSession, HasChunks
  <2>2. ReadIndex(disk[session]) = <<>>
    BY <2>1 DEF FilesInv, HasChunks, ReadIndex
  <2>3. /\ mem' = [mem EXCEPT ![session] = FreshSession(<<>>)]
        /\ received' = [received EXCEPT ![session] = <<>>]
    BY <1>4, <2>2 DEF OpenSession
  <2>4. <<>> \in Seq(StreamItems)
    OBVIOUS
  <2> QED
    BY <1>1, <1>3, <2>3, <2>4 DEF Begins
<1>5. ASSUME NEW s \in Sessions, NEW span \in Frames[s], ReadFrame(s, span)
      PROVE  Goal
  <2>1. span \in Span \cup {NoSpan} /\ span \in StreamItems
    BY CaptureAssumption DEF StreamItems
  <2>2. /\ mem' = [mem EXCEPT ![s] = AppendFrame(s, mem[s], span).mem]
        /\ received' = [received EXCEPT ![s] = Append(received[s], span)]
    BY <1>5 DEF ReadFrame
  <2>3. Append(received[s], span) \in Seq(StreamItems)
    BY <1>1, <2>1
  <2> QED
    BY <1>3, <2>1, <2>2, <2>3 DEF GetsFrame
<1>6. CASE MarkSession
  <2>1. Cut \in StreamItems
    BY DEF StreamItems
  <2>2. /\ mem' = [mem EXCEPT ![session] = MarkReconnect(session, mem[session]).mem]
        /\ received' = [received EXCEPT ![session] = Append(received[session], Cut)]
    BY <1>6 DEF MarkSession
  <2>3. Append(received[session], Cut) \in Seq(StreamItems)
    BY <1>1, <2>1
  <2> QED
    BY <1>1, <1>3, <2>2, <2>3 DEF GetsCut
<1>7. CASE FinishSession
  <2> DEFINE n == CloseChunk(session, mem[session]).mem
  <2>1. Same(mem[session], n)
    BY <1>1, CloseChunkLog DEF Same
  <2>2. mem' = [mem EXCEPT ![session] = n] /\ received' = [received EXCEPT ![session] = @]
    BY <1>7 DEF FinishSession
  <2> HIDE DEF n
  <2>3. mem'[session] = n /\ received'[session] = received[session]
        /\ received' \in [Sessions -> Seq(StreamItems)]
        /\ \A r \in Sessions : r # session => Stays(r)
    BY <1>1, <1>3, <2>2
  <2> QED
    BY <2>1, <2>3 DEF Stays
<1>8. CASE Quiet \/ Write \/ TearWrite \/ Crash
  <2>1. mem' = mem
    BY <1>8, QuietSteps DEF Write, TearWrite, Crash
  <2>2. received' = received
    BY <1>8 DEF Quiet, RefuseSession, Connect, ConnectFails, LoopTop, ReadUnknown, ReadNothing,
                Disconnect, Backoff, Reconnect, ReconnectFails, Return, Interrupt, Elapse,
                Restart, Write, TearWrite, Crash, vars
  <2> QED
    BY <1>2, <2>1, <2>2
<1> QED
  BY <1>4, <1>5, <1>6, <1>7, <1>8 DEF Next, Process, Dial, Quiet

LEMMA LogInvNext == Inv /\ LogInv /\ [Next]_vars => LogInv'
<1> SUFFICES ASSUME Inv, LogInv, [Next]_vars PROVE LogInv'
  OBVIOUS
<1>1. /\ \A s \in Sessions : mem[s] \in SessionState
      /\ \A s \in Sessions : received[s] \in Seq(StreamItems) /\ Tells(mem[s], received[s])
  BY DEF Inv, TypeOK, LogInv
<1>2. received' \in [Sessions -> Seq(StreamItems)]
  BY SessionChange DEF LogInv
<1>3. ASSUME NEW s \in Sessions
      PROVE  Tells(mem'[s], received'[s])
  <2>1. CASE Stays(s)
    BY <1>1, <2>1 DEF Stays, Same, Tells, Tracks
  <2>2. CASE Begins(s)
    BY <2>2, TellsFresh DEF Begins
  <2>3. CASE GetsCut(s)
    BY <1>1, <2>3, TellsCut DEF GetsCut
  <2>4. ASSUME NEW span \in Span \cup {NoSpan}, GetsFrame(s, span)
        PROVE  Tells(mem'[s], received'[s])
    BY <1>1, <2>4, TellsFrame DEF GetsFrame
  <2> QED
    BY <2>1, <2>2, <2>3, <2>4, SessionChange DEF LogInv
<1> QED
  BY <1>2, <1>3 DEF LogInv

LEMMA LogInvariance == Spec => [](Inv /\ LogInv)
BY InitInv, LogInvInit, NextInv, LogInvNext, PTL DEF Spec

\* Whatever the venue sends and whenever the connection breaks, in every session the
\* log holds every frame received, in order, and a marker at each hole and nowhere
\* else, however the records fall into chunks.
THEOREM LogIsAnnotatedStreamTheorem == Spec => []LogIsAnnotatedStream
<1>1. LogInv => LogIsAnnotatedStream
  BY DEF LogInv, LogIsAnnotatedStream, Tells
<1> QED
  BY <1>1, LogInvariance, PTL

-----------------------------------------------------------------------------
(* The sessions beside each other: the reconnects they have recorded.      *)

\* The last thing a session recorded is that the connection was lost.
MarkedLast(s) == Last(Log(mem[s])).kind = "connection_gap"

\* Wherever the process is, how many reconnects its sessions have recorded: the same,
\* but for those in front of the one that is marked next.
PaceInv ==
    /\ pc = "open" => \A s \in Sessions : s < session => mem[s].connection_gaps = 0
    /\ pc = "mark" => \E n \in Nat : \A s \in Sessions :
          IF s < session THEN mem[s].connection_gaps = n + 1 /\ MarkedLast(s)
                         ELSE mem[s].connection_gaps = n
    /\ Running /\ pc \notin {"open", "mark"} =>
          \E n \in Nat : \A s \in Sessions : mem[s].connection_gaps = n

StepsInv == PaceInv /\ SessionsKeepStep

LEMMA GapsAreNaturals ==
    ASSUME TypeOK
    PROVE  \A s \in Sessions : mem[s].connection_gaps \in Nat
BY DEF TypeOK, SessionState

LEMMA StepsInvInit == Init => StepsInv
<1> SUFFICES ASSUME Init PROVE StepsInv
  OBVIOUS
<1>1. pc = "open" /\ session = 1 /\ \A s \in Sessions : mem[s].connection_gaps = 0
  BY DEF Init, FreshSession
<1> QED
  BY <1>1 DEF StepsInv, PaceInv, SessionsKeepStep

\* What no session recorded changes nothing, wherever the process goes next.
LEMMA StepsInvSame ==
    ASSUME Inv, StepsInv, session' \in Sessions,
           \A s \in Sessions : Log(mem'[s]) = Log(mem[s]) /\ mem'[s].connection_gaps = mem[s].connection_gaps,
           \/ pc' = pc /\ session' = session
           \/ pc' \in {"stopped", "dead"}
           \/ pc' = "open" /\ session' = 1
           \/ Running /\ pc \notin {"open", "mark"} /\ Running' /\ pc' \notin {"open", "mark"}
           \/ Running /\ pc \notin {"open", "mark"} /\ pc' = "mark" /\ session' = 1
    PROVE  StepsInv'
<1>1. \A s \in Sessions : ~(s < 1)
  BY CaptureAssumption DEF Sessions
<1>2. \A s \in Sessions : MarkedLast(s)' <=> MarkedLast(s)
  BY DEF MarkedLast
<1>3. \A s, t \in Sessions : s < t =>
          (mem'[s].connection_gaps > mem'[t].connection_gaps =>
               /\ mem'[s].connection_gaps = mem'[t].connection_gaps + 1
               /\ Last(Log(mem'[s])).kind = "connection_gap")
  BY DEF StepsInv, SessionsKeepStep
<1>4. CASE pc' = pc /\ session' = session
  BY <1>2, <1>3, <1>4 DEF StepsInv, PaceInv, SessionsKeepStep, Running
<1>5. CASE pc' \in {"stopped", "dead"}
  BY <1>3, <1>5 DEF StepsInv, PaceInv, SessionsKeepStep, Running
<1>6. CASE pc' = "open" /\ session' = 1
  BY <1>1, <1>3, <1>6 DEF StepsInv, PaceInv, SessionsKeepStep, Running
<1>7. CASE Running /\ pc \notin {"open", "mark"}
  <2>1. PICK n \in Nat : \A s \in Sessions : mem'[s].connection_gaps = n
    BY <1>7 DEF StepsInv, PaceInv
  <2>2. CASE Running' /\ pc' \notin {"open", "mark"}
    BY <1>3, <2>1, <2>2 DEF StepsInv, PaceInv, SessionsKeepStep, Running
  <2>3. CASE pc' = "mark" /\ session' = 1
    BY <1>1, <1>3, <2>1, <2>3 DEF StepsInv, PaceInv, SessionsKeepStep, Running
  <2> QED
    BY <1>4, <1>5, <1>6, <2>2, <2>3
<1> QED
  BY <1>4, <1>5, <1>6, <1>7

LEMMA StepsInvOpen == Inv /\ StepsInv /\ OpenSession => StepsInv'
<1> SUFFICES ASSUME Inv, StepsInv, OpenSession PROVE StepsInv'
  OBVIOUS
<1>1. /\ mem \in [Sessions -> SessionState] /\ session \in Sessions /\ pc = "open"
      /\ \A s \in Sessions : s < session => mem[s].connection_gaps = 0
      /\ \A s \in Sessions : mem[s].connection_gaps \in Nat
  BY GapsAreNaturals DEF Inv, TypeOK, OpenSession, At, StepsInv, PaceInv
<1>2. /\ mem'[session].connection_gaps = 0
      /\ \A s \in Sessions : s # session => mem'[s] = mem[s]
  BY <1>1 DEF OpenSession, FreshSession
<1>3. \A s \in Sessions : s \in Nat /\ s <= NumSessions /\ NumSessions \in Nat
  BY CaptureAssumption DEF Sessions
<1>4. \A s \in Sessions : s <= session => mem'[s].connection_gaps = 0
  BY <1>1, <1>2, <1>3
<1>5. ASSUME NEW s \in Sessions, NEW t \in Sessions, s < t,
             mem'[s].connection_gaps > mem'[t].connection_gaps
      PROVE  /\ mem'[s].connection_gaps = mem'[t].connection_gaps + 1
             /\ Last(Log(mem'[s])).kind = "connection_gap"
  <2>1. mem'[s].connection_gaps # 0
    BY <1>1, <1>2, <1>5
  <2>2. s # session /\ t # session
    BY <1>3, <1>4, <1>5, <2>1
  <2>3. mem'[s] = mem[s] /\ mem'[t] = mem[t]
    BY <1>2, <2>2
  <2> QED
    BY <1>5, <2>3 DEF StepsInv, SessionsKeepStep
<1>6. CASE session = NumSessions
  <2>1. pc' = "connect" /\ \A s \in Sessions : mem'[s].connection_gaps = 0
    BY <1>3, <1>4, <1>6 DEF OpenSession
  <2> QED
    BY <1>5, <2>1 DEF StepsInv, PaceInv, SessionsKeepStep
<1>7. CASE session # NumSessions
  <2>1. pc' = "open" /\ session' = session + 1
    BY <1>1, <1>7 DEF OpenSession
  <2>2. \A s \in Sessions : s < session + 1 => s <= session
    BY <1>1, <1>3
  <2> QED
    BY <1>4, <1>5, <2>1, <2>2 DEF StepsInv, PaceInv, SessionsKeepStep
<1> QED
  BY <1>6, <1>7

LEMMA StepsInvMark == Inv /\ StepsInv /\ MarkSession => StepsInv'
<1> SUFFICES ASSUME Inv, StepsInv, MarkSession PROVE StepsInv'
  OBVIOUS
<1>1. mem \in [Sessions -> SessionState] /\ session \in Sessions /\ pc = "mark"
  BY DEF Inv, TypeOK, MarkSession, At
<1>2. PICK n \in Nat : \A s \in Sessions :
          IF s < session THEN mem[s].connection_gaps = n + 1 /\ MarkedLast(s)
                         ELSE mem[s].connection_gaps = n
  BY <1>1 DEF StepsInv, PaceInv
<1>3. \A s \in Sessions : s \in Nat /\ s <= NumSessions /\ NumSessions \in Nat
  BY CaptureAssumption DEF Sessions
<1>4. /\ mem'[session] = MarkReconnect(session, mem[session]).mem
      /\ \A s \in Sessions : s # session => mem'[s] = mem[s]
  BY <1>1 DEF MarkSession
<1>5. mem'[session].connection_gaps = n + 1 /\ Last(Log(mem'[session])).kind = "connection_gap"
  <2> DEFINE record == GapRecord(mem[session].seq, "connection_gap")
  <2>1. /\ Log(mem'[session]) = Append(Log(mem[session]), record)
        /\ mem'[session].connection_gaps = mem[session].connection_gaps + 1
    BY <1>1, <1>4, MarkReconnectLog
  <2>2. Log(mem[session]) \in Seq(Record) /\ record \in Record /\ record.kind = "connection_gap"
    BY <1>1, LogType DEF GapRecord, Record, SessionState
  <2>3. mem[session].connection_gaps = n
    BY <1>1, <1>2, <1>3
  <2> HIDE DEF record
  <2>4. Last(Append(Log(mem[session]), record)) = record
    <3>1. PICK log : log = Log(mem[session])
      OBVIOUS
    <3>2. log \in Seq(Record)
      BY <2>2, <3>1
    <3>3. Append(log, record)[Len(Append(log, record))] = record
      BY <2>2, <3>2
    <3> QED
      BY <3>1, <3>3 DEF Last
  <2> QED
    BY <2>1, <2>2, <2>3, <2>4
<1>6. \A s \in Sessions : IF s <= session THEN mem'[s].connection_gaps = n + 1 /\ MarkedLast(s)'
                                          ELSE mem'[s].connection_gaps = n
  <2> SUFFICES ASSUME NEW s \in Sessions
      PROVE  IF s <= session THEN mem'[s].connection_gaps = n + 1 /\ MarkedLast(s)'
                             ELSE mem'[s].connection_gaps = n
    OBVIOUS
  <2>1. CASE s = session
    BY <1>3, <1>5, <2>1 DEF MarkedLast
  <2>2. CASE s # session
    <3>1. mem'[s] = mem[s] /\ (MarkedLast(s)' <=> MarkedLast(s))
      BY <1>4, <2>2 DEF MarkedLast
    <3>2. s <= session <=> s < session
      BY <1>1, <1>3, <2>2
    <3> QED
      BY <1>2, <3>1, <3>2
  <2> QED
    BY <2>1, <2>2
<1>7. SessionsKeepStep'
  <2> SUFFICES ASSUME NEW s \in Sessions, NEW t \in Sessions, s < t
      PROVE  /\ mem'[s].connection_gaps > mem'[t].connection_gaps =>
                    mem'[s].connection_gaps = mem'[t].connection_gaps + 1 /\ MarkedLast(s)'
             /\ mem'[s].connection_gaps >= mem'[t].connection_gaps
    BY DEF SessionsKeepStep, MarkedLast
  <2>1. s \in Nat /\ t \in Nat /\ session \in Nat
    BY <1>1, <1>3
  <2>2. CASE t <= session
    BY <1>6, <2>1, <2>2
  <2>3. CASE ~(t <= session)
    BY <1>6, <2>1, <2>3
  <2> QED
    BY <2>2, <2>3
<1>8. CASE session = NumSessions
  <2>1. pc' = "top" /\ \A s \in Sessions : mem'[s].connection_gaps = n + 1
    BY <1>3, <1>6, <1>8 DEF MarkSession
  <2>2. n + 1 \in Nat
    OBVIOUS
  <2> QED
    BY <1>7, <2>1, <2>2 DEF StepsInv, PaceInv
<1>9. CASE session # NumSessions
  <2>1. pc' = "mark" /\ session' = session + 1
    BY <1>1, <1>9 DEF MarkSession
  <2>2. \A s \in Sessions : s < session + 1 <=> s <= session
    BY <1>1, <1>3
  <2> QED
    BY <1>6, <1>7, <2>1, <2>2 DEF StepsInv, PaceInv
<1> QED
  BY <1>8, <1>9

LEMMA StepsInvNext == Inv /\ LogInv /\ StepsInv /\ [Next]_vars => StepsInv'
<1> SUFFICES ASSUME Inv, LogInv, StepsInv, [Next]_vars PROVE StepsInv'
  OBVIOUS
<1>1. mem \in [Sessions -> SessionState] /\ session \in Sessions /\ session' \in Sessions
  BY NextInv DEF Inv, TypeOK
<1>2. ASSUME NEW s \in Sessions, NEW span \in Frames[s], ReadFrame(s, span)
      PROVE  StepsInv'
  <2>1. span \in Span \cup {NoSpan}
    BY CaptureAssumption
  <2>2. pc = "read" /\ pc' = "top" /\ mem' = [mem EXCEPT ![s] = AppendFrame(s, mem[s], span).mem]
    BY <1>2 DEF ReadFrame, At
  <2>3. mem'[s].connection_gaps = mem[s].connection_gaps
    BY <1>1, <2>1, <2>2, AppendFrameLog
  <2>4. \A r \in Sessions : mem'[r].connection_gaps = mem[r].connection_gaps
    BY <1>1, <2>2, <2>3
  <2>5. PICK n \in Nat : \A r \in Sessions : mem'[r].connection_gaps = n
    BY <2>2, <2>4 DEF StepsInv, PaceInv, Running
  <2> QED
    BY <2>2, <2>5 DEF StepsInv, PaceInv, SessionsKeepStep
<1>3. CASE FinishSession
  <2>1. pc = "finish" /\ pc' \in {"finish", "flush"}
        /\ mem' = [mem EXCEPT ![session] = CloseChunk(session, mem[session]).mem]
    BY <1>3 DEF FinishSession, At
  <2>2. \A s \in Sessions : Log(mem'[s]) = Log(mem[s]) /\ mem'[s].connection_gaps = mem[s].connection_gaps
    BY <1>1, <2>1, CloseChunkLog
  <2> QED
    BY <1>1, <2>1, <2>2, StepsInvSame DEF Running
<1>4. CASE Quiet \/ Write \/ TearWrite \/ Crash
  <2>1. mem' = mem
    BY <1>4, QuietSteps DEF Write, TearWrite, Crash
  <2>2. \/ pc' = pc /\ session' = session
        \/ pc' \in {"stopped", "dead"}
        \/ pc' = "open" /\ session' = 1
        \/ Running /\ pc \notin {"open", "mark"} /\ Running' /\ pc' \notin {"open", "mark"}
        \/ Running /\ pc \notin {"open", "mark"} /\ pc' = "mark" /\ session' = 1
    <3>1. CASE RefuseSession \/ ConnectFails \/ Return \/ TearWrite \/ Crash
      BY <3>1 DEF RefuseSession, ConnectFails, Return, TearWrite, Crash
    <3>2. CASE Write \/ Interrupt \/ Elapse \/ UNCHANGED vars
      BY <3>2 DEF Write, Interrupt, Elapse, vars
    <3>3. CASE Restart
      BY <3>3 DEF Restart
    <3>4. CASE Reconnect
      BY <3>4 DEF Reconnect, At, Running
    <3>5. CASE \/ Connect \/ LoopTop \/ ReadUnknown \/ ReadNothing \/ ReconnectFails \/ Backoff
               \/ \E why \in {"venue_close", "read_error"} : Disconnect(why)
      BY <3>5 DEF Connect, LoopTop, ReadUnknown, ReadNothing, ReconnectFails, Backoff, Disconnect,
                  StopFor, At, Running
    <3> QED
      BY <1>4, <3>1, <3>2, <3>3, <3>4, <3>5 DEF Quiet
  <2> QED
    BY <1>1, <2>1, <2>2, StepsInvSame
<1> QED
  BY <1>2, <1>3, <1>4, StepsInvOpen, StepsInvMark DEF Next, Process, Dial, Quiet

LEMMA StepsInvariance == Spec => []StepsInv
BY InitInv, LogInvInit, StepsInvInit, NextInv, LogInvNext, StepsInvNext, PTL DEF Spec

\* A record's number is its position across chunks, markers and reconnects, and the
\* frames and gaps a session counts are the records of their kind.  However often the
\* connection is lost and wherever the process dies, its sessions have recorded the same
\* reconnects, but that while the last one is being marked the sessions in front have
\* marked it and recorded nothing since.
THEOREM CountersMatchLogTheorem == Spec => []CountersMatchLog
<1>1. LogInv /\ StepsInv => CountersMatchLog
  <2>1. LogInv => SeqIsPosition /\ CountsMatchMarkers
    BY DEF LogInv, SeqIsPosition, CountsMatchMarkers, Tells, Positioned, Of
  <2> QED
    BY <2>1 DEF CountersMatchLog, StepsInv
<1> QED
  BY <1>1, LogInvariance, StepsInvariance, PTL

-----------------------------------------------------------------------------
(* How a capture ends: the manifest that says so is the last write.        *)

Final(file) == Whole(file) /\ file.stop # "in_progress"
Starts(w) == w.file = "manifest" /\ ~Final(w.content)
Ends(w) == w.file = "manifest" /\ Final(w.content)

\* The running process has opened the session and not begun to finish it.
Recording(s) ==
    /\ Running /\ pc # "flush"
    /\ pc = "open" => s < session
    /\ pc = "finish" => session <= s

DirectoryIsTrue(s) ==
    Final(disk[s].manifest) =>
        /\ disk[s].index # Torn
        /\ ReadIndex(disk[s]) = mem[s].closed
        /\ mem[s].buffer = <<>>
        /\ disk[s].manifest.frames = mem[s].frames

\* Once the writes of the step are through, the index lists every closed chunk.
Indexes(i, s) == todo[i].file = "index" /\ todo[i].session = s

IndexFollows(s) ==
    /\ (\A i \in DOMAIN todo : ~Indexes(i, s)) =>
           disk[s].index # Torn /\ ReadIndex(disk[s]) = mem[s].closed
    /\ \A i \in DOMAIN todo :
           Indexes(i, s) /\ (\A j \in i + 1..Len(todo) : ~Indexes(j, s)) =>
               todo[i].content = mem[s].closed

\* A directory whose manifest is final gets no write but the one that starts it
\* again, and the final manifest is a step's last write.
WriteInv(i) ==
    LET w == todo[i]
    IN  /\ Opened(w.session)
        /\ Starts(w) \/ ~Final(disk[w.session].manifest)
        /\ Ends(w) =>
              /\ i = Len(todo) /\ ~Recording(w.session)
              /\ mem[w.session].buffer = <<>>
              /\ w.content.frames = mem[w.session].frames

Restarted(s) == \E i \in DOMAIN todo : todo[i].session = s /\ Starts(todo[i])

FinishInv ==
    /\ \A s \in Sessions : DirectoryIsTrue(s)
    /\ \A s \in Sessions : Recording(s) => ~Final(disk[s].manifest) \/ Restarted(s)
    /\ \A s \in Sessions : Opened(s) => IndexFollows(s)
    /\ \A i \in DOMAIN todo : WriteInv(i)

-----------------------------------------------------------------------------
\* writes leaves an index of new, where there was one of old.
Catches(old, new, writes) ==
    /\ (\A i \in 1..Len(writes) : writes[i].file # "index") => new = old
    /\ \A i \in 1..Len(writes) :
           /\ writes[i].file = "index"
           /\ \A j \in i + 1..Len(writes) : writes[j].file # "index"
           => writes[i].content = new

NoManifest(writes) == \A i \in 1..Len(writes) : writes[i].file # "manifest"

LEMMA CatchesTwice ==
    ASSUME NEW old, NEW mid, NEW new, NEW one \in Seq(WriteOrder), NEW two \in Seq(WriteOrder),
           Catches(old, mid, one), Catches(mid, new, two)
    PROVE  /\ Catches(old, new, one \o two)
           /\ NoManifest(one) /\ NoManifest(two) => NoManifest(one \o two)
<1> DEFINE both == one \o two
           L == Len(one)
           K == Len(two)
<1>1. /\ L \in Nat /\ K \in Nat /\ Len(both) = L + K
      /\ \A i \in 1..L : both[i] = one[i]
      /\ \A i \in 1..K : both[L + i] = two[i]
  OBVIOUS
<1> HIDE DEF both
<1>2. \A i \in 1..L + K : i \in 1..L \/ (i > L /\ i - L \in 1..K /\ i = L + (i - L))
  BY <1>1
<1>3. \A i \in 1..K : L + i \in 1..L + K
  BY <1>1
<1>4. \A i \in 1..L : i \in 1..L + K
  BY <1>1
<1>5. ASSUME \A i \in 1..L + K : both[i].file # "index"
      PROVE  new = old
  <2>1. \A i \in 1..L : one[i].file # "index"
    BY <1>1, <1>4, <1>5
  <2>2. \A i \in 1..K : two[i].file # "index"
    BY <1>1, <1>3, <1>5
  <2> QED
    BY <2>1, <2>2 DEF Catches
<1>6. ASSUME NEW i \in 1..L + K, both[i].file = "index",
             \A j \in i + 1..L + K : both[j].file # "index"
      PROVE  both[i].content = new
  <2>1. CASE i > L
    <3>1. i - L \in 1..K /\ both[i] = two[i - L]
      BY <1>1, <1>2, <2>1
    <3>2. \A j \in (i - L) + 1..K : two[j].file # "index"
      <4>1. \A j \in (i - L) + 1..K : j \in 1..K /\ L + j \in i + 1..L + K
        BY <1>1, <2>1
      <4> QED
        BY <1>1, <1>6, <4>1
    <3> QED
      BY <1>6, <3>1, <3>2 DEF Catches
  <2>2. CASE i \in 1..L
    <3>1. \A j \in 1..K : L + j \in i + 1..L + K
      BY <1>1, <2>2
    <3>2. \A j \in 1..K : two[j].file # "index"
      BY <1>1, <1>6, <3>1
    <3>3. \A j \in i + 1..L : j \in i + 1..L + K /\ j \in 1..L
      BY <1>1, <2>2
    <3>4. \A j \in i + 1..L : one[j].file # "index"
      BY <1>1, <1>6, <3>3
    <3> QED
      BY <1>1, <1>6, <2>2, <3>2, <3>4 DEF Catches
  <2> QED
    BY <1>1, <1>2, <2>1, <2>2
<1>7. Catches(old, new, both)
  BY <1>1, <1>5, <1>6 DEF Catches
<1>8. ASSUME NoManifest(one), NoManifest(two)
      PROVE  NoManifest(both)
  <2>1. ASSUME NEW i \in 1..L + K
        PROVE  both[i].file # "manifest"
    <3>1. CASE i \in 1..L
      BY <1>1, <1>8, <3>1 DEF NoManifest
    <3>2. CASE i > L /\ i - L \in 1..K /\ i = L + (i - L)
      <4>1. both[i] = two[i - L]
        BY <1>1, <3>2
      <4> QED
        BY <1>8, <3>2, <4>1 DEF NoManifest
    <3> QED
      BY <1>2, <3>1, <3>2
  <2> QED
    BY <1>1, <2>1 DEF NoManifest
<1> QED
  BY <1>7, <1>8 DEF both

\* What a session's step writes, apart from the manifest.
StepCatches(m, step) ==
    /\ step.writes \in Seq(WriteOrder)
    /\ Catches(m.closed, step.mem.closed, step.writes) /\ NoManifest(step.writes)

LEMMA CatchesNothing == \A old : Catches(old, old, <<>>) /\ NoManifest(<<>>)
BY DEF Catches, NoManifest

LEMMA CloseChunkCatches ==
    ASSUME NEW s \in Sessions, NEW m \in SessionState
    PROVE  StepCatches(m, CloseChunk(s, m))
<1>0. CloseChunk(s, m).writes \in Seq(WriteOrder)
  BY CloseChunkOK DEF StepOK, Grows
<1>1. CASE m.buffer = <<>>
  <2>1. CloseChunk(s, m).mem = m /\ CloseChunk(s, m).writes = <<>>
    BY <1>1 DEF CloseChunk, Step
  <2> QED
    BY <2>1, CatchesNothing DEF StepCatches
<1>2. CASE m.buffer # <<>>
  <2> DEFINE closed == Append(m.closed, m.buffer)
             chunk == ChunkWrite(s, Len(closed), m.buffer)
             index == IndexWrite(s, closed)
             writes == <<chunk, index>>
  <2>1. /\ CloseChunk(s, m).writes = writes
        /\ CloseChunk(s, m).mem = [m EXCEPT !.closed = closed, !.buffer = <<>>]
    BY <1>2 DEF CloseChunk, Step
  <2>2. CloseChunk(s, m).mem.closed = closed
    BY <2>1 DEF SessionState
  <2>3. chunk.file = "chunk" /\ index.file = "index" /\ index.content = closed
    BY DEF ChunkWrite, IndexWrite
  <2> HIDE DEF chunk, index, closed
  <2>4. Len(writes) = 2 /\ writes[1] = chunk /\ writes[2] = index
    OBVIOUS
  <2> HIDE DEF writes
  <2>5. \A i \in 1..2 : i = 1 \/ i = 2
    OBVIOUS
  <2>6. Catches(m.closed, closed, writes)
    BY <2>3, <2>4, <2>5 DEF Catches
  <2>7. NoManifest(writes)
    BY <2>3, <2>4, <2>5 DEF NoManifest
  <2> QED
    BY <1>0, <2>1, <2>2, <2>6, <2>7 DEF StepCatches
<1> QED
  BY <1>1, <1>2

LEMMA AppendRecordCatches ==
    ASSUME NEW s \in Sessions, NEW m, Tidy(m), NEW record \in Record
    PROVE  StepCatches(m, AppendRecord(s, m, record))
<1> DEFINE longer == Append(m.buffer, record)
           added == [m EXCEPT !.buffer = longer, !.seq = @ + 1]
<1>1. m \in SessionState /\ longer \in Chunk
  BY DEF Tidy, SessionState, Chunk
<1>2. added \in SessionState /\ added.closed = m.closed
  BY <1>1, WithRecord
<1>3. AppendRecord(s, m, record) =
        IF Len(added.buffer) >= RecordsPerChunk THEN CloseChunk(s, added) ELSE Step(added, <<>>)
  BY DEF AppendRecord
<1> HIDE DEF added
<1>4. CASE Len(added.buffer) >= RecordsPerChunk
  BY <1>2, <1>3, <1>4, CloseChunkCatches DEF StepCatches
<1>5. CASE ~(Len(added.buffer) >= RecordsPerChunk)
  <2>1. /\ AppendRecord(s, m, record).mem = added
        /\ AppendRecord(s, m, record).writes = <<>>
    BY <1>3, <1>5 DEF Step
  <2>2. <<>> \in Seq(WriteOrder)
    OBVIOUS
  <2> QED
    BY <1>2, <2>1, <2>2, CatchesNothing DEF StepCatches
<1> QED
  BY <1>4, <1>5

LEMMA AppendFrameCatches ==
    ASSUME NEW s \in Sessions, NEW m, Tidy(m), NEW span \in Span \cup {NoSpan}
    PROVE  StepCatches(m, AppendFrame(s, m, span))
<1> DEFINE tracked == Tracked(m, span)
           marked == IF SequenceGap(m, span)
                     THEN AppendGap(s, tracked, "update_id_gap")
                     ELSE Step(tracked, <<>>)
           between == [marked.mem EXCEPT !.frames = @ + 1]
           record == FrameRecord(marked.mem.seq, span)
           added == AppendRecord(s, between, record)
<1>1. AppendFrame(s, m, span).mem = added.mem
      /\ AppendFrame(s, m, span).writes = marked.writes \o added.writes
  BY DEF AppendFrame, Step
<1>2. Tidy(tracked) /\ tracked.closed = m.closed
  BY TrackedTidy
<1> HIDE DEF tracked
<1>3. Tidy(marked.mem) /\ StepCatches(m, marked)
  <2>1. CASE SequenceGap(m, span)
    <3>1. /\ marked = AppendRecord(s, tracked, GapRecord(tracked.seq, "update_id_gap"))
          /\ GapRecord(tracked.seq, "update_id_gap") \in Record
      BY <1>2, <2>1, GapRecordType DEF AppendGap
    <3>2. Tidy(marked.mem)
      BY <1>2, <3>1, AppendRecordOK DEF StepOK
    <3> HIDE DEF marked
    <3>3. StepCatches(tracked, marked)
      BY <1>2, <3>1, AppendRecordCatches
    <3> QED
      BY <1>2, <3>2, <3>3 DEF StepCatches
  <2>2. CASE ~SequenceGap(m, span)
    <3>1. marked.mem = tracked /\ marked.writes = <<>>
      BY <2>2 DEF Step
    <3>2. <<>> \in Seq(WriteOrder)
      OBVIOUS
    <3> QED
      BY <1>2, <3>1, <3>2, CatchesNothing DEF StepCatches
  <2> QED
    BY <2>1, <2>2
<1> HIDE DEF marked
<1>4. Tidy(between) /\ between.closed = marked.mem.closed
  BY <1>3, WithFrame DEF Tidy
<1>5. record \in Record
  BY <1>3 DEF FrameRecord, Record, Tidy, SessionState
<1> HIDE DEF between, record
<1>6. StepCatches(between, added)
  BY <1>4, <1>5, AppendRecordCatches
<1> HIDE DEF added
<1>7. /\ Catches(m.closed, added.mem.closed, marked.writes \o added.writes)
      /\ NoManifest(marked.writes \o added.writes)
      /\ marked.writes \o added.writes \in Seq(WriteOrder)
  BY <1>3, <1>4, <1>6, CatchesTwice DEF StepCatches
<1> QED
  BY <1>1, <1>7 DEF StepCatches

LEMMA MarkReconnectCatches ==
    ASSUME NEW s \in Sessions, NEW m, Tidy(m)
    PROVE  StepCatches(m, MarkReconnect(s, m))
<1> DEFINE record == GapRecord(m.seq, "connection_gap")
           marked == AppendGap(s, m, "connection_gap")
           after == [marked.mem EXCEPT !.connection_gaps = @ + 1, !.previous_last = None]
<1>1. MarkReconnect(s, m).mem = after /\ MarkReconnect(s, m).writes = marked.writes
  BY DEF MarkReconnect, Step
<1>2. marked = AppendRecord(s, m, record) /\ record \in Record
  BY GapRecordType DEF AppendGap
<1> HIDE DEF record, marked
<1>3. StepCatches(m, marked) /\ Tidy(marked.mem)
  BY <1>2, AppendRecordCatches, AppendRecordOK DEF StepOK
<1>4. after.closed = marked.mem.closed
  BY <1>3, WithReconnect DEF Tidy
<1> HIDE DEF after
<1> QED
  BY <1>1, <1>3, <1>4 DEF StepCatches

-----------------------------------------------------------------------------
LEMMA FinishInvInit == Init => FinishInv
<1> SUFFICES ASSUME Init PROVE FinishInv
  OBVIOUS
<1>1. /\ todo = <<>> /\ pc = "open" /\ session = 1
      /\ \A s \in Sessions : disk[s] = EmptyDirectory
  BY DEF Init
<1>2. \A s \in Sessions : ~Final(disk[s].manifest)
  BY <1>1 DEF EmptyDirectory, Final, Whole
<1>3. \A s \in Sessions : ~Opened(s)
  BY <1>1, CaptureAssumption DEF Opened, Sessions
<1>4. DOMAIN todo = {}
  BY <1>1
<1> QED
  BY <1>2, <1>3, <1>4 DEF FinishInv, DirectoryIsTrue

\* A step of a session that is being recorded, all that was to be written written.
LEMMA FinishInvStep ==
    ASSUME TypeOK, FinishInv, todo = <<>>, NEW s \in Sessions, Recording(s), NEW m,
           disk' = disk, mem' = [mem EXCEPT ![s] = m], todo' \in Seq(WriteOrder),
           Catches(mem[s].closed, m.closed, todo'),
           \A i \in 1..Len(todo') :
              /\ todo'[i].session = s
              /\ todo'[i].file = "manifest" =>
                    /\ i = Len(todo') /\ ~Recording(s)' /\ m.buffer = <<>>
                    /\ todo'[i].content.frames = m.frames,
           Opened(s)', \A r \in Sessions : Opened(r)' => Opened(r),
           \A r \in Sessions : Recording(r)' => Recording(r)
    PROVE  FinishInv'
<1>1. /\ mem'[s] = m /\ \A r \in Sessions : r # s => mem'[r] = mem[r]
      /\ DOMAIN todo' = 1..Len(todo') /\ Len(todo') \in Nat
  BY DEF TypeOK
<1>2. \A r \in Sessions : Recording(r) => ~Final(disk[r].manifest)
  <2>1. DOMAIN todo = {}
    OBVIOUS
  <2> QED
    BY <2>1 DEF FinishInv, Restarted
<1>3. \A r \in Sessions : DirectoryIsTrue(r)'
  BY <1>1, <1>2 DEF FinishInv, DirectoryIsTrue
<1>4. \A r \in Sessions : Recording(r)' => ~Final(disk'[r].manifest)
  BY <1>2
<1>5. \A r \in Sessions : Opened(r) =>
         disk[r].index # Torn /\ ReadIndex(disk[r]) = mem[r].closed
  BY DEF FinishInv, IndexFollows
<1>6. ASSUME NEW r \in Sessions, Opened(r)'
      PROVE  IndexFollows(r)'
  <2>0. disk'[r].index # Torn /\ ReadIndex(disk'[r]) = mem[r].closed
    BY <1>5, <1>6
  <2>1. CASE r = s
    <3>1. \A i \in DOMAIN todo' : Indexes(i, s)' <=> todo'[i].file = "index"
      BY <1>1 DEF Indexes
    <3>2. (\A i \in DOMAIN todo' : ~Indexes(i, s)') => m.closed = mem[s].closed
      BY <1>1, <3>1 DEF Catches
    <3>3. ASSUME NEW i \in DOMAIN todo', Indexes(i, s)',
                 \A j \in i + 1..Len(todo') : ~Indexes(j, s)'
          PROVE  todo'[i].content = m.closed
      <4>0. PICK k \in Nat : k = Len(todo') /\ DOMAIN todo' = 1..k
        BY <1>1
      <4>1. \A j \in i + 1..Len(todo') : j \in DOMAIN todo'
        <5>1. i \in 1..k
          BY <3>3, <4>0
        <5>2. \A j \in i + 1..k : j \in 1..k
          BY <5>1
        <5> QED
          BY <4>0, <5>2
      <4>2. \A j \in i + 1..Len(todo') : todo'[j].file # "index"
        BY <3>1, <3>3, <4>1
      <4> QED
        BY <1>1, <3>1, <3>3, <4>2 DEF Catches
    <3> QED
      BY <1>1, <2>0, <2>1, <3>2, <3>3 DEF IndexFollows
  <2>2. CASE r # s
    <3>1. \A i \in DOMAIN todo' : ~Indexes(i, r)'
      BY <1>1, <2>2 DEF Indexes
    <3> QED
      BY <1>1, <2>0, <2>2, <3>1 DEF IndexFollows
  <2> QED
    BY <2>1, <2>2
<1>7. ASSUME NEW i \in DOMAIN todo'
      PROVE  WriteInv(i)'
  <2>1. /\ todo'[i].session = s
        /\ todo'[i].file = "manifest" =>
              /\ i = Len(todo') /\ ~Recording(s)' /\ m.buffer = <<>>
              /\ todo'[i].content.frames = m.frames
    BY <1>1
  <2>2. ~Final(disk'[s].manifest)
    BY <1>2
  <2> QED
    BY <1>1, <2>1, <2>2 DEF WriteInv, Ends
<1> QED
  BY <1>3, <1>4, <1>6, <1>7 DEF FinishInv

\* A step that touches neither memory nor files, and opens no session.
LEMMA FinishInvUndisturbed ==
    ASSUME FinishInv, mem' = mem, disk' = disk, todo' = todo,
           todo = <<>> \/ (pc' = pc /\ session' = session),
           \A r \in Sessions : Opened(r)' => Opened(r),
           \A r \in Sessions : Recording(r)' => Recording(r)
    PROVE  FinishInv'
<1>1. \A r \in Sessions : DirectoryIsTrue(r)'
  BY DEF FinishInv, DirectoryIsTrue
<1>2. \A r \in Sessions : Recording(r)' => ~Final(disk'[r].manifest) \/ Restarted(r)'
  BY DEF FinishInv, Restarted
<1>3. \A r \in Sessions : Opened(r)' => IndexFollows(r)'
  BY DEF FinishInv, IndexFollows, Indexes
<1>4. \A i \in DOMAIN todo' : WriteInv(i)'
  <2>1. CASE todo = <<>>
    <3>1. DOMAIN todo' = {}
      BY <2>1
    <3> QED
      BY <3>1
  <2>2. CASE pc' = pc /\ session' = session
    <3>1. \A r : (Opened(r)' <=> Opened(r)) /\ (Recording(r)' <=> Recording(r))
      BY <2>2 DEF Opened, Recording, Running
    <3> QED
      BY <3>1 DEF FinishInv, WriteInv
  <2> QED
    BY <2>1, <2>2
<1> QED
  BY <1>1, <1>2, <1>3, <1>4 DEF FinishInv

\* The process is dead, and the manifests it left are as they were or not final.
LEMMA FinishInvOfTheDead ==
    ASSUME FinishInv, mem' = mem, todo' = <<>>, ~Running',
           \A r \in Sessions : Final(disk'[r].manifest) => disk'[r] = disk[r]
    PROVE  FinishInv'
<1>1. \A r \in Sessions : ~Opened(r)' /\ ~Recording(r)'
  BY DEF Opened, Recording
<1>2. DOMAIN todo' = {}
  OBVIOUS
<1>3. \A r \in Sessions : DirectoryIsTrue(r)'
  BY DEF FinishInv, DirectoryIsTrue
<1> QED
  BY <1>1, <1>2, <1>3 DEF FinishInv

\* A file written: the one file of the one directory, and no other.
LEMMA WrittenFile ==
    ASSUME NEW d, DOMAIN d = {"manifest", "chunks", "index"}, NEW w \in WriteOrder, NEW content
    PROVE  /\ Written(d, w, content).manifest = IF w.file = "manifest" THEN content ELSE d.manifest
           /\ Written(d, w, content).index = IF w.file = "index" THEN content ELSE d.index
<1>1. w.file \in {"manifest", "chunk", "index"}
  BY DEF WriteOrder
<1>2. CASE w.file = "manifest"
  <2>1. Written(d, w, content) = [d EXCEPT !.manifest = content]
    BY <1>2 DEF Written
  <2> QED
    BY <1>2, <2>1
<1>3. CASE w.file = "chunk"
  <2> DEFINE chunks == [n \in DOMAIN d.chunks \cup {w.number} |->
                           IF n = w.number THEN content ELSE d.chunks[n]]
  <2>1. Written(d, w, content) = [d EXCEPT !.chunks = chunks]
    BY <1>3 DEF Written
  <2> HIDE DEF chunks
  <2> QED
    BY <1>3, <2>1
<1>4. CASE w.file = "index"
  <2>1. Written(d, w, content) = [d EXCEPT !.index = content]
    BY <1>4 DEF Written
  <2> QED
    BY <1>4, <2>1
<1> QED
  BY <1>1, <1>2, <1>3, <1>4

LEMMA FinishInvWrite ==
    ASSUME TypeOK, StoreInv, FinishInv, Write
    PROVE  FinishInv'
<1> DEFINE L == Len(todo)
<1>1. /\ todo \in Seq(WriteOrder) /\ todo # <<>> /\ L \in Nat /\ L >= 1 /\ DOMAIN todo = 1..L
      /\ todo' = Tail(todo) /\ Len(todo') = L - 1 /\ DOMAIN todo' = 1..L - 1
      /\ \A i \in 1..L - 1 : todo'[i] = todo[i + 1]
      /\ Head(todo) = todo[1] /\ 1 \in DOMAIN todo
  BY DEF Write, StoreInv
<1>2. /\ mem' = mem /\ pc' = pc /\ session' = session
      /\ disk' = [disk EXCEPT ![Head(todo).session] = Written(@, Head(todo), Head(todo).content)]
      /\ DOMAIN disk = Sessions
  BY DEF Write, StoreInv
<1>3. \A r : (Opened(r)' <=> Opened(r)) /\ (Recording(r)' <=> Recording(r))
  BY <1>2 DEF Opened, Recording, Running
<1>4. PICK w \in WriteOrder : w = todo[1]
  BY <1>1
<1>5. PICK s \in Sessions : s = w.session
  BY DEF WriteOrder
<1>6. /\ disk'[s].manifest = IF w.file = "manifest" THEN w.content ELSE disk[s].manifest
      /\ disk'[s].index = IF w.file = "index" THEN w.content ELSE disk[s].index
      /\ \A r \in Sessions : r # s => disk'[r] = disk[r]
  <2>1. DOMAIN disk[s] = {"manifest", "chunks", "index"}
    BY DEF StoreInv, FilesInv
  <2>2. disk'[s] = Written(disk[s], w, w.content)
    BY <1>1, <1>2, <1>4, <1>5
  <2>3. \A r \in Sessions : r # s => disk'[r] = disk[r]
    BY <1>1, <1>2, <1>4, <1>5
  <2> QED
    BY <2>1, <2>2, <2>3, WrittenFile
<1>7. /\ Opened(s) /\ (Starts(w) \/ ~Final(disk[s].manifest))
      /\ Ends(w) => /\ L = 1 /\ ~Recording(s) /\ mem[s].buffer = <<>>
                    /\ w.content.frames = mem[s].frames
      /\ IndexFollows(s)
  BY <1>1, <1>4, <1>5 DEF FinishInv, WriteInv
<1> HIDE DEF L
\* Only the final manifest makes a directory final.
<1>8. Final(disk'[s].manifest) => Ends(w)
  BY <1>6, <1>7 DEF Starts, Ends
<1>9. ASSUME NEW r \in Sessions
      PROVE  DirectoryIsTrue(r)'
  <2>1. CASE r # s
    BY <1>2, <1>6, <2>1 DEF FinishInv, DirectoryIsTrue
  <2>2. CASE r = s /\ Final(disk'[s].manifest)
    <3>1. /\ w.file = "manifest" /\ L = 1 /\ mem[s].buffer = <<>>
          /\ w.content.frames = mem[s].frames
      BY <1>7, <1>8, <2>2 DEF Ends
    <3>2. \A i \in DOMAIN todo : ~Indexes(i, s)
      BY <1>1, <1>4, <3>1 DEF Indexes
    <3>3. disk[s].index # Torn /\ ReadIndex(disk[s]) = mem[s].closed
      BY <1>7, <3>2 DEF IndexFollows
    <3>4. disk'[s].index = disk[s].index /\ disk'[s].manifest = w.content
      BY <1>6, <3>1
    <3> QED
      BY <1>2, <2>2, <3>1, <3>3, <3>4 DEF DirectoryIsTrue, ReadIndex
  <2>3. CASE r = s /\ ~Final(disk'[s].manifest)
    BY <2>3 DEF DirectoryIsTrue
  <2> QED
    BY <2>1, <2>2, <2>3
<1>10. ASSUME NEW r \in Sessions, Recording(r)'
       PROVE  ~Final(disk'[r].manifest) \/ Restarted(r)'
  <2>1. CASE r = s
    BY <1>3, <1>7, <1>8, <1>10, <2>1
  <2>2. CASE r # s
    <3>1. CASE ~Final(disk[r].manifest)
      BY <1>6, <2>2, <3>1
    <3>2. CASE Restarted(r)
      <4>1. PICK i \in DOMAIN todo : todo[i].session = r /\ Starts(todo[i])
        BY <3>2 DEF Restarted
      <4>2. i # 1
        BY <1>4, <1>5, <2>2, <4>1
      <4>3. i - 1 \in DOMAIN todo' /\ todo'[i - 1] = todo[i]
        <5>1. i - 1 \in 1..L - 1 /\ (i - 1) + 1 = i
          BY <1>1, <4>2
        <5> QED
          BY <1>1, <5>1
      <4> QED
        BY <4>1, <4>3 DEF Restarted
    <3> QED
      BY <1>3, <1>10, <3>1, <3>2 DEF FinishInv
  <2> QED
    BY <2>1, <2>2
<1>11. ASSUME NEW r \in Sessions, Opened(r)'
       PROVE  IndexFollows(r)'
  <2>1. IndexFollows(r)
    BY <1>3, <1>11 DEF FinishInv
  <2>2. \A i \in DOMAIN todo' :
           /\ i + 1 \in DOMAIN todo /\ todo'[i] = todo[i + 1]
           /\ Indexes(i, r)' <=> Indexes(i + 1, r)
    <3>1. \A i \in DOMAIN todo' : i + 1 \in DOMAIN todo /\ todo'[i] = todo[i + 1]
      BY <1>1
    <3> QED
      BY <3>1 DEF Indexes
  <2>3. ASSUME NEW i \in DOMAIN todo', Indexes(i, r)',
               \A j \in i + 1..Len(todo') : ~Indexes(j, r)'
        PROVE  todo'[i].content = mem'[r].closed
    <3>0. i \in 1..L - 1 /\ DOMAIN todo' = 1..L - 1 /\ Len(todo') = L - 1
      BY <1>1, <2>3
    <3>1. \A j \in (i + 1) + 1..L : ~Indexes(j, r)
      <4>1. \A j \in (i + 1) + 1..L :
               j - 1 \in i + 1..L - 1 /\ j - 1 \in 1..L - 1 /\ (j - 1) + 1 = j
        BY <1>1, <3>0
      <4> QED
        BY <2>2, <2>3, <3>0, <4>1
    <3>2. todo[i + 1].content = mem[r].closed
      BY <2>1, <2>2, <2>3, <3>1 DEF IndexFollows, L
    <3> QED
      BY <1>2, <2>2, <3>2
  <2>4. ASSUME \A i \in DOMAIN todo' : ~Indexes(i, r)'
        PROVE  disk'[r].index # Torn /\ ReadIndex(disk'[r]) = mem'[r].closed
    <3>1. \A i \in DOMAIN todo : i # 1 => ~Indexes(i, r)
      <4>1. \A i \in DOMAIN todo : i # 1 => i - 1 \in DOMAIN todo' /\ (i - 1) + 1 = i
        BY <1>1
      <4> QED
        BY <2>2, <2>4, <4>1
    <3>2. CASE Indexes(1, r)
      <4>1. r = s /\ w.file = "index"
        BY <1>4, <1>5, <3>2 DEF Indexes
      <4>2. \A j \in 1 + 1..L : ~Indexes(j, r)
        <5>1. \A j \in 1 + 1..L : j \in DOMAIN todo /\ j # 1
          BY <1>1
        <5> QED
          BY <3>1, <5>1
      <4>3. w.content = mem[r].closed
        BY <1>1, <1>4, <2>1, <3>2, <4>2 DEF IndexFollows, L
      <4>4. w.content \in Seq(Chunk) /\ w.content # <<>>
        <5>1. IndexOrderInv(1)
          BY <1>1 DEF StoreInv
        <5> QED
          BY <1>4, <4>1, <5>1 DEF IndexOrderInv, WriteOrder
      <4>5. disk'[r].index = w.content
        BY <1>6, <4>1
      <4>6. w.content \notin {None, Torn}
        BY <4>4, FilesAssumption
      <4> QED
        BY <1>2, <4>3, <4>5, <4>6 DEF ReadIndex
    <3>3. CASE ~Indexes(1, r)
      <4>1. \A i \in DOMAIN todo : ~Indexes(i, r)
        BY <3>1, <3>3
      <4>2. disk[r].index # Torn /\ ReadIndex(disk[r]) = mem[r].closed
        BY <2>1, <4>1 DEF IndexFollows
      <4>3. disk'[r].index = disk[r].index
        BY <1>1, <1>4, <1>5, <1>6, <3>3 DEF Indexes
      <4> QED
        BY <1>2, <4>2, <4>3 DEF ReadIndex
    <3> QED
      BY <3>2, <3>3
  <2> QED
    BY <2>3, <2>4 DEF IndexFollows
<1>12. ASSUME NEW i \in DOMAIN todo'
       PROVE  WriteInv(i)'
  <2>1. /\ i + 1 \in DOMAIN todo /\ todo'[i] = todo[i + 1] /\ L # 1
        /\ i + 1 = L => i = Len(todo')
    BY <1>1
  <2>2. WriteInv(i + 1)
    BY <2>1 DEF FinishInv
  <2>3. todo[i + 1].session = s => ~Final(disk'[s].manifest)
    BY <1>7, <1>8, <2>1
  <2>4. todo[i + 1] \in WriteOrder /\ todo[i + 1].session \in Sessions
    <3>1. todo[i + 1] \in WriteOrder
      BY <1>1, <2>1
    <3> QED
      BY <3>1 DEF WriteOrder
  <2>5. Starts(todo'[i]) \/ ~Final(disk'[todo'[i].session].manifest)
    BY <1>6, <2>1, <2>2, <2>3, <2>4 DEF WriteInv
  <2>0. PICK v \in WriteOrder : v = todo[i + 1]
    BY <2>4
  <2>6. /\ Opened(v.session)
        /\ Ends(v) =>
              /\ i + 1 = L /\ ~Recording(v.session)
              /\ mem[v.session].buffer = <<>>
              /\ v.content.frames = mem[v.session].frames
    BY <2>0, <2>2 DEF WriteInv, L
  <2>7. todo'[i] = v
    BY <2>0, <2>1
  <2>8. /\ Opened(v.session)'
        /\ Ends(v) =>
              /\ i = Len(todo') /\ ~Recording(v.session)'
              /\ mem'[v.session].buffer = <<>>
              /\ v.content.frames = mem'[v.session].frames
    BY <1>2, <1>3, <2>1, <2>6
  <2> QED
    BY <2>5, <2>7, <2>8 DEF WriteInv
<1> QED
  BY <1>9, <1>10, <1>11, <1>12 DEF FinishInv

\* A write cut short leaves no final manifest that was not there before.
LEMMA FinishInvTear ==
    ASSUME TypeOK, StoreInv, FinishInv, TearWrite
    PROVE  FinishInv'
<1>1. PICK w \in WriteOrder : w = Head(todo) /\ w = todo[1] /\ 1 \in DOMAIN todo
  BY DEF TearWrite, StoreInv
<1>2. PICK s \in Sessions : s = w.session
  BY DEF WriteOrder
<1>3. /\ mem' = mem /\ todo' = <<>> /\ pc' = "dead" /\ DOMAIN disk = Sessions
      /\ disk' = [disk EXCEPT ![s] = Written(@, w, Torn)]
  BY <1>1, <1>2 DEF TearWrite, StoreInv
<1>4. /\ disk'[s].manifest = IF w.file = "manifest" THEN Torn ELSE disk[s].manifest
      /\ \A r \in Sessions : r # s => disk'[r] = disk[r]
  <2>1. DOMAIN disk[s] = {"manifest", "chunks", "index"}
    BY DEF StoreInv, FilesInv
  <2>2. disk'[s] = Written(disk[s], w, Torn) /\ \A r \in Sessions : r # s => disk'[r] = disk[r]
    BY <1>3
  <2> QED
    BY <2>1, <2>2, WrittenFile
<1>5. Starts(w) \/ ~Final(disk[s].manifest)
  BY <1>1, <1>2 DEF FinishInv, WriteInv
<1>6. ~Final(disk'[s].manifest)
  BY <1>4, <1>5 DEF Starts, Final, Whole
<1>7. \A r \in Sessions : Final(disk'[r].manifest) => disk'[r] = disk[r]
  BY <1>4, <1>6
<1>8. ~Running'
  BY <1>3 DEF Running
<1> QED
  BY <1>3, <1>7, <1>8, FinishInvOfTheDead

\* Starting again in a directory whose manifest is final: it holds no chunk, so
\* what ended there recorded nothing.
LEMMA FinishInvOpen ==
    ASSUME Inv, LogInv, FinishInv, OpenSession
    PROVE  FinishInv'
<1>1. PICK k \in Sessions : k = session
  BY DEF Inv, TypeOK
<1> DEFINE start == ManifestWrite(k, InProgress)
<1>2. /\ pc = "open" /\ todo = <<>> /\ disk' = disk /\ todo' = <<start>>
      /\ FilesInv(k) /\ DOMAIN disk[k].chunks = {}
  BY <1>1 DEF OpenSession, At, HasChunks, Inv, StoreInv
<1>3. disk[k].index = None /\ ReadIndex(disk[k]) = <<>>
  BY <1>2 DEF FilesInv, HasChunks, ReadIndex
<1>4. /\ mem' = [mem EXCEPT ![k] = FreshSession(<<>>)]
      /\ \/ pc' = "connect" /\ k = NumSessions
         \/ pc' = "open" /\ session' = k + 1
  BY <1>1, <1>2, <1>3 DEF OpenSession
<1>5. /\ mem'[k].closed = <<>> /\ mem'[k].buffer = <<>> /\ mem'[k].frames = 0
      /\ \A r \in Sessions : r # k => mem'[r] = mem[r]
  BY <1>4 DEF FreshSession, Inv, TypeOK
<1>6. /\ start.file = "manifest" /\ start.session = k /\ Starts(start) /\ ~Ends(start)
  BY DEF ManifestWrite, InProgress, Starts, Ends, Final
<1> HIDE DEF start
<1>7. todo'[1] = start /\ DOMAIN todo' = {1} /\ DOMAIN todo = {}
  <2>1. Len(<<start>>) = 1 /\ <<start>>[1] = start /\ DOMAIN <<start>> = {1}
    OBVIOUS
  <2> QED
    BY <1>2, <2>1
<1>8. Opened(k)' /\ \A r \in Sessions : r # k /\ Opened(r)' => Opened(r)
  <2>1. \A r \in Sessions : r \in Int /\ r <= NumSessions /\ NumSessions \in Int
    BY CaptureAssumption DEF Sessions
  <2>2. Opened(k)'
    BY <1>4, <2>1 DEF Opened, Running
  <2>3. \A r \in Sessions : r # k /\ Opened(r)' => r < k
    BY <1>4, <2>1 DEF Opened
  <2> QED
    BY <1>1, <1>2, <2>2, <2>3 DEF Opened, Running
<1>9. \A r \in Sessions : Opened(r) => Recording(r)
  BY <1>2 DEF Opened, Recording
<1>10. ASSUME NEW r \in Sessions
       PROVE  DirectoryIsTrue(r)'
  <2>1. CASE r # k
    BY <1>2, <1>5, <2>1 DEF FinishInv, DirectoryIsTrue
  <2>2. CASE r = k /\ Final(disk[k].manifest)
    <3>1. /\ disk[k].index # Torn /\ mem[k].closed = <<>> /\ mem[k].buffer = <<>>
          /\ disk[k].manifest.frames = mem[k].frames
      BY <1>3, <2>2 DEF FinishInv, DirectoryIsTrue
    <3>2. Log(mem[k]) = <<>>
      BY <3>1, FlattenEmpty DEF Log
    <3>3. Of(Log(mem[k]), "frame") = {}
      BY <3>2 DEF Of
    <3>4. mem[k].frames = 0
      BY <3>3, FS_EmptySet DEF LogInv, Tells
    <3> QED
      BY <1>2, <1>3, <1>5, <2>2, <3>1, <3>4 DEF DirectoryIsTrue
  <2>3. CASE r = k /\ ~Final(disk[k].manifest)
    BY <1>2, <2>3 DEF DirectoryIsTrue
  <2> QED
    BY <2>1, <2>2, <2>3
<1>11. ASSUME NEW r \in Sessions, Recording(r)'
       PROVE  ~Final(disk'[r].manifest) \/ Restarted(r)'
  <2>1. CASE r = k
    BY <1>6, <1>7, <2>1 DEF Restarted
  <2>2. CASE r # k
    <3>1. Opened(r)'
      BY <1>11 DEF Recording, Opened
    <3>2. Recording(r)
      BY <1>8, <1>9, <2>2, <3>1
    <3> QED
      BY <1>2, <1>7, <3>2 DEF FinishInv, Restarted
  <2> QED
    BY <2>1, <2>2
<1>12. ASSUME NEW r \in Sessions, Opened(r)'
       PROVE  IndexFollows(r)'
  <2>1. \A i \in DOMAIN todo' : ~Indexes(i, r)'
    BY <1>6, <1>7 DEF Indexes
  <2>2. disk[r].index # Torn /\ ReadIndex(disk[r]) = mem'[r].closed
    <3>1. CASE r = k
      <4>1. None # Torn
        BY CaptureAssumption
      <4> QED
        BY <1>3, <1>5, <3>1, <4>1
    <3>2. CASE r # k
      <4>1. Opened(r)
        BY <1>8, <1>12, <3>2
      <4>2. IndexFollows(r)
        BY <4>1 DEF FinishInv
      <4> QED
        BY <1>5, <1>7, <3>2, <4>2 DEF IndexFollows
    <3> QED
      BY <3>1, <3>2
  <2> QED
    BY <1>2, <2>1, <2>2 DEF IndexFollows
<1>13. ASSUME NEW i \in DOMAIN todo'
       PROVE  WriteInv(i)'
  <2>1. todo'[i] = start
    BY <1>7
  <2> QED
    BY <1>6, <1>8, <2>1 DEF WriteInv
<1> QED
  BY <1>10, <1>11, <1>12, <1>13 DEF FinishInv

LEMMA FinishInvNext == Inv /\ LogInv /\ FinishInv /\ [Next]_vars => FinishInv'
<1> SUFFICES ASSUME Inv, LogInv, FinishInv, [Next]_vars PROVE FinishInv'
  OBVIOUS
<1>1. /\ TypeOK /\ StoreInv /\ session \in Sessions
      /\ \A s \in Sessions : Tidy(mem[s])
      /\ \A r \in Sessions : r \in Int /\ r >= 1
  BY CaptureAssumption DEF Inv, TypeOK, Tidy, Sessions
\* A step in a session, without a manifest.
<1>2. ASSUME todo = <<>>, pc \in {"read", "mark"}, pc' \in {"top", "mark"}, disk' = disk,
             NEW s \in Sessions, NEW step, StepOK(s, mem[s], step), StepCatches(mem[s], step),
             mem' = [mem EXCEPT ![s] = step.mem], todo' = step.writes
      PROVE  FinishInv'
  <2>1. Recording(s) /\ Opened(s)'
    BY <1>2 DEF Recording, Opened, Running
  <2>2. \A r \in Sessions : Opened(r) /\ Recording(r)
    BY <1>2 DEF Recording, Opened, Running
  <2>3. /\ todo' \in Seq(WriteOrder) /\ Catches(mem[s].closed, step.mem.closed, todo')
        /\ \A i \in 1..Len(todo') : todo'[i].session = s /\ todo'[i].file # "manifest"
    BY <1>2 DEF StepOK, Grows, StepCatches, NoManifest
  <2> QED
    BY <1>1, <1>2, <2>1, <2>2, <2>3, FinishInvStep
<1>3. CASE OpenSession
  BY <1>3, FinishInvOpen
<1>4. ASSUME NEW s \in Sessions, NEW span \in Frames[s], ReadFrame(s, span)
      PROVE  FinishInv'
  <2>1. span \in Span \cup {NoSpan}
    BY CaptureAssumption
  <2>2. /\ StepOK(s, mem[s], AppendFrame(s, mem[s], span))
        /\ StepCatches(mem[s], AppendFrame(s, mem[s], span))
    BY <1>1, <2>1, AppendFrameOK, AppendFrameCatches
  <2>3. /\ todo = <<>> /\ pc = "read" /\ pc' = "top" /\ disk' = disk
        /\ mem' = [mem EXCEPT ![s] = AppendFrame(s, mem[s], span).mem]
        /\ todo' = AppendFrame(s, mem[s], span).writes
    BY <1>4 DEF ReadFrame, At
  <2> QED
    BY <1>2, <2>2, <2>3
<1>5. CASE MarkSession
  <2>1. PICK k \in Sessions : k = session
    BY <1>1
  <2>2. /\ StepOK(k, mem[k], MarkReconnect(k, mem[k]))
        /\ StepCatches(mem[k], MarkReconnect(k, mem[k]))
    BY <1>1, MarkReconnectOK, MarkReconnectCatches
  <2>3. /\ todo = <<>> /\ pc = "mark" /\ pc' \in {"top", "mark"} /\ disk' = disk
        /\ mem' = [mem EXCEPT ![k] = MarkReconnect(k, mem[k]).mem]
        /\ todo' = MarkReconnect(k, mem[k]).writes
    BY <1>5, <2>1 DEF MarkSession, At
  <2> QED
    BY <1>2, <2>2, <2>3
<1>6. CASE FinishSession
  <2>1. PICK k \in Sessions : k = session
    BY <1>1
  <2> DEFINE step == CloseChunk(k, mem[k])
             content == [frames |-> mem[k].frames, stop |-> reason]
             last == ManifestWrite(k, content)
  <2>2. /\ todo = <<>> /\ pc = "finish" /\ disk' = disk
        /\ \/ pc' = "flush"
           \/ pc' = "finish" /\ session' = k + 1
        /\ mem' = [mem EXCEPT ![k] = step.mem] /\ todo' = Append(step.writes, last)
    BY <1>6, <2>1 DEF FinishSession, At
  <2>3. /\ step.mem.buffer = <<>> /\ step.mem.frames = mem[k].frames
        /\ StepCatches(mem[k], step) /\ StepOK(k, mem[k], step)
    <3>1. mem[k] \in SessionState
      BY <1>1 DEF Tidy
    <3> QED
      BY <3>1, CloseChunkLog, CloseChunkCatches, CloseChunkOK
  <2>4. /\ last.file = "manifest" /\ last.session = k /\ last.content.frames = mem[k].frames
        /\ last \in WriteOrder
    <3>1. content \in Manifest
      BY <1>1 DEF Manifest, TypeOK, SessionState
    <3>2. last \in WriteOrder
      BY <3>1 DEF ManifestWrite, WriteOrder, Manifest
    <3> QED
      BY <3>2 DEF ManifestWrite
  <2> HIDE DEF step, last
  <2>5. /\ step.writes \in Seq(WriteOrder) /\ Len(step.writes) \in Nat
        /\ Catches(mem[k].closed, step.mem.closed, step.writes)
        /\ \A i \in 1..Len(step.writes) :
              step.writes[i].session = k /\ step.writes[i].file # "manifest"
    BY <2>3 DEF StepOK, Grows, StepCatches, NoManifest
  <2>6. Append(step.writes, last) = step.writes \o <<last>> /\ <<last>> \in Seq(WriteOrder)
    BY <2>4, <2>5
  <2>7. Catches(step.mem.closed, step.mem.closed, <<last>>)
    <3>1. Len(<<last>>) = 1 /\ <<last>>[1] = last
      OBVIOUS
    <3>2. \A i \in 1..1 : <<last>>[i].file = "manifest"
      BY <2>4, <3>1
    <3> QED
      BY <3>1, <3>2 DEF Catches
  <2>8. Catches(mem[k].closed, step.mem.closed, todo') /\ todo' \in Seq(WriteOrder)
    <3>1. Catches(mem[k].closed, step.mem.closed, step.writes \o <<last>>)
      BY <2>5, <2>6, <2>7, CatchesTwice
    <3> QED
      BY <2>2, <2>4, <2>5, <2>6, <3>1
  <2>9. Recording(k) /\ Opened(k)' /\ ~Recording(k)'
    <3>1. Recording(k) /\ Opened(k)'
      BY <1>1, <2>1, <2>2 DEF Recording, Opened, Running
    <3>2. k \in Int
      BY <1>1
    <3>3. pc' = "finish" => session' = k + 1
      BY <2>2
    <3>4. ~(k + 1 <= k)
      BY <3>2
    <3> QED
      BY <2>2, <3>1, <3>3, <3>4 DEF Recording
  <2>10. \A r \in Sessions : (Opened(r)' => Opened(r)) /\ (Recording(r)' => Recording(r))
    <3>1. \A r \in Sessions : Opened(r)
      BY <2>2 DEF Opened, Running
    <3>2. \A r \in Sessions : Recording(r)' => k + 1 <= r
      BY <2>2 DEF Recording
    <3>3. \A r \in Sessions : k + 1 <= r => k <= r
      BY <1>1
    <3> QED
      BY <2>1, <2>2, <3>1, <3>2, <3>3 DEF Recording, Running
  <2>11. ASSUME NEW i \in 1..Len(todo')
         PROVE  /\ todo'[i].session = k
                /\ todo'[i].file = "manifest" =>
                      /\ i = Len(todo') /\ ~Recording(k)' /\ step.mem.buffer = <<>>
                      /\ todo'[i].content.frames = step.mem.frames
    <3>1. /\ Len(todo') = Len(step.writes) + 1 /\ todo'[Len(step.writes) + 1] = last
          /\ \A j \in 1..Len(step.writes) : todo'[j] = step.writes[j]
      BY <2>2, <2>5
    <3>2. i \in 1..Len(step.writes) \/ i = Len(step.writes) + 1
      BY <2>5, <2>11, <3>1
    <3> QED
      BY <2>3, <2>4, <2>5, <2>9, <3>1, <3>2
  <2> QED
    BY <1>1, <2>2, <2>8, <2>9, <2>10, <2>11, FinishInvStep
<1>7. CASE Write
  BY <1>1, <1>7, FinishInvWrite
<1>8. CASE TearWrite
  BY <1>1, <1>8, FinishInvTear
<1>9. CASE Crash
  <2>1. mem' = mem /\ todo' = <<>> /\ ~Running' /\ disk' = disk
    BY <1>9 DEF Crash, Running
  <2> QED
    BY <2>1, FinishInvOfTheDead
<1>10. CASE Quiet
  <2>1. mem' = mem /\ disk' = disk /\ todo' = todo
    BY <1>10 DEF Quiet, RefuseSession, Connect, ConnectFails, LoopTop, ReadUnknown, ReadNothing,
                 Disconnect, Backoff, Reconnect, ReconnectFails, Return, Interrupt, Elapse,
                 Restart, files, vars
  <2>2. /\ todo = <<>> \/ (pc' = pc /\ session' = session)
        /\ \A r \in Sessions : Opened(r)' => Opened(r)
        /\ \A r \in Sessions : Recording(r)' => Recording(r)
    <3>1. CASE RefuseSession \/ ConnectFails \/ Return
      <4>1. todo = <<>> /\ ~Running'
        BY <3>1 DEF RefuseSession, ConnectFails, Return, At, Running
      <4>2. \A r \in Sessions : ~Opened(r)' /\ ~Recording(r)'
        BY <4>1 DEF Opened, Recording
      <4> QED
        BY <4>1, <4>2
    <3>2. CASE \/ Connect \/ LoopTop \/ ReadUnknown \/ ReadNothing
               \/ \E why \in {"venue_close", "read_error"} : Disconnect(why)
               \/ Backoff \/ Reconnect \/ ReconnectFails
      <4>1. todo = <<>> /\ pc \in {"connect", "top", "read", "backoff", "reconnect"}
        BY <3>2 DEF Connect, LoopTop, ReadUnknown, ReadNothing, Disconnect, Backoff, Reconnect,
                    ReconnectFails, At
      <4>2. \A r \in Sessions : Opened(r) /\ Recording(r)
        BY <4>1 DEF Opened, Recording, Running
      <4> QED
        BY <4>1, <4>2
    <3>3. CASE Interrupt \/ Elapse \/ UNCHANGED vars
      <4>1. pc' = pc /\ session' = session
        BY <3>3 DEF Interrupt, Elapse, vars
      <4> QED
        BY <4>1 DEF Opened, Recording, Running
    <3>4. CASE Restart
      <4>1. pc' = "open" /\ session' = 1 /\ todo = <<>>
        BY <1>1, <3>4 DEF Restart, StoreInv
      <4>2. \A r \in Sessions : ~(r < 1)
        BY <1>1
      <4>3. \A r \in Sessions : ~Opened(r)' /\ ~Recording(r)'
        BY <4>1, <4>2 DEF Opened, Recording
      <4> QED
        BY <4>1, <4>3
    <3> QED
      BY <1>10, <3>1, <3>2, <3>3, <3>4 DEF Quiet
  <2> QED
    BY <2>1, <2>2, FinishInvUndisturbed
<1> QED
  BY <1>3, <1>4, <1>5, <1>6, <1>7, <1>8, <1>9, <1>10 DEF Next, Process, Dial, Quiet

LEMMA FinishInvariance == Spec => [](Inv /\ LogInv /\ FinishInv)
BY InitInv, LogInvInit, FinishInvInit, NextInv, LogInvNext, FinishInvNext, PTL DEF Spec

\* However many runs died before it, a manifest that says the capture ended stands
\* beside an index from which all the session received can be read back, in order and
\* with its gaps marked, and counts the frames of it.
THEOREM FinalManifestIsTrueTheorem == Spec => []FinalManifestIsTrue
<1>1. Inv /\ LogInv /\ FinishInv => FinalManifestIsTrue
  <2> SUFFICES ASSUME Inv, LogInv, FinishInv, NEW s \in Sessions,
                      Whole(disk[s].manifest), disk[s].manifest.stop # "in_progress"
      PROVE  /\ disk[s].index # Torn
             /\ Summary(FlattenSeq(ReadIndex(disk[s]))) = Annotated(received[s])
             /\ disk[s].manifest.frames
                    = Cardinality({i \in DOMAIN received[s] : received[s][i] # Cut})
    BY DEF FinalManifestIsTrue
  <2>1. /\ disk[s].index # Torn /\ ReadIndex(disk[s]) = mem[s].closed /\ mem[s].buffer = <<>>
        /\ disk[s].manifest.frames = mem[s].frames
    BY DEF FinishInv, DirectoryIsTrue, Final
  <2>2. /\ Summary(Log(mem[s])) = Annotated(received[s])
        /\ mem[s].frames = Cardinality(Arrived(received[s]))
    BY DEF LogInv, Tells
  <2>3. Log(mem[s]) = FlattenSeq(mem[s].closed)
    <3>1. Log(mem[s]) = FlattenSeq(mem[s].closed) \o <<>>
      BY <2>1 DEF Log
    <3>2. mem[s].closed \in Seq(Seq(Record))
      BY DEF Inv, TypeOK, SessionState, Chunk
    <3>3. FlattenSeq(mem[s].closed) \in Seq(Record)
      BY <3>2, FlattenType
    <3> QED
      BY <3>1, <3>3
  <2> QED
    BY <2>1, <2>2, <2>3 DEF Arrived
<1> QED
  BY <1>1, FinishInvariance, PTL

-----------------------------------------------------------------------------
(* The walk of the audit, record by record.                                *)

ReportType ==
    [expected_seq : Nat, previous_last : Ids \cup {None}, venue_frames : Nat,
     connection_gaps : Nat, update_id_gaps : Nat, seq_breaks : Nat]

\* The reports after each record, as Audit defines them by recursion.
IsWalk(g, log) ==
    g = [i \in 0..Len(log) |-> IF i = 0 THEN EmptyReport ELSE Audited(g[i - 1], log[i])]

LEMMA AuditIsWalk ==
    ASSUME NEW log
    PROVE  Audit(log) = (CHOOSE g : IsWalk(g, log))[Len(log)]
BY DEF Audit, IsWalk

LEMMA WalkExists ==
    ASSUME NEW log \in Seq(Record)
    PROVE  \E g : IsWalk(g, log)
<1> DEFINE Upto(g, n) ==
               g = [i \in 0..n |-> IF i = 0 THEN EmptyReport ELSE Audited(g[i - 1], log[i])]
           S == {n \in Nat : \E g : Upto(g, n)}
<1>1. 0 \in S
  <2> DEFINE g == [i \in 0..0 |-> EmptyReport]
  <2>1. Upto(g, 0)
    OBVIOUS
  <2> HIDE DEF g, Upto
  <2> QED
    BY <2>1
<1>2. ASSUME NEW n \in Nat, n \in S
      PROVE  n + 1 \in S
  <2>1. PICK g : Upto(g, n)
    BY <1>2
  <2> DEFINE h == [i \in 0..n + 1 |-> IF i = 0 THEN EmptyReport ELSE Audited(g[i - 1], log[i])]
  <2>2. \A i \in 0..n : h[i] = g[i]
    <3>1. \A i \in 0..n : g[i] = IF i = 0 THEN EmptyReport ELSE Audited(g[i - 1], log[i])
      BY <2>1
    <3>2. \A i \in 0..n : i \in 0..n + 1
      OBVIOUS
    <3> QED
      BY <3>1, <3>2
  <2>3. \A i \in 0..n + 1 : i # 0 => i - 1 \in 0..n
    OBVIOUS
  <2>4. h = [i \in 0..n + 1 |-> IF i = 0 THEN EmptyReport ELSE Audited(h[i - 1], log[i])]
    BY <2>2, <2>3
  <2> HIDE DEF h
  <2>5. Upto(h, n + 1)
    BY <2>4
  <2> HIDE DEF Upto
  <2> QED
    BY <2>5
<1>3. Nat \subseteq S
  <2> HIDE DEF S
  <2> QED
    BY <1>1, <1>2, SetInduction
<1>4. \E g : Upto(g, Len(log))
  <2> HIDE DEF Upto
  <2> QED
    BY <1>3
<1> QED
  BY <1>4 DEF IsWalk

\* Two walks agree as long as their logs do.
LEMMA WalksAgree ==
    ASSUME NEW log \in Seq(Record), NEW more \in Seq(Record), NEW g, NEW h,
           Len(log) <= Len(more), \A i \in 1..Len(log) : log[i] = more[i],
           IsWalk(g, log), IsWalk(h, more)
    PROVE  \A i \in 0..Len(log) : g[i] = h[i]
<1> DEFINE S == {n \in Nat : n <= Len(log) => g[n] = h[n]}
<1>1. Len(log) \in Nat /\ Len(more) \in Nat
  OBVIOUS
<1>2. \A i \in 0..Len(log) : g[i] = IF i = 0 THEN EmptyReport ELSE Audited(g[i - 1], log[i])
  BY DEF IsWalk
<1>3. \A i \in 0..Len(more) : h[i] = IF i = 0 THEN EmptyReport ELSE Audited(h[i - 1], more[i])
  BY DEF IsWalk
<1>4. 0 \in S
  BY <1>1, <1>2, <1>3
<1>5. ASSUME NEW n \in Nat, n \in S
      PROVE  n + 1 \in S
  <2> SUFFICES ASSUME n + 1 <= Len(log)
      PROVE  g[n + 1] = h[n + 1]
    OBVIOUS
  <2>1. n + 1 \in 0..Len(log) /\ n + 1 \in 0..Len(more) /\ n + 1 # 0 /\ (n + 1) - 1 = n
    BY <1>1
  <2>2. g[n] = h[n] /\ log[n + 1] = more[n + 1]
    BY <1>1, <1>5
  <2> QED
    BY <1>2, <1>3, <2>1, <2>2
<1>6. Nat \subseteq S
  <2> HIDE DEF S
  <2> QED
    BY <1>4, <1>5, SetInduction
<1> QED
  BY <1>6

\* One more record is judged after the others.
LEMMA AuditAppend ==
    ASSUME NEW log \in Seq(Record), NEW record \in Record
    PROVE  Audit(Append(log, record)) = Audited(Audit(log), record)
<1> DEFINE more == Append(log, record)
           n == Len(log)
<1>1. /\ more \in Seq(Record) /\ n \in Nat /\ Len(more) = n + 1 /\ more[n + 1] = record
      /\ n <= Len(more) /\ \A i \in 1..n : log[i] = more[i]
  OBVIOUS
<1> HIDE DEF more
<1>2. PICK g : IsWalk(g, log) /\ Audit(log) = g[n]
  BY AuditIsWalk, WalkExists
<1>3. PICK h : IsWalk(h, more) /\ Audit(more) = h[n + 1]
  BY <1>1, AuditIsWalk, WalkExists
<1>4. g[n] = h[n]
  BY <1>1, <1>2, <1>3, WalksAgree
<1>5. h[n + 1] = Audited(h[n], more[n + 1])
  <2>1. n + 1 \in 0..Len(more) /\ n + 1 # 0 /\ (n + 1) - 1 = n
    BY <1>1
  <2> QED
    BY <1>3, <2>1 DEF IsWalk
<1> QED
  BY <1>1, <1>2, <1>3, <1>4, <1>5 DEF more

LEMMA AuditEmpty == Audit(<<>>) = EmptyReport
<1> DEFINE empty == <<>>
<1>1. empty \in Seq(Record) /\ Len(empty) = 0
  OBVIOUS
<1> HIDE DEF empty
<1>2. PICK g : IsWalk(g, empty) /\ Audit(empty) = g[0]
  BY <1>1, AuditIsWalk, WalkExists
<1> QED
  BY <1>1, <1>2 DEF IsWalk, empty

LEMMA EmptyReportType == EmptyReport \in ReportType
BY DEF EmptyReport, ReportType

-----------------------------------------------------------------------------
(* What the stream shows, one item more at a time.                         *)

Hole(stream, i) ==
    /\ ShowsGap(stream, i)
    /\ \E j \in 1..i - 1 : IsBaseline(stream, j, i) /\ stream[i].first > stream[j].last

LEMMA ShownPast ==
    ASSUME NEW stream \in Seq(StreamItems), NEW x \in StreamItems, NEW i \in 1..Len(stream)
    PROVE  /\ ShowsGap(Append(stream, x), i) <=> ShowsGap(stream, i)
           /\ Hole(Append(stream, x), i) <=> Hole(stream, i)
<1> DEFINE more == Append(stream, x)
<1>1. Len(stream) \in Nat /\ \A k \in 1..Len(stream) : more[k] = stream[k]
  OBVIOUS
<1> HIDE DEF more
<1>2. ASSUME NEW j \in 1..i - 1
      PROVE  /\ IsBaseline(more, j, i) <=> IsBaseline(stream, j, i)
             /\ more[j] = stream[j] /\ more[i] = stream[i]
  <2>1. \A k \in j + 1..i - 1 : k \in 1..Len(stream)
    BY <1>1
  <2>2. j \in 1..Len(stream) /\ i \in 1..Len(stream)
    BY <1>1
  <2> QED
    BY <1>1, <2>1, <2>2 DEF IsBaseline
<1>3. ShowsGap(more, i) <=> ShowsGap(stream, i)
  BY <1>2 DEF ShowsGap
<1>4. Hole(more, i) <=> Hole(stream, i)
  BY <1>2, <1>3 DEF Hole
<1> QED
  BY <1>3, <1>4 DEF more

LEMMA ShownAppend ==
    ASSUME NEW stream \in Seq(StreamItems), NEW x \in StreamItems
    PROVE  LET more == Append(stream, x)
               n == Len(stream) + 1
           IN  /\ Cardinality(GapsShown(stream)) \in Nat
               /\ Cardinality(HolesShown(stream)) \in Nat
               /\ Cardinality(Cuts(stream)) \in Nat
               /\ Cardinality(GapsShown(more))
                      = Cardinality(GapsShown(stream)) + (IF ShowsGap(more, n) THEN 1 ELSE 0)
               /\ Cardinality(HolesShown(more))
                      = Cardinality(HolesShown(stream)) + (IF Hole(more, n) THEN 1 ELSE 0)
               /\ Cardinality(Cuts(more))
                      = Cardinality(Cuts(stream)) + (IF x = Cut THEN 1 ELSE 0)
<1> DEFINE more == Append(stream, x)
           n == Len(stream)
<1>1. /\ n \in Nat /\ DOMAIN stream = 1..n /\ DOMAIN more = 1..n + 1
      /\ \A i \in 1..n : more[i] = stream[i]
      /\ more[n + 1] = x
      /\ 1..n + 1 = (1..n) \cup {n + 1} /\ n + 1 \notin 1..n
  OBVIOUS
<1>2. \A i \in 1..n : /\ ShowsGap(more, i) <=> ShowsGap(stream, i)
                      /\ Hole(more, i) <=> Hole(stream, i)
  BY ShownPast
<1> HIDE DEF more, n
<1> DEFINE G == GapsShown(stream)
           H == HolesShown(stream)
           C == Cuts(stream)
<1>3. G \in SUBSET (1..n) /\ H \in SUBSET (1..n) /\ C \in SUBSET (1..n)
  BY <1>1 DEF GapsShown, HolesShown, Cuts
<1>4. GapsShown(more) = IF ShowsGap(more, n + 1) THEN G \cup {n + 1} ELSE G
  BY <1>1, <1>2 DEF GapsShown
<1>5. HolesShown(more) = IF Hole(more, n + 1) THEN H \cup {n + 1} ELSE H
  <2>1. HolesShown(more) = {i \in DOMAIN more : Hole(more, i)}
    BY DEF HolesShown, GapsShown, Hole
  <2>2. H = {i \in DOMAIN stream : Hole(stream, i)}
    BY DEF HolesShown, GapsShown, Hole
  <2> HIDE DEF H
  <2> QED
    BY <1>1, <1>2, <2>1, <2>2
<1>6. Cuts(more) = IF x = Cut THEN C \cup {n + 1} ELSE C
  BY <1>1 DEF Cuts
<1> HIDE DEF G, H, C
<1>7. \A S \in {G, H, C} :
         Cardinality(S) \in Nat /\ Cardinality(S \cup {n + 1}) = Cardinality(S) + 1
  BY <1>1, <1>3, NextPosition
<1>8. /\ Cardinality(GapsShown(more))
             = Cardinality(G) + (IF ShowsGap(more, n + 1) THEN 1 ELSE 0)
      /\ Cardinality(HolesShown(more)) = Cardinality(H) + (IF Hole(more, n + 1) THEN 1 ELSE 0)
      /\ Cardinality(Cuts(more)) = Cardinality(C) + (IF x = Cut THEN 1 ELSE 0)
  BY <1>4, <1>5, <1>6, <1>7
<1> QED
  BY <1>7, <1>8 DEF more, n, G, H, C

\* The audit's rule sees a jump exactly where the stream shows a hole.
LEMMA HoleIsShown ==
    ASSUME NEW stream \in Seq(StreamItems), NEW span \in Span,
           NEW m \in SessionState, Tracks(m, stream)
    PROVE  Hole(Append(stream, span), Len(stream) + 1) <=> JumpsForward(m.previous_last, span)
<1> DEFINE more == Append(stream, span)
           n == Len(stream)
<1>1. /\ n \in Nat /\ DOMAIN stream = 1..n
      /\ \A i \in 1..n : more[i] = stream[i]
      /\ more[n + 1] = span /\ (n + 1) - 1 = n
  OBVIOUS
<1> HIDE DEF more, n
<1>2. n = Len(stream)
  BY DEF n
<1>3. span # NoSpan /\ span # Cut /\ span.first \in Nat /\ MaxId \in Nat
  BY CaptureAssumption DEF Span, Ids
<1>4. ASSUME NEW j \in 1..n
      PROVE  IsBaseline(more, j, n + 1) <=> Latest(stream, j)
  <2>1. \A k \in j + 1..n : more[k] = stream[k]
    BY <1>1
  <2> QED
    BY <1>1, <1>2, <1>3, <2>1 DEF IsBaseline, Latest
<1>5. ShowsGap(more, n + 1) <=> SequenceGap(m, span)
  BY GapIsShown DEF more, n
<1>6. (\E j \in 1..n : IsBaseline(more, j, n + 1) /\ span.first > more[j].last)
      <=> m.previous_last # None /\ span.first > m.previous_last
  <2>1. (\E j \in 1..n : IsBaseline(more, j, n + 1) /\ span.first > more[j].last)
        <=> \E j \in 1..n : Latest(stream, j) /\ span.first > stream[j].last
    BY <1>1, <1>4
  <2>2. CASE m.previous_last = None
    BY <1>1, <2>1, <2>2 DEF Tracks
  <2>3. CASE m.previous_last # None
    <3>1. PICK j \in 1..n : Latest(stream, j) /\ stream[j].last = m.previous_last
      BY <1>1, <2>3 DEF Tracks
    <3>2. ASSUME NEW k \in 1..n, Latest(stream, k)
          PROVE  k = j
      <4>1. CASE k < j
        <5>1. j \in k + 1..n
          BY <1>1, <4>1
        <5> QED
          BY <1>2, <3>1, <3>2, <5>1 DEF Latest
      <4>2. CASE k > j
        <5>1. k \in j + 1..n
          BY <1>1, <4>2
        <5> QED
          BY <1>2, <3>1, <3>2, <5>1 DEF Latest
      <4> QED
        BY <1>1, <4>1, <4>2
    <3> QED
      BY <2>1, <2>3, <3>1, <3>2
  <2> QED
    BY <2>2, <2>3
<1>7. Hole(more, n + 1) <=>
          SequenceGap(m, span) /\ m.previous_last # None /\ span.first > m.previous_last
  BY <1>1, <1>5, <1>6 DEF Hole
<1>8. m.previous_last # None => m.previous_last \in Nat
  BY <1>3 DEF SessionState, Ids
<1>9. JumpsForward(m.previous_last, span) <=>
          SequenceGap(m, span) /\ m.previous_last # None /\ span.first > m.previous_last
  BY <1>3, <1>8 DEF JumpsForward, SequenceGap
<1> QED
  BY <1>7, <1>9 DEF more, n

-----------------------------------------------------------------------------
(* The records and the verdict.                                            *)

LEMMA AuditedMarker ==
    ASSUME NEW report \in ReportType, NEW record \in Record,
           record.seq = report.expected_seq, record.kind # "frame"
    PROVE  LET r == Audited(report, record)
           IN  /\ r \in ReportType
               /\ r.expected_seq = report.expected_seq + 1 /\ r.seq_breaks = report.seq_breaks
               /\ r.venue_frames = report.venue_frames
               /\ record.kind = "update_id_gap" =>
                     /\ r.update_id_gaps = report.update_id_gaps + 1
                     /\ r.connection_gaps = report.connection_gaps
                     /\ r.previous_last = report.previous_last
               /\ record.kind = "connection_gap" =>
                     /\ r.update_id_gaps = report.update_id_gaps
                     /\ r.connection_gaps = report.connection_gaps + 1
                     /\ r.previous_last = None
<1> DEFINE numbered == Numbered(report, record)
           breaks == IF record.seq = report.expected_seq
                     THEN report.seq_breaks ELSE report.seq_breaks + 1
           next == record.seq + 1
<1>1. numbered = [report EXCEPT !.seq_breaks = breaks, !.expected_seq = next]
  BY DEF Numbered
<1>2. breaks = report.seq_breaks /\ next = report.expected_seq + 1
      /\ breaks \in Nat /\ next \in Nat
  BY DEF ReportType
<1> HIDE DEF breaks, next
<1>3. /\ numbered \in ReportType
      /\ numbered.expected_seq = report.expected_seq + 1
      /\ numbered.seq_breaks = report.seq_breaks
      /\ numbered.venue_frames = report.venue_frames
      /\ numbered.update_id_gaps = report.update_id_gaps
      /\ numbered.connection_gaps = report.connection_gaps
      /\ numbered.previous_last = report.previous_last
  BY <1>1, <1>2 DEF ReportType
<1>4. Audited(report, record) = AuditMarker(numbered, record)
  BY DEF Audited
<1> HIDE DEF numbered
<1>5. CASE record.kind = "update_id_gap"
  <2> DEFINE r == [numbered EXCEPT !.update_id_gaps = @ + 1]
  <2>1. Audited(report, record) = r
    BY <1>4, <1>5 DEF AuditMarker
  <2>2. /\ r \in ReportType
        /\ r.expected_seq = numbered.expected_seq /\ r.seq_breaks = numbered.seq_breaks
        /\ r.venue_frames = numbered.venue_frames
        /\ r.update_id_gaps = numbered.update_id_gaps + 1
        /\ r.connection_gaps = numbered.connection_gaps
        /\ r.previous_last = numbered.previous_last
    BY <1>3 DEF ReportType
  <2> HIDE DEF r
  <2> QED
    BY <1>3, <1>5, <2>1, <2>2
<1>6. CASE record.kind = "connection_gap"
  <2> DEFINE none == None
             r == [numbered EXCEPT !.connection_gaps = @ + 1, !.previous_last = none]
  <2>1. Audited(report, record) = r
    BY <1>4, <1>6 DEF AuditMarker
  <2>2. /\ r \in ReportType
        /\ r.expected_seq = numbered.expected_seq /\ r.seq_breaks = numbered.seq_breaks
        /\ r.venue_frames = numbered.venue_frames
        /\ r.update_id_gaps = numbered.update_id_gaps
        /\ r.connection_gaps = numbered.connection_gaps + 1
        /\ r.previous_last = none
    <3>1. none \in Ids \cup {None} /\ numbered.connection_gaps + 1 \in Nat
      BY <1>3 DEF ReportType
    <3> HIDE DEF none
    <3>2. r \in ReportType
      BY <1>3, <3>1 DEF ReportType
    <3>3. r.connection_gaps = numbered.connection_gaps + 1 /\ r.previous_last = none
      BY <1>3 DEF ReportType
    <3>4. /\ r.expected_seq = numbered.expected_seq /\ r.seq_breaks = numbered.seq_breaks
          /\ r.venue_frames = numbered.venue_frames
          /\ r.update_id_gaps = numbered.update_id_gaps
      BY <1>3 DEF ReportType
    <3> QED
      BY <3>2, <3>3, <3>4
  <2> HIDE DEF r
  <2> QED
    BY <1>3, <1>6, <2>1, <2>2
<1> QED
  BY <1>5, <1>6 DEF Record

LEMMA AuditedFrame ==
    ASSUME NEW report \in ReportType, NEW record \in Record,
           record.seq = report.expected_seq, record.kind = "frame"
    PROVE  LET r == Audited(report, record)
               jump == record.span # NoSpan /\ JumpsForward(report.previous_last, record.span)
           IN  /\ r \in ReportType
               /\ r.expected_seq = report.expected_seq + 1 /\ r.seq_breaks = report.seq_breaks
               /\ r.venue_frames = report.venue_frames + 1
               /\ r.connection_gaps = report.connection_gaps
               /\ r.update_id_gaps = report.update_id_gaps + (IF jump THEN 1 ELSE 0)
               /\ r.previous_last = IF record.span = NoSpan THEN report.previous_last
                                    ELSE record.span.last
<1> DEFINE numbered == Numbered(report, record)
           breaks == IF record.seq = report.expected_seq
                     THEN report.seq_breaks ELSE report.seq_breaks + 1
           next == record.seq + 1
<1>1. numbered = [report EXCEPT !.seq_breaks = breaks, !.expected_seq = next]
  BY DEF Numbered
<1>2. breaks = report.seq_breaks /\ next = report.expected_seq + 1
      /\ breaks \in Nat /\ next \in Nat
  BY DEF ReportType
<1> HIDE DEF breaks, next
<1>3. /\ numbered \in ReportType
      /\ numbered.expected_seq = report.expected_seq + 1
      /\ numbered.seq_breaks = report.seq_breaks
      /\ numbered.venue_frames = report.venue_frames
      /\ numbered.update_id_gaps = report.update_id_gaps
      /\ numbered.connection_gaps = report.connection_gaps
      /\ numbered.previous_last = report.previous_last
  BY <1>1, <1>2 DEF ReportType
<1>4. Audited(report, record) = AuditFrame(numbered, record)
  BY DEF Audited
<1> HIDE DEF numbered
<1> DEFINE counted == [numbered EXCEPT !.venue_frames = @ + 1]
<1>5. /\ counted \in ReportType
      /\ counted.expected_seq = numbered.expected_seq /\ counted.seq_breaks = numbered.seq_breaks
      /\ counted.venue_frames = numbered.venue_frames + 1
      /\ counted.update_id_gaps = numbered.update_id_gaps
      /\ counted.connection_gaps = numbered.connection_gaps
      /\ counted.previous_last = numbered.previous_last
  BY <1>3 DEF ReportType
<1>6. CASE record.span = NoSpan
  <2>1. Audited(report, record) = counted
    BY <1>4, <1>6 DEF AuditFrame
  <2> HIDE DEF counted
  <2>2. report.update_id_gaps \in Nat
    BY DEF ReportType
  <2> QED
    BY <1>3, <1>5, <1>6, <2>1, <2>2
<1>7. CASE record.span # NoSpan
  <2> DEFINE jump == JumpsForward(numbered.previous_last, record.span)
             last == record.span.last
             gaps == IF jump THEN counted.update_id_gaps + 1 ELSE counted.update_id_gaps
             r == [counted EXCEPT !.previous_last = last, !.update_id_gaps = gaps]
  <2>1. Audited(report, record) = r
    BY <1>4, <1>7 DEF AuditFrame
  <2> HIDE DEF counted
  <2>2. last \in Ids /\ gaps \in Nat
    BY <1>5, <1>7 DEF ReportType, Record, Span
  <2>3. gaps = report.update_id_gaps + (IF jump THEN 1 ELSE 0)
    BY <1>3, <1>5 DEF ReportType
  <2> HIDE DEF last, gaps, jump
  <2>4. /\ r \in ReportType
        /\ r.expected_seq = counted.expected_seq /\ r.seq_breaks = counted.seq_breaks
        /\ r.venue_frames = counted.venue_frames
        /\ r.update_id_gaps = gaps
        /\ r.connection_gaps = counted.connection_gaps
        /\ r.previous_last = last
    BY <1>5, <2>2 DEF ReportType
  <2> HIDE DEF r
  <2> QED
    BY <1>3, <1>5, <1>7, <2>1, <2>3, <2>4 DEF jump, last
<1> QED
  BY <1>6, <1>7

-----------------------------------------------------------------------------
\* What the audit would report of the records a session has, in terms of what the
\* session received.
Judges(m, stream) ==
    LET report == Audit(Log(m))
    IN  /\ report \in ReportType
        /\ report.expected_seq = m.seq /\ report.seq_breaks = 0
        /\ report.previous_last = m.previous_last
        /\ report.venue_frames = m.frames
        /\ report.connection_gaps = Cardinality(Cuts(stream))
        /\ report.update_id_gaps =
              Cardinality(GapsShown(stream)) + Cardinality(HolesShown(stream))

LEMMA JudgesFresh == Judges(FreshSession(<<>>), <<>>)
<1> DEFINE empty == <<>>
           fresh == FreshSession(empty)
<1>1. fresh.seq = 0 /\ fresh.frames = 0 /\ fresh.previous_last = None
  BY DEF FreshSession
<1>2. Log(fresh) = empty
  <2>1. fresh.closed = empty /\ fresh.buffer = <<>>
    BY DEF FreshSession
  <2> QED
    BY <2>1, FlattenEmpty DEF Log
<1>3. Audit(empty) = EmptyReport
  BY AuditEmpty
<1>4. GapsShown(empty) = {} /\ HolesShown(empty) = {} /\ Cuts(empty) = {}
  BY DEF GapsShown, HolesShown, Cuts
<1> HIDE DEF empty, fresh
<1>5. Judges(fresh, empty)
  BY <1>1, <1>2, <1>3, <1>4, EmptyReportType, FS_EmptySet DEF Judges, EmptyReport
<1> QED
  BY <1>5 DEF fresh, empty

LEMMA JudgesCut ==
    ASSUME NEW s \in Sessions, NEW m \in SessionState, NEW stream \in Seq(StreamItems),
           Judges(m, stream)
    PROVE  Judges(MarkReconnect(s, m).mem, Append(stream, Cut))
<1> DEFINE n == MarkReconnect(s, m).mem
           more == Append(stream, Cut)
           marker == GapRecord(m.seq, "connection_gap")
           report == Audit(Log(m))
<1>1. /\ n \in SessionState /\ Log(n) = Append(Log(m), marker)
      /\ n.seq = m.seq + 1 /\ n.frames = m.frames /\ n.previous_last = None
  BY MarkReconnectLog
<1> HIDE DEF n
<1>2. /\ marker \in Record /\ marker.seq = m.seq /\ marker.kind = "connection_gap"
  BY DEF GapRecord, Record, SessionState
<1>3. Cut \in StreamItems
  BY DEF StreamItems
<1>4. Audit(Log(n)) = Audited(report, marker)
  BY <1>1, <1>2, LogType, AuditAppend
<1>5. /\ Cardinality(GapsShown(more)) = Cardinality(GapsShown(stream))
      /\ Cardinality(HolesShown(more)) = Cardinality(HolesShown(stream))
      /\ Cardinality(Cuts(more)) = Cardinality(Cuts(stream)) + 1
  <2>1. more[Len(stream) + 1] = Cut
    OBVIOUS
  <2> HIDE DEF more
  <2>2. \A j : ~IsBaseline(more, j, Len(stream) + 1)
    BY <2>1 DEF IsBaseline
  <2>3. ~ShowsGap(more, Len(stream) + 1) /\ ~Hole(more, Len(stream) + 1)
    BY <2>2 DEF ShowsGap, Hole
  <2> QED
    BY <1>3, <2>3, ShownAppend DEF more
<1> HIDE DEF more, marker, report
<1>6. /\ report \in ReportType
      /\ report.expected_seq = m.seq /\ report.seq_breaks = 0
      /\ report.previous_last = m.previous_last
      /\ report.venue_frames = m.frames
      /\ report.connection_gaps = Cardinality(Cuts(stream))
      /\ report.update_id_gaps =
            Cardinality(GapsShown(stream)) + Cardinality(HolesShown(stream))
  BY DEF Judges, report
<1> DEFINE after == Audited(report, marker)
<1>7. /\ after \in ReportType
      /\ after.expected_seq = report.expected_seq + 1 /\ after.seq_breaks = report.seq_breaks
      /\ after.venue_frames = report.venue_frames
      /\ after.update_id_gaps = report.update_id_gaps
      /\ after.connection_gaps = report.connection_gaps + 1
      /\ after.previous_last = None
  BY <1>2, <1>6, AuditedMarker
<1> HIDE DEF after
<1>8. Judges(n, more)
  BY <1>1, <1>4, <1>5, <1>6, <1>7 DEF Judges, after
<1> QED
  BY <1>8 DEF n, more

LEMMA JudgesFrame ==
    ASSUME NEW s \in Sessions, NEW m \in SessionState, NEW span \in Span \cup {NoSpan},
           NEW stream \in Seq(StreamItems), Tracks(m, stream), Judges(m, stream)
    PROVE  Judges(AppendFrame(s, m, span).mem, Append(stream, span))
<1> DEFINE n == AppendFrame(s, m, span).mem
           more == Append(stream, span)
           marker == GapRecord(m.seq, "update_id_gap")
           log == Log(m)
           report == Audit(log)
           gap == SequenceGap(m, span)
           jump == span # NoSpan /\ JumpsForward(m.previous_last, span)
<1>1. /\ n \in SessionState
      /\ gap =>
             /\ Log(n) = Append(Append(log, marker), FrameRecord(m.seq + 1, span))
             /\ n.seq = m.seq + 2
      /\ ~gap =>
             /\ Log(n) = Append(log, FrameRecord(m.seq, span))
             /\ n.seq = m.seq + 1
      /\ n.frames = m.frames + 1
      /\ n.previous_last = IF span = NoSpan THEN m.previous_last ELSE span.last
  BY AppendFrameLog
<1> HIDE DEF n
<1>2. span \in StreamItems /\ span # Cut
  BY CaptureAssumption DEF StreamItems
<1>3. m.seq \in Nat /\ m.frames \in Nat /\ log \in Seq(Record)
  BY LogType DEF SessionState
<1>4. /\ report \in ReportType
      /\ report.expected_seq = m.seq /\ report.seq_breaks = 0
      /\ report.previous_last = m.previous_last
      /\ report.venue_frames = m.frames
      /\ report.connection_gaps = Cardinality(Cuts(stream))
      /\ report.update_id_gaps =
            Cardinality(GapsShown(stream)) + Cardinality(HolesShown(stream))
  BY DEF Judges
<1>5. /\ Cardinality(GapsShown(stream)) \in Nat /\ Cardinality(HolesShown(stream)) \in Nat
      /\ Cardinality(GapsShown(more)) = Cardinality(GapsShown(stream)) + (IF gap THEN 1 ELSE 0)
      /\ Cardinality(HolesShown(more)) = Cardinality(HolesShown(stream)) + (IF jump THEN 1 ELSE 0)
      /\ Cardinality(Cuts(more)) = Cardinality(Cuts(stream))
  <2>1. ShowsGap(more, Len(stream) + 1) <=> gap
    BY GapIsShown
  <2>2. Hole(more, Len(stream) + 1) <=> jump
    <3>1. CASE span = NoSpan
      BY <2>1, <3>1 DEF Hole, SequenceGap
    <3>2. CASE span # NoSpan
      BY <3>2, HoleIsShown
    <3> QED
      BY <3>1, <3>2
  <2>3. Cardinality(Cuts(stream)) \in Nat
    BY <1>2, ShownAppend
  <2> HIDE DEF gap, jump
  <2> QED
    BY <1>2, <2>1, <2>2, <2>3, ShownAppend
<1>6. jump => gap
  <2>1. m.previous_last # None => m.previous_last \in Nat
    BY DEF SessionState, Ids
  <2>2. span # NoSpan => span.first \in Nat
    BY DEF Span, Ids
  <2> QED
    BY <2>1, <2>2, CaptureAssumption DEF JumpsForward, SequenceGap
<1>7. /\ marker \in Record /\ marker.seq = m.seq /\ marker.kind = "update_id_gap"
  BY <1>3 DEF GapRecord, Record
<1>8. \A seq \in Nat :
         /\ FrameRecord(seq, span) \in Record /\ FrameRecord(seq, span).seq = seq
         /\ FrameRecord(seq, span).kind = "frame" /\ FrameRecord(seq, span).span = span
  BY DEF FrameRecord, Record
<1>9. CASE ~gap
  <2> DEFINE frame == FrameRecord(m.seq, span)
             after == Audited(report, frame)
  <2>1. frame \in Record /\ frame.seq = m.seq /\ frame.kind = "frame" /\ frame.span = span
    BY <1>3, <1>8
  <2>2. Log(n) = Append(log, frame)
    BY <1>1, <1>9
  <2> HIDE DEF frame
  <2>3. Audit(Log(n)) = after
    BY <1>3, <2>1, <2>2, AuditAppend
  <2> HIDE DEF report, log
  <2>4. /\ after \in ReportType
        /\ after.expected_seq = report.expected_seq + 1 /\ after.seq_breaks = report.seq_breaks
        /\ after.venue_frames = report.venue_frames + 1
        /\ after.connection_gaps = report.connection_gaps
        /\ after.update_id_gaps = report.update_id_gaps + (IF jump THEN 1 ELSE 0)
        /\ after.previous_last = IF span = NoSpan THEN report.previous_last ELSE span.last
    BY <1>4, <2>1, AuditedFrame
  <2> HIDE DEF after, more, jump, gap
  <2>5. ~jump
    BY <1>6, <1>9
  <2>6. after.update_id_gaps = Cardinality(GapsShown(more)) + Cardinality(HolesShown(more))
    BY <1>4, <1>5, <1>9, <2>4, <2>5
  <2> QED
    BY <1>1, <1>4, <1>5, <1>9, <2>3, <2>4, <2>6 DEF Judges, n, more
<1>10. CASE gap
  <2> DEFINE frame == FrameRecord(m.seq + 1, span)
             between == Audited(report, marker)
             after == Audited(between, frame)
  <2>1. /\ frame \in Record /\ frame.seq = m.seq + 1 /\ frame.kind = "frame"
        /\ frame.span = span
    BY <1>3, <1>8
  <2>2. Log(n) = Append(Append(log, marker), frame)
    BY <1>1, <1>10
  <2> HIDE DEF frame, marker
  <2>3. Audit(Log(n)) = after
    <3>1. Append(log, marker) \in Seq(Record)
      BY <1>3, <1>7
    <3>2. Audit(Append(log, marker)) = between
      BY <1>3, <1>7, AuditAppend
    <3> QED
      BY <2>1, <2>2, <3>1, <3>2, AuditAppend
  <2> HIDE DEF report, log
  <2>4. /\ between \in ReportType
        /\ between.expected_seq = report.expected_seq + 1
        /\ between.seq_breaks = report.seq_breaks
        /\ between.venue_frames = report.venue_frames
        /\ between.update_id_gaps = report.update_id_gaps + 1
        /\ between.connection_gaps = report.connection_gaps
        /\ between.previous_last = report.previous_last
    BY <1>4, <1>7, AuditedMarker
  <2> HIDE DEF between
  <2>5. /\ after \in ReportType
        /\ after.expected_seq = between.expected_seq + 1
        /\ after.seq_breaks = between.seq_breaks
        /\ after.venue_frames = between.venue_frames + 1
        /\ after.connection_gaps = between.connection_gaps
        /\ after.update_id_gaps = between.update_id_gaps + (IF jump THEN 1 ELSE 0)
        /\ after.previous_last = IF span = NoSpan THEN between.previous_last ELSE span.last
    BY <1>4, <2>1, <2>4, AuditedFrame
  <2> HIDE DEF after, more, jump, gap
  <2>6. after.update_id_gaps = Cardinality(GapsShown(more)) + Cardinality(HolesShown(more))
    BY <1>4, <1>5, <1>10, <2>4, <2>5
  <2>7. after.expected_seq = n.seq
    BY <1>1, <1>3, <1>4, <1>10, <2>4, <2>5
  <2> QED
    BY <1>1, <1>4, <1>5, <2>3, <2>4, <2>5, <2>6, <2>7 DEF Judges, n, more
<1> QED
  BY <1>9, <1>10

-----------------------------------------------------------------------------
JudgesInv == \A s \in Sessions : Judges(mem[s], received[s])

LEMMA JudgesInvInit == Init => JudgesInv
<1> SUFFICES ASSUME Init PROVE JudgesInv
  OBVIOUS
<1>1. \A s \in Sessions : mem[s] = FreshSession(<<>>) /\ received[s] = <<>>
  BY DEF Init
<1> QED
  BY <1>1, JudgesFresh DEF JudgesInv

LEMMA JudgesInvNext == Inv /\ LogInv /\ JudgesInv /\ [Next]_vars => JudgesInv'
<1> SUFFICES ASSUME Inv, LogInv, JudgesInv, [Next]_vars, NEW s \in Sessions
    PROVE  Judges(mem'[s], received'[s])
  BY DEF JudgesInv
<1>1. /\ mem[s] \in SessionState /\ received[s] \in Seq(StreamItems)
      /\ Tracks(mem[s], received[s]) /\ Judges(mem[s], received[s])
  BY DEF Inv, TypeOK, LogInv, Tells, JudgesInv
<1>2. CASE Stays(s)
  BY <1>1, <1>2 DEF Stays, Same, Judges
<1>3. CASE Begins(s)
  BY <1>3, JudgesFresh DEF Begins
<1>4. CASE GetsCut(s)
  BY <1>1, <1>4, JudgesCut DEF GetsCut
<1>5. ASSUME NEW span \in Span \cup {NoSpan}, GetsFrame(s, span)
      PROVE  Judges(mem'[s], received'[s])
  BY <1>1, <1>5, JudgesFrame DEF GetsFrame
<1> QED
  BY <1>2, <1>3, <1>4, <1>5, SessionChange DEF LogInv

LEMMA JudgesInvariance == Spec => [](Inv /\ LogInv /\ FinishInv /\ JudgesInv)
BY InitInv, LogInvInit, FinishInvInit, JudgesInvInit,
   NextInv, LogInvNext, FinishInvNext, JudgesInvNext, PTL DEF Spec

\* What is on disk behind a final manifest.
LEMMA RecordsOfTheEnded ==
    ASSUME Inv, FinishInv, NEW s \in Sessions, Final(disk[s].manifest)
    PROVE  /\ Readable(disk[s])
           /\ Records(disk[s]) = Log(mem[s])
           /\ disk[s].manifest.frames = mem[s].frames
<1>1. /\ disk[s].index # Torn /\ ReadIndex(disk[s]) = mem[s].closed /\ mem[s].buffer = <<>>
      /\ disk[s].manifest.frames = mem[s].frames
  BY DEF FinishInv, DirectoryIsTrue
<1>2. Readable(disk[s])
  <2>1. Whole(disk[s].manifest) /\ FilesInv(s)
    BY DEF Final, Inv, StoreInv
  <2>2. CASE disk[s].index = None
    <3>1. DOMAIN ReadIndex(disk[s]) = {}
      BY <2>2 DEF ReadIndex
    <3> QED
      BY <1>1, <2>1, <3>1 DEF Readable
  <2>3. CASE disk[s].index # None
    <3>1. Whole(disk[s].index) /\ ReadIndex(disk[s]) = disk[s].index
      BY <1>1, <2>3 DEF Whole, ReadIndex
    <3> QED
      BY <1>1, <2>1, <3>1 DEF Readable, FilesInv, OnDisk
  <2> QED
    BY <2>2, <2>3
<1>3. Log(mem[s]) = FlattenSeq(mem[s].closed)
  <2>1. Log(mem[s]) = FlattenSeq(mem[s].closed) \o <<>>
    BY <1>1 DEF Log
  <2>2. mem[s].closed \in Seq(Seq(Record))
    BY DEF Inv, TypeOK, SessionState, Chunk
  <2>3. FlattenSeq(mem[s].closed) \in Seq(Record)
    BY <2>2, FlattenType
  <2> QED
    BY <2>1, <2>3
<1> QED
  BY <1>1, <1>2, <1>3 DEF Records

\* The audit reads every capture that ended, finds no fault of the recorder's in it,
\* and reports each cut once, each repeat once and each hole twice: by the marker the
\* recorder left and by its own rule.
THEOREM EndedIsJudgedByItsStreamTheorem == Spec => []EndedIsJudgedByItsStream
<1>1. Inv /\ LogInv /\ FinishInv /\ JudgesInv => EndedIsJudgedByItsStream
  <2> SUFFICES ASSUME Inv, FinishInv, JudgesInv, NEW s \in Sessions, Ended(disk[s])
      PROVE  /\ Readable(disk[s])
             /\ Report(disk[s]).seq_breaks = 0
             /\ ~ManifestMismatch(disk[s])
             /\ Report(disk[s]).connection_gaps = Cardinality(Cuts(received[s]))
             /\ Report(disk[s]).update_id_gaps =
                   Cardinality(GapsShown(received[s])) + Cardinality(HolesShown(received[s]))
    BY DEF EndedIsJudgedByItsStream
  <2>1. /\ Readable(disk[s]) /\ Records(disk[s]) = Log(mem[s])
        /\ disk[s].manifest.frames = mem[s].frames
    BY RecordsOfTheEnded DEF Ended, Final
  <2>2. Judges(mem[s], received[s]) /\ Report(disk[s]) = Audit(Log(mem[s]))
    BY <2>1 DEF JudgesInv, Report
  <2> QED
    BY <2>1, <2>2 DEF Judges, ManifestMismatch
<1> QED
  BY <1>1, JudgesInvariance, PTL

-----------------------------------------------------------------------------
\* A manifest that can be read and does not say the capture ended counts no frame.
Blank(file) == Whole(file) /\ ~Final(file) => file.frames = 0

\* A manifest is written to start a session that has no chunk, or to end one.
StartInv ==
    /\ pc = "finish" => reason \in Stops
    /\ \A s \in Sessions : Blank(disk[s].manifest)
    /\ \A i \in DOMAIN todo : Starts(todo[i]) =>
          todo[i].content = InProgress /\ mem[todo[i].session].closed = <<>>

LEMMA StartInvInit == Init => StartInv
<1> SUFFICES ASSUME Init PROVE StartInv
  OBVIOUS
<1>1. /\ todo = <<>> /\ pc = "open" /\ \A s \in Sessions : disk[s] = EmptyDirectory
  BY DEF Init
<1>2. \A s \in Sessions : Blank(disk[s].manifest)
  BY <1>1 DEF EmptyDirectory, Blank, Whole
<1>3. DOMAIN todo = {}
  BY <1>1
<1> QED
  BY <1>1, <1>2, <1>3 DEF StartInv

\* The stop reason, when the process comes to finish.
LEMMA ReasonAtFinish ==
    ASSUME StartInv, [Next]_vars
    PROVE  pc' = "finish" => reason' \in Stops
<1> SUFFICES ASSUME pc' = "finish" PROVE reason' \in Stops
  OBVIOUS
<1>1. CASE pc = "finish" /\ reason' = reason
  BY <1>1 DEF StartInv
<1>2. ASSUME NEW why \in Stops, StopFor(why)
      PROVE  reason' \in Stops
  BY <1>2 DEF StopFor
<1>3. CASE LoopTop
  <2>1. \/ StopFor("interrupted") \/ StopFor("max_frames") \/ StopFor("duration")
    BY <1>3 DEF LoopTop
  <2> QED
    BY <1>2, <2>1 DEF Stops
<1>4. ASSUME NEW why \in {"venue_close", "read_error"}, Disconnect(why)
      PROVE  reason' \in Stops
  <2>1. StopFor(why) \/ StopFor("reconnect_exhausted")
    BY <1>4 DEF Disconnect
  <2> QED
    BY <1>2, <2>1 DEF Stops
<1>5. CASE Backoff
  <2>1. StopFor("interrupted")
    BY <1>5 DEF Backoff
  <2> QED
    BY <1>2, <2>1 DEF Stops
<1>6. CASE ReconnectFails
  BY <1>6, <1>2 DEF ReconnectFails, Stops
<1>7. CASE FinishSession \/ Write \/ Interrupt \/ Elapse \/ UNCHANGED vars
  <2>1. reason' = reason /\ pc = "finish"
    BY <1>7 DEF FinishSession, At, Write, Interrupt, Elapse, vars
  <2> QED
    BY <1>1, <2>1
<1>8. CASE \/ OpenSession \/ RefuseSession \/ Connect \/ ConnectFails
           \/ \E s \in Sessions : \E span \in Frames[s] : ReadFrame(s, span)
           \/ ReadUnknown \/ ReadNothing \/ Reconnect \/ MarkSession \/ Return
           \/ TearWrite \/ Crash \/ Restart
  BY <1>8 DEF OpenSession, RefuseSession, Connect, ConnectFails, ReadFrame, ReadUnknown,
              ReadNothing, Reconnect, MarkSession, Return, TearWrite, Crash, Restart, At
<1> QED
  BY <1>3, <1>4, <1>5, <1>6, <1>7, <1>8 DEF Next, Process, Dial

\* Steps that write no manifest: the writes ordered before are done.
LEMMA StartInvStep ==
    ASSUME StartInv, pc' = "finish" => reason' \in Stops, disk' = disk,
           \A i \in DOMAIN todo' : ~Starts(todo'[i])
    PROVE  StartInv'
BY DEF StartInv, Blank, Final, Starts

LEMMA NoManifestStarts ==
    ASSUME NEW writes \in Seq(WriteOrder), NoManifest(writes)
    PROVE  \A i \in DOMAIN writes : ~Starts(writes[i])
BY DEF NoManifest, Starts

LEMMA StartInvWrite ==
    ASSUME TypeOK, StoreInv, StartInv, [Next]_vars, Write \/ TearWrite
    PROVE  StartInv'
<1>1. PICK w \in WriteOrder : w = Head(todo) /\ w = todo[1] /\ 1 \in DOMAIN todo
  BY DEF Write, TearWrite, StoreInv
<1>2. PICK s \in Sessions : s = w.session
  BY DEF WriteOrder
<1>3. PICK content \in {w.content, Torn} :
          disk' = [disk EXCEPT ![s] = Written(@, w, content)]
  BY <1>1, <1>2 DEF Write, TearWrite
<1>4. /\ mem' = mem
      /\ todo' = Tail(todo) \/ todo' = <<>>
  BY DEF Write, TearWrite
<1>5. /\ disk'[s].manifest = IF w.file = "manifest" THEN content ELSE disk[s].manifest
      /\ \A r \in Sessions : r # s => disk'[r] = disk[r]
  <2>1. DOMAIN disk[s] = {"manifest", "chunks", "index"} /\ DOMAIN disk = Sessions
    BY DEF StoreInv, FilesInv
  <2>2. disk'[s] = Written(disk[s], w, content) /\ \A r \in Sessions : r # s => disk'[r] = disk[r]
    BY <1>3, <2>1
  <2> QED
    BY <2>1, <2>2, WrittenFile
<1>6. w.file = "manifest" => Blank(content)
  <2>1. CASE content = Torn
    BY <2>1 DEF Blank, Whole
  <2>2. CASE content = w.content /\ w.file = "manifest"
    <3>1. Starts(w) => w.content = InProgress
      BY <1>1 DEF StartInv
    <3> QED
      BY <2>2, <3>1 DEF Starts, Blank, InProgress
  <2> QED
    BY <1>3, <2>1, <2>2
<1>7. \A r \in Sessions : Blank(disk'[r].manifest)
  BY <1>5, <1>6 DEF StartInv
<1>8. \A i \in DOMAIN todo' : \E j \in DOMAIN todo : todo'[i] = todo[j]
  <2>1. todo \in Seq(WriteOrder) /\ todo # <<>>
    BY DEF Write, TearWrite, StoreInv
  <2>2. CASE todo' = Tail(todo)
    <3>1. \A i \in DOMAIN Tail(todo) : i + 1 \in DOMAIN todo /\ Tail(todo)[i] = todo[i + 1]
      BY <2>1
    <3> QED
      BY <2>2, <3>1
  <2>3. CASE todo' = <<>>
    BY <2>3
  <2> QED
    BY <1>4, <2>2, <2>3
<1>9. \A i \in DOMAIN todo' : Starts(todo'[i]) =>
          todo'[i].content = InProgress /\ mem'[todo'[i].session].closed = <<>>
  BY <1>4, <1>8 DEF StartInv
<1>10. pc' = "finish" => reason' \in Stops
  BY ReasonAtFinish
<1>11. (\A r \in Sessions : Blank(disk[r].manifest))'
  BY <1>7 DEF Blank, Final
<1>12. (\A i \in DOMAIN todo : Starts(todo[i]) =>
          todo[i].content = InProgress /\ mem[todo[i].session].closed = <<>>)'
  BY <1>9 DEF Starts, Final
<1> QED
  BY <1>10, <1>11, <1>12 DEF StartInv

LEMMA StartInvNext == Inv /\ StartInv /\ [Next]_vars => StartInv'
<1> SUFFICES ASSUME Inv, StartInv, [Next]_vars PROVE StartInv'
  OBVIOUS
<1>1. /\ TypeOK /\ StoreInv /\ session \in Sessions /\ todo \in Seq(WriteOrder)
      /\ \A s \in Sessions : Tidy(mem[s]) /\ mem[s] \in SessionState
  BY DEF Inv, TypeOK, Tidy, StoreInv
<1>2. pc' = "finish" => reason' \in Stops
  BY ReasonAtFinish
<1>3. ASSUME disk' = disk, NEW m, NEW step, StepCatches(m, step), todo' = step.writes
      PROVE  StartInv'
  <2>1. \A i \in DOMAIN todo' : ~Starts(todo'[i])
    BY <1>3, NoManifestStarts DEF StepCatches
  <2> QED
    BY <1>2, <1>3, <2>1, StartInvStep
<1>4. CASE OpenSession
  <2>1. PICK k \in Sessions : k = session
    BY <1>1
  <2> DEFINE start == ManifestWrite(k, InProgress)
  <2>2. /\ disk' = disk /\ todo' = <<start>>
        /\ FilesInv(k) /\ DOMAIN disk[k].chunks = {}
        /\ mem' = [mem EXCEPT ![k] = FreshSession(ReadIndex(disk[k]))]
    BY <1>4, <2>1 DEF OpenSession, HasChunks, Inv, StoreInv
  <2>3. ReadIndex(disk[k]) = <<>>
    BY <2>2 DEF FilesInv, HasChunks, ReadIndex
  <2>4. mem'[k].closed = <<>>
    BY <2>1, <2>2, <2>3 DEF FreshSession, Inv, TypeOK
  <2>5. start.content = InProgress /\ start.session = k
    BY DEF ManifestWrite
  <2> HIDE DEF start
  <2>6. \A i \in DOMAIN todo' : todo'[i] = start
    BY <2>2
  <2>7. (\A i \in DOMAIN todo : Starts(todo[i]) =>
            todo[i].content = InProgress /\ mem[todo[i].session].closed = <<>>)'
    BY <2>4, <2>5, <2>6
  <2>8. (\A r \in Sessions : Blank(disk[r].manifest))'
    BY <2>2 DEF StartInv
  <2> QED
    BY <1>2, <2>7, <2>8 DEF StartInv
<1>5. ASSUME NEW s \in Sessions, NEW span \in Frames[s], ReadFrame(s, span)
      PROVE  StartInv'
  <2>1. span \in Span \cup {NoSpan}
    BY CaptureAssumption
  <2>2. StepCatches(mem[s], AppendFrame(s, mem[s], span))
    BY <1>1, <2>1, AppendFrameCatches
  <2>3. disk' = disk /\ todo' = AppendFrame(s, mem[s], span).writes
    BY <1>5 DEF ReadFrame
  <2> QED
    BY <1>3, <2>2, <2>3
<1>6. CASE MarkSession
  <2>1. StepCatches(mem[session], MarkReconnect(session, mem[session]))
    BY <1>1, MarkReconnectCatches
  <2>2. disk' = disk /\ todo' = MarkReconnect(session, mem[session]).writes
    BY <1>6 DEF MarkSession
  <2> QED
    BY <1>3, <2>1, <2>2
<1>7. CASE FinishSession
  <2> DEFINE step == CloseChunk(session, mem[session])
             content == [frames |-> mem[session].frames, stop |-> reason]
             last == ManifestWrite(session, content)
  <2>1. pc = "finish" /\ disk' = disk /\ todo' = Append(step.writes, last)
    BY <1>7 DEF FinishSession, At
  <2>2. StepCatches(mem[session], step)
    BY <1>1, CloseChunkCatches
  <2>3. ~Starts(last)
    <3>1. content.stop = reason /\ reason \in Stops
      BY <2>1 DEF StartInv
    <3>2. content.stop # "in_progress"
      BY <3>1 DEF Stops
    <3>3. Whole(content)
      <4>1. content \in Manifest
        BY <1>1 DEF Manifest, TypeOK, SessionState
      <4> QED
        BY <4>1, FilesAssumption DEF Whole
    <3> QED
      BY <3>2, <3>3 DEF Starts, ManifestWrite, Final
  <2>4. \A i \in DOMAIN step.writes : ~Starts(step.writes[i])
    BY <2>2, NoManifestStarts DEF StepCatches
  <2> HIDE DEF step, last
  <2>5. \A i \in DOMAIN todo' : ~Starts(todo'[i])
    <3>1. step.writes \in Seq(WriteOrder)
      BY <2>2 DEF StepCatches
    <3> QED
      BY <2>1, <2>3, <2>4, <3>1
  <2> QED
    BY <1>2, <2>1, <2>5, StartInvStep
<1>8. CASE Write \/ TearWrite
  BY <1>1, <1>8, StartInvWrite
<1>9. CASE Crash
  <2>1. disk' = disk /\ todo' = <<>>
    BY <1>9 DEF Crash
  <2>2. \A i \in DOMAIN todo' : ~Starts(todo'[i])
    BY <2>1
  <2> QED
    BY <1>2, <2>1, <2>2, StartInvStep
<1>10. CASE Quiet
  <2>1. mem' = mem /\ disk' = disk /\ todo' = todo
    BY <1>10 DEF Quiet, RefuseSession, Connect, ConnectFails, LoopTop, ReadUnknown, ReadNothing,
                 Disconnect, Backoff, Reconnect, ReconnectFails, Return, Interrupt, Elapse,
                 Restart, files, vars
  <2> QED
    BY <1>2, <2>1 DEF StartInv
<1> QED
  BY <1>4, <1>5, <1>6, <1>7, <1>8, <1>9, <1>10 DEF Next, Process, Dial, Quiet

LEMMA StartInvariance == Spec => [](Inv /\ LogInv /\ FinishInv /\ JudgesInv /\ StartInv)
BY InitInv, LogInvInit, FinishInvInit, JudgesInvInit, StartInvInit,
   NextInv, LogInvNext, FinishInvNext, JudgesInvNext, StartInvNext, PTL DEF Spec

LEMMA NoneShown ==
    ASSUME NEW stream \in Seq(StreamItems),
           Cardinality(GapsShown(stream)) + Cardinality(HolesShown(stream)) = 0
    PROVE  GapsShown(stream) = {}
<1>1. /\ Len(stream) \in Nat /\ GapsShown(stream) \in SUBSET (1..Len(stream))
      /\ HolesShown(stream) \in SUBSET (1..Len(stream))
  BY DEF GapsShown, HolesShown
<1>2. Cardinality(GapsShown(stream)) \in Nat /\ Cardinality(HolesShown(stream)) \in Nat
  BY <1>1, NextPosition
<1>3. IsFiniteSet(GapsShown(stream))
  <2>1. IsFiniteSet(1..Len(stream))
    BY <1>1, FS_Interval
  <2> QED
    BY <1>1, <2>1, FS_Subset
<1>4. Cardinality(GapsShown(stream)) = 0
  BY <1>2
<1> QED
  BY <1>3, <1>4, FS_EmptySet

\* Whenever check is run, beside the capture or after its death, a healthy verdict
\* over any frame means that the capture ended and missed nothing on the way.
THEOREM HealthyMeansCompleteTheorem == Spec => []HealthyMeansComplete
<1>1. Inv /\ LogInv /\ FinishInv /\ JudgesInv /\ StartInv => HealthyMeansComplete
  <2> SUFFICES ASSUME Inv, LogInv, FinishInv, JudgesInv, StartInv, NEW s \in Sessions,
                      Readable(disk[s]), Healthy(disk[s]), Report(disk[s]).venue_frames > 0
      PROVE  /\ Ended(disk[s])
             /\ Summary(Records(disk[s])) = Annotated(received[s])
             /\ GapsShown(received[s]) = {}
    BY DEF HealthyMeansComplete
  <2>1. Final(disk[s].manifest)
    <3>1. Whole(disk[s].manifest) /\ disk[s].manifest.frames # 0
      BY DEF Readable, Healthy, ManifestMismatch
    <3> QED
      BY <3>1 DEF StartInv, Blank
  <2>2. Records(disk[s]) = Log(mem[s])
    BY <2>1, RecordsOfTheEnded
  <2>3. Summary(Log(mem[s])) = Annotated(received[s])
    BY DEF LogInv, Tells
  <2>4. Cardinality(GapsShown(received[s])) + Cardinality(HolesShown(received[s])) = 0
    BY <2>2 DEF Healthy, Report, JudgesInv, Judges
  <2>5. received[s] \in Seq(StreamItems)
    BY DEF LogInv, Tells
  <2> QED
    BY <2>1, <2>2, <2>3, <2>4, <2>5, NoneShown DEF Ended, Final
<1> QED
  BY <1>1, StartInvariance, PTL

-----------------------------------------------------------------------------
(* The reader.                                                             *)

Judging == reader.stage \in {"index", "chunks", "ok"}

\* A manifest of a capture that ended and has frames to show for it.
Filled(file) == Final(file) /\ file.frames > 0

\* What the reader has of the directory is still true of it.  Chunks are for ever; the
\* manifest is, once it is final and the directory has a chunk: nothing writes it
\* then but a start of the capture, which such a directory refuses.
ReaderInv ==
    LET s == reader.session
    IN  /\ DOMAIN reader = {"stage", "session", "manifest", "index", "chunks"}
        /\ s \in Sessions
        /\ reader.index \in Seq(Chunk)
        /\ reader.chunks \in 0..Len(reader.index)
        /\ \A n \in DOMAIN reader.index : OnDisk(s, n) /\ mem[s].closed[n] = reader.index[n]
        /\ reader.stage \in {"none", "manifest", "index"} => reader.index = <<>>
        /\ Judging => Whole(reader.manifest) /\ Blank(reader.manifest)
        /\ Judging /\ Filled(reader.manifest) => disk[s].manifest = reader.manifest
        /\ reader.stage \in {"chunks", "ok"} /\ Filled(reader.manifest) =>
              reader.index = mem[s].closed
        /\ reader.stage = "ok" => reader.chunks = Len(reader.index) /\ CountHolds

AllInv == Inv /\ LogInv /\ FinishInv /\ StartInv

\* A chunk on disk whole stays there, and stays the one the session closed.
LEMMA OnDiskStays ==
    ASSUME Inv, Inv', [Next]_vars, NEW s \in Sessions, NEW n, OnDisk(s, n)
    PROVE  OnDisk(s, n)' /\ mem'[s].closed[n] = mem[s].closed[n]
<1>1. mem[s].closed[n] \in Chunk
  <2>1. mem[s].closed \in Seq(Chunk)
    BY DEF Inv, TypeOK, SessionState
  <2>2. n \in DOMAIN mem[s].closed
    BY DEF OnDisk
  <2> QED
    BY <2>1, <2>2
<1>2. n \in DOMAIN disk'[s].chunks /\ disk'[s].chunks[n] = mem[s].closed[n]
  BY ChunksStay DEF OnDisk
<1>3. n \in DOMAIN mem'[s].closed /\ disk'[s].chunks[n] \in {mem'[s].closed[n], Torn}
  BY <1>2 DEF Inv, StoreInv, FilesInv
<1>4. mem[s].closed[n] # Torn
  BY <1>1, FilesAssumption
<1> QED
  BY <1>2, <1>3, <1>4 DEF OnDisk

\* The directory of a capture that ended with frames is left alone.
LEMMA FilledStays ==
    ASSUME AllInv, AllInv', [Next]_vars, NEW s \in Sessions, Filled(disk[s].manifest)
    PROVE  disk'[s].manifest = disk[s].manifest /\ mem'[s].closed = mem[s].closed
<1>1. /\ ReadIndex(disk[s]) = mem[s].closed /\ mem[s].buffer = <<>>
      /\ mem[s].frames = disk[s].manifest.frames
  BY DEF AllInv, FinishInv, DirectoryIsTrue, Filled
<1>2. mem[s].closed # <<>>
  <2> SUFFICES ASSUME mem[s].closed = <<>> PROVE FALSE
    OBVIOUS
  <2>1. Log(mem[s]) = <<>>
    BY <1>1, FlattenEmpty DEF Log
  <2>2. Of(Log(mem[s]), "frame") = {}
    BY <2>1 DEF Of
  <2>3. mem[s].frames = 0
    BY <2>2, FS_EmptySet DEF AllInv, LogInv, Tells
  <2> QED
    BY <1>1, <2>3 DEF Filled
<1>3. \A i \in DOMAIN todo : todo[i].session # s
  <2> SUFFICES ASSUME NEW i \in DOMAIN todo, todo[i].session = s PROVE FALSE
    OBVIOUS
  <2>1. Starts(todo[i])
    BY DEF AllInv, FinishInv, WriteInv, Filled
  <2> QED
    BY <1>2, <2>1 DEF AllInv, StartInv
<1>4. disk'[s] = disk[s]
  <2>1. CASE disk' = disk
    BY <2>1
  <2>2. CASE Write \/ TearWrite
    <3>1. Head(todo).session # s
      <4>1. todo \in Seq(WriteOrder) /\ todo # <<>>
        BY <2>2 DEF Write, TearWrite, AllInv, Inv, StoreInv
      <4>2. Head(todo) = todo[1] /\ 1 \in DOMAIN todo
        BY <4>1
      <4> QED
        BY <1>3, <4>2
    <3>2. DOMAIN disk = Sessions
      BY DEF AllInv, Inv, StoreInv
    <3> QED
      BY <2>2, <3>1, <3>2 DEF Write, TearWrite
  <2> QED
    BY <2>1, <2>2, DiskChanges
<1>5. ReadIndex(disk'[s]) = mem'[s].closed
  BY <1>4 DEF AllInv, FinishInv, DirectoryIsTrue, Filled, ReadIndex
<1> QED
  BY <1>1, <1>4, <1>5

LEMMA ReaderInvInit == ReadersInit => ReaderInv
<1> SUFFICES ASSUME ReadersInit PROVE ReaderInv
  OBVIOUS
<1>1. /\ reader.session = 1 /\ reader.stage = "none" /\ reader.index = <<>> /\ reader.chunks = 0
      /\ DOMAIN reader = {"stage", "session", "manifest", "index", "chunks"}
  BY DEF ReadersInit, NoReader
<1>2. /\ 1 \in Sessions /\ <<>> \in Seq(Chunk) /\ Len(<<>>) = 0 /\ DOMAIN <<>> = {}
  BY CaptureAssumption DEF Sessions
<1> QED
  BY <1>1, <1>2 DEF ReaderInv, Judging

\* The capture goes on under the reader.
LEMMA ReaderInvCapture ==
    ASSUME AllInv, AllInv', [Next]_vars, ReaderInv, reader' = reader
    PROVE  ReaderInv'
<1> DEFINE s == reader.session
<1>1. s \in Sessions /\ reader'.session = s
  BY DEF ReaderInv
<1>2. \A n \in DOMAIN reader.index : OnDisk(s, n)' /\ mem'[s].closed[n] = reader.index[n]
  BY <1>1, OnDiskStays DEF ReaderInv, AllInv
<1>3. Filled(disk[s].manifest) =>
          disk'[s].manifest = disk[s].manifest /\ mem'[s].closed = mem[s].closed
  BY <1>1, FilledStays
<1>4. (CountHolds <=> CountHolds') /\ (Judging <=> Judging')
  BY DEF CountHolds, VenueFrames, Delivered, Judging
<1>5. Judging => Whole(reader.manifest) /\ Blank(reader.manifest)
  BY DEF ReaderInv
<1>6. (Judging => Whole(reader.manifest) /\ Blank(reader.manifest))'
  BY <1>5 DEF Judging, Whole, Blank, Final
<1>7. (Judging /\ Filled(reader.manifest) => disk[reader.session].manifest = reader.manifest)'
  BY <1>1, <1>3 DEF ReaderInv, Judging, Filled, Final, Whole
<1>8. (reader.stage \in {"chunks", "ok"} /\ Filled(reader.manifest) =>
          reader.index = mem[reader.session].closed)'
  BY <1>1, <1>3 DEF ReaderInv, Judging, Filled, Final, Whole
<1>9. (reader.stage = "ok" => reader.chunks = Len(reader.index) /\ CountHolds)'
  BY <1>4 DEF ReaderInv
<1> QED
  BY <1>1, <1>2, <1>6, <1>7, <1>8, <1>9 DEF ReaderInv

\* The reader goes on over the capture.
LEMMA ReaderInvRead ==
    ASSUME AllInv, ReaderInv, Read
    PROVE  ReaderInv'
<1> DEFINE s == reader.session
<1>1. UNCHANGED vars
  BY DEF Read, BeginReading, ReadManifest, ReadIndexFile, DeliverChunk, EndOfStream, Turn
<1>2. mem' = mem /\ disk' = disk
  BY <1>1 DEF vars, files
<1>3. \A r, n : OnDisk(r, n)' <=> OnDisk(r, n)
  BY <1>2 DEF OnDisk
<1>4. /\ DOMAIN reader = {"stage", "session", "manifest", "index", "chunks"}
      /\ s \in Sessions /\ reader.index \in Seq(Chunk) /\ reader.chunks \in 0..Len(reader.index)
      /\ \A n \in DOMAIN reader.index : OnDisk(s, n) /\ mem[s].closed[n] = reader.index[n]
      /\ reader.stage \in {"none", "manifest", "index"} => reader.index = <<>>
  BY DEF ReaderInv
<1>5. ASSUME Refuse
      PROVE  ReaderInv'
  <2>1. /\ DOMAIN reader' = DOMAIN reader /\ reader'.stage = "refused" /\ reader'.session = s
        /\ reader'.index = reader.index /\ reader'.chunks = reader.chunks
    BY <1>4, <1>5 DEF Refuse
  <2> QED
    BY <1>2, <1>3, <1>4, <2>1 DEF ReaderInv, Judging
<1>6. CASE BeginReading
  <2>1. PICK r \in Sessions : reader' = [reader EXCEPT !.stage = "manifest", !.session = r]
    BY <1>6 DEF BeginReading
  <2>2. /\ DOMAIN reader' = DOMAIN reader /\ reader'.stage = "manifest" /\ reader'.session = r
        /\ reader'.index = <<>> /\ reader'.chunks = reader.chunks
    BY <1>4, <1>6, <2>1 DEF BeginReading, Turn
  <2>3. Len(<<>>) = 0 /\ DOMAIN <<>> = {} /\ reader.index = <<>>
    BY <1>4, <1>6 DEF BeginReading, Turn
  <2> QED
    BY <1>4, <2>2, <2>3 DEF ReaderInv, Judging
<1>7. CASE ReadManifest
  <2>1. PICK m \in Seen(s, "manifest", disk[s].manifest) :
            IF Whole(m) THEN reader' = [reader EXCEPT !.stage = "index", !.manifest = m] ELSE Refuse
    BY <1>7 DEF ReadManifest
  <2>2. reader.stage = "manifest"
    BY <1>7 DEF ReadManifest, Turn
  <2>3. CASE Whole(m)
    <3>1. m = disk[s].manifest
      BY <2>1, <2>3 DEF Seen, Whole
    <3>2. Blank(m)
      BY <1>4, <3>1 DEF AllInv, StartInv
    <3>3. /\ DOMAIN reader' = DOMAIN reader /\ reader'.stage = "index" /\ reader'.session = s
          /\ reader'.index = reader.index /\ reader'.chunks = reader.chunks
          /\ reader'.manifest = m
      BY <1>4, <2>1, <2>3
    <3>4. /\ Blank(reader.manifest)' /\ Whole(reader.manifest)'
          /\ disk'[s].manifest = reader'.manifest
      BY <1>2, <2>3, <3>1, <3>2, <3>3 DEF Blank, Final, Whole
    <3> QED
      BY <1>2, <1>3, <1>4, <2>2, <3>3, <3>4 DEF ReaderInv, Judging
  <2>4. CASE ~Whole(m)
    BY <1>5, <2>1, <2>4
  <2> QED
    BY <2>3, <2>4
<1>8. CASE ReadIndexFile
  <2>1. PICK i \in Seen(s, "index", disk[s].index) :
            IF i = Torn
            THEN Refuse
            ELSE reader' = [reader EXCEPT !.stage = "chunks", !.index = IF i = None THEN <<>> ELSE i]
    BY <1>8 DEF ReadIndexFile
  <2>2. reader.stage = "index" /\ reader.chunks = 0
    BY <1>4, <1>8 DEF ReadIndexFile, Turn
  <2>3. CASE i = Torn
    BY <1>5, <2>1, <2>3
  <2>4. CASE i # Torn
    <3> DEFINE index == ReadIndex(disk[s])
    <3>1. i = disk[s].index
      BY <2>1, <2>4 DEF Seen
    <3>2. reader' = [reader EXCEPT !.stage = "chunks", !.index = index]
      BY <2>1, <2>4, <3>1 DEF ReadIndex
    <3>3. /\ index \in Seq(Chunk)
          /\ \A n \in DOMAIN index : OnDisk(s, n) /\ mem[s].closed[n] = index[n]
      <4>1. FilesInv(s)
        BY <1>4 DEF AllInv, Inv, StoreInv
      <4>2. CASE i = None
        <5>1. index = <<>>
          BY <3>1, <4>2 DEF ReadIndex
        <5> QED
          BY <5>1
      <4>3. CASE i # None
        <5>1. index = disk[s].index /\ Whole(disk[s].index)
          BY <2>4, <3>1, <4>3 DEF ReadIndex, Whole
        <5> QED
          BY <4>1, <5>1 DEF FilesInv, Whole
      <4> QED
        BY <4>2, <4>3
    <3>4. Filled(reader.manifest) => disk[s].manifest = reader.manifest /\ index = mem[s].closed
      <4>1. Filled(reader.manifest) => disk[s].manifest = reader.manifest
        BY <2>2 DEF ReaderInv, Judging
      <4>2. Final(disk[s].manifest) => index = mem[s].closed
        BY <1>4 DEF AllInv, FinishInv, DirectoryIsTrue
      <4> QED
        BY <4>1, <4>2 DEF Filled
    <3> HIDE DEF index
    <3>5. /\ DOMAIN reader' = DOMAIN reader /\ reader'.stage = "chunks" /\ reader'.session = s
          /\ reader'.index = index /\ reader'.chunks = 0
          /\ reader'.manifest = reader.manifest
      BY <1>4, <2>2, <3>2
    <3>6. Blank(reader.manifest) /\ Whole(reader.manifest)
      BY <2>2 DEF ReaderInv, Judging
    <3>7. /\ Blank(reader.manifest)' /\ Whole(reader.manifest)'
          /\ Filled(reader.manifest)' => Filled(reader.manifest)
      BY <3>5, <3>6 DEF Blank, Final, Whole, Filled
    <3>8. 0 \in 0..Len(index)
      BY <3>3
    <3> QED
      BY <1>2, <1>3, <1>4, <3>3, <3>4, <3>5, <3>7, <3>8 DEF ReaderInv, Judging
  <2> QED
    BY <2>3, <2>4
<1>9. ASSUME reader.stage = "chunks", reader' = [reader EXCEPT !.chunks = @ + 1],
             reader.chunks < Len(reader.index)
      PROVE  ReaderInv'
  <2>1. /\ DOMAIN reader' = DOMAIN reader /\ reader'.stage = "chunks" /\ reader'.session = s
        /\ reader'.index = reader.index /\ reader'.chunks = reader.chunks + 1
        /\ reader'.manifest = reader.manifest
    BY <1>4, <1>9
  <2>2. reader.chunks + 1 \in 0..Len(reader.index)
    BY <1>4, <1>9
  <2>3. Judging /\ reader.stage \in {"chunks", "ok"}
    BY <1>9 DEF Judging
  <2>4. /\ Blank(reader.manifest)' <=> Blank(reader.manifest)
        /\ Whole(reader.manifest)' <=> Whole(reader.manifest)
        /\ Filled(reader.manifest)' <=> Filled(reader.manifest)
    BY <2>1 DEF Blank, Final, Whole, Filled
  <2> QED
    BY <1>2, <1>3, <1>4, <2>1, <2>2, <2>3, <2>4 DEF ReaderInv
<1>10. ASSUME reader.stage = "chunks", reader' = [reader EXCEPT !.stage = "ok"],
              reader.chunks = Len(reader.index), CountHolds
       PROVE  ReaderInv'
  <2>1. /\ DOMAIN reader' = DOMAIN reader /\ reader'.stage = "ok" /\ reader'.session = s
        /\ reader'.index = reader.index /\ reader'.chunks = reader.chunks
        /\ reader'.manifest = reader.manifest
    BY <1>4, <1>10
  <2>2. Judging /\ reader.stage \in {"chunks", "ok"}
    BY <1>10 DEF Judging
  <2>3. /\ Blank(reader.manifest)' <=> Blank(reader.manifest)
        /\ Whole(reader.manifest)' <=> Whole(reader.manifest)
        /\ Filled(reader.manifest)' <=> Filled(reader.manifest)
    BY <2>1 DEF Blank, Final, Whole, Filled
  <2>4. CountHolds'
    BY <1>10, <2>1 DEF CountHolds, VenueFrames, Delivered
  <2> QED
    BY <1>2, <1>3, <1>4, <1>10, <2>1, <2>2, <2>3, <2>4 DEF ReaderInv
<1>11. CASE DeliverChunk
  BY <1>5, <1>9, <1>11 DEF DeliverChunk, Turn
<1>12. CASE EndOfStream
  BY <1>5, <1>10, <1>12 DEF EndOfStream, Turn
<1> QED
  BY <1>6, <1>7, <1>8, <1>11, <1>12 DEF Read

LEMMA ReaderInvariance == ReadersSpec => [](AllInv /\ ReaderInv)
<1>1. ReadersInit => AllInv /\ ReaderInv
  BY InitInv, LogInvInit, FinishInvInit, StartInvInit, ReaderInvInit DEF ReadersInit, AllInv
<1>2. AllInv /\ ReaderInv /\ [ReadersNext]_readersVars => AllInv' /\ ReaderInv'
  <2> SUFFICES ASSUME AllInv, ReaderInv, [ReadersNext]_readersVars
      PROVE  AllInv' /\ ReaderInv'
    OBVIOUS
  <2>1. [Next]_vars
    BY DEF ReadersNext, Read, BeginReading, ReadManifest, ReadIndexFile, DeliverChunk,
           EndOfStream, Turn, readersVars
  <2>2. AllInv'
    BY <2>1, NextInv, LogInvNext, FinishInvNext, StartInvNext DEF AllInv
  <2>3. CASE reader' = reader
    BY <2>1, <2>2, <2>3, ReaderInvCapture
  <2>4. CASE Read
    BY <2>2, <2>4, ReaderInvRead
  <2> QED
    BY <2>2, <2>3, <2>4 DEF ReadersNext, readersVars
<1> QED
  BY <1>1, <1>2, PTL DEF ReadersSpec

\* Summaries keep what logs have in common at their beginnings.
LEMMA SummaryBegins ==
    ASSUME NEW begun \in Seq(Record), NEW whole \in Seq(Record),
           Len(begun) <= Len(whole), \A i \in 1..Len(begun) : begun[i] = whole[i]
    PROVE  IsPrefix(Summary(begun), Summary(whole))
<1> DEFINE b == Summary(begun)
           w == Summary(whole)
<1>1. \A log \in Seq(Record) :
         /\ Summary(log) \in Seq(Entries) /\ Len(Summary(log)) = Len(log)
         /\ \A i \in 1..Len(log) : Summary(log)[i] = Entry(log[i].kind, log[i].span)
  <2> SUFFICES ASSUME NEW log \in Seq(Record)
      PROVE  /\ Summary(log) \in Seq(Entries) /\ Len(Summary(log)) = Len(log)
             /\ \A i \in 1..Len(log) : Summary(log)[i] = Entry(log[i].kind, log[i].span)
    OBVIOUS
  <2>1. Len(log) \in Nat /\ \A i \in 1..Len(log) : log[i] \in Record
    OBVIOUS
  <2>2. \A r \in Record : Entry(r.kind, r.span) \in Entries
    BY DEF Entry, Entries, Record
  <2>3. Summary(log) = [i \in 1..Len(log) |-> Entry(log[i].kind, log[i].span)]
    BY DEF Summary
  <2> QED
    BY <2>1, <2>2, <2>3
<1>2. /\ b \in Seq(Entries) /\ w \in Seq(Entries) /\ Len(b) <= Len(w)
      /\ \A i \in 1..Len(b) : b[i] = w[i]
  BY <1>1
<1> HIDE DEF b, w
<1> DEFINE n == Len(b)
           sb == SubSeq(b, 1, n)
           sw == SubSeq(w, 1, n)
<1>3. /\ sb \in Seq(Entries) /\ sw \in Seq(Entries) /\ Len(sb) = n /\ Len(sw) = n
      /\ \A i \in 1..n : sb[i] = sw[i]
  BY <1>2
<1> HIDE DEF n, sb, sw
<1>4. sb = sw
  BY <1>3, SameElements
<1> QED
  BY <1>2, <1>4 DEF IsPrefix, b, w, n, sb, sw

\* Whatever the capture does meanwhile, a reader that accepts a directory with a frame
\* in it has the whole stream, and any other reader has a beginning of it.
THEOREM ReadIsTrueTheorem == ReadersSpec => []ReadIsTrue
<1>1. AllInv /\ ReaderInv => ReadIsTrue
  <2> SUFFICES ASSUME AllInv, ReaderInv PROVE ReadIsTrue
    OBVIOUS
  <2> DEFINE s == reader.session
             closed == mem[s].closed
             delivered == Delivered(reader.chunks)
             stream == Annotated(received[s])
  <2>1. /\ s \in Sessions /\ reader.index \in Seq(Chunk)
        /\ reader.chunks \in 0..Len(reader.index)
        /\ \A n \in DOMAIN reader.index : n \in DOMAIN closed /\ closed[n] = reader.index[n]
    BY DEF ReaderInv, OnDisk
  <2>2. closed \in Seq(Chunk) /\ mem[s].buffer \in Chunk
    BY <2>1 DEF AllInv, Inv, TypeOK, SessionState
  <2>3. Summary(Log(mem[s])) = stream /\ mem[s] \in SessionState
    BY <2>1 DEF AllInv, LogInv, Tells, Inv, TypeOK
  <2> DEFINE k == reader.chunks
  <2>4. /\ k \in 0..Len(closed) /\ SubSeq(reader.index, 1, k) = SubSeq(closed, 1, k)
        /\ SubSeq(closed, 1, k) \in Seq(Chunk)
    <3> DEFINE a == SubSeq(reader.index, 1, k)
               b == SubSeq(closed, 1, k)
    <3> HIDE DEF closed
    <3>1. k \in 0..Len(closed)
      <4>1. CASE Len(reader.index) = 0
        BY <2>1, <2>2, <4>1
      <4>2. CASE Len(reader.index) # 0
        <5>1. Len(reader.index) \in DOMAIN reader.index
          BY <2>1, <4>2
        <5>2. Len(reader.index) \in DOMAIN closed
          BY <2>1, <5>1
        <5> QED
          BY <2>1, <2>2, <5>2
      <4> QED
        BY <4>1, <4>2
    <3>2. /\ a \in Seq(Chunk) /\ b \in Seq(Chunk) /\ Len(a) = k /\ Len(b) = k
          /\ \A i \in 1..k : a[i] = reader.index[i] /\ b[i] = closed[i]
      BY <2>1, <2>2, <3>1
    <3>3. \A i \in 1..k : a[i] = b[i]
      BY <2>1, <3>2
    <3> HIDE DEF a, b
    <3>4. a = b
      BY <3>2, <3>3, SameElements
    <3> QED
      BY <3>1, <3>2, <3>4 DEF a, b
  <2>5. delivered = FlattenSeq(SubSeq(closed, 1, k))
    BY <2>4 DEF Delivered
  <2> DEFINE whole == FlattenSeq(closed)
  <2>6. /\ delivered \in Seq(Record) /\ whole \in Seq(Record) /\ Len(delivered) <= Len(whole)
        /\ \A i \in 1..Len(delivered) : delivered[i] = whole[i]
    <3>1. closed \in Seq(Seq(Record)) /\ SubSeq(closed, 1, k) \in Seq(Seq(Record))
      BY <2>2, <2>4 DEF Chunk
    <3> HIDE DEF closed, k, delivered
    <3> QED
      BY <2>4, <2>5, <3>1, FlattenType, FlattenBegins
  <2>7. Log(mem[s]) = whole \o mem[s].buffer
    BY DEF Log
  <2>8. IsPrefix(Summary(delivered), stream)
    <3> DEFINE log == Log(mem[s])
    <3>1. log \in Seq(Record)
      BY <2>3, LogType
    <3>2. Len(whole) <= Len(log) /\ \A i \in 1..Len(whole) : log[i] = whole[i]
      <4> HIDE DEF whole
      <4> QED
        BY <2>2, <2>6, <2>7 DEF Chunk
    <3>3. Len(delivered) \in Nat /\ Len(whole) \in Nat /\ Len(log) \in Nat
      BY <2>6, <3>1
    <3> HIDE DEF log, delivered, whole
    <3>4. Len(delivered) <= Len(log) /\ \A i \in 1..Len(delivered) : delivered[i] = log[i]
      BY <2>6, <3>2, <3>3
    <3>5. IsPrefix(Summary(delivered), Summary(log))
      BY <2>6, <3>1, <3>4, SummaryBegins
    <3> QED
      BY <2>3, <3>5 DEF log
  <2>9. ASSUME reader.stage = "ok", VenueFrames > 0
        PROVE  Summary(delivered) = stream
    <3>1. reader.chunks = Len(reader.index) /\ VenueFrames = reader.manifest.frames
      BY <2>9 DEF ReaderInv, CountHolds
    <3>2. Filled(reader.manifest)
      <4>1. Whole(reader.manifest) /\ Blank(reader.manifest)
        BY <2>9 DEF ReaderInv, Judging
      <4>2. reader.manifest.frames > 0 /\ reader.manifest.frames # 0
        BY <2>9, <3>1
      <4> QED
        BY <4>1, <4>2 DEF Blank, Filled
    <3>3. reader.index = closed /\ disk[s].manifest = reader.manifest
      BY <2>9, <3>2 DEF ReaderInv, Judging
    <3>4. mem[s].buffer = <<>>
      BY <2>1, <3>2, <3>3 DEF AllInv, FinishInv, DirectoryIsTrue, Filled
    <3>5. SubSeq(closed, 1, k) = closed
      BY <2>2, <3>1, <3>3
    <3>6. delivered = whole
      BY <2>5, <3>5
    <3>7. Log(mem[s]) = whole
      <4> HIDE DEF whole
      <4> QED
        BY <2>6, <2>7, <3>4
    <3> QED
      BY <2>3, <3>6, <3>7
  <2> QED
    BY <2>8, <2>9 DEF ReadIsTrue
<1> QED
  BY <1>1, ReaderInvariance, PTL
=============================================================================
