--------------------------- MODULE TransferProofs ---------------------------
(***************************************************************************)
(* Proofs about Transfer, for images and packets of any size, anything     *)
(* behind the digits of a size, connections of any length, and short       *)
(* reads, deletions, kills and crashes at any step.                        *)
(***************************************************************************)
EXTENDS Transfer, SequenceTheorems, TLAPS

Packets == Halves \cup Msgs

----------------------------------------------------------------------------
(* Messages, chunks and contents.                                          *)

\* A half of an image is no message.
LEMMA HalvesAreNoMsgs == \A h \in Halves : h \notin Msgs
  BY DEF Halves, Msgs

\* No content, and the contents of an image, the empty file among them.
LEMMA ContentTypes ==
    /\ None \in Files /\ None.bytes = -1 /\ ~None.intact
    /\ \A n \in Nat : /\ Empty(n) \in Files /\ Empty(n).bytes = 0
                      /\ Empty(n).of = n /\ Empty(n).intact
                      /\ Image(n) \in Files /\ Image(n).bytes = n
                      /\ Image(n).of = n /\ Image(n).intact
  BY DEF None, Empty, Image, Content, Files

\* The messages that the programs write.
LEMMA MsgTypes ==
    ASSUME NEW t \in {"F", "P", "N", "I", "R"}, NEW n \in Nat, NEW f \in Files
    PROVE  /\ Msg(t, n, f) \in Msgs /\ Msg(t, n, f) \in Packets
           /\ Msg(t, n, f).type = t /\ Msg(t, n, f).size = n
           /\ Msg(t, n, f).md5 = f
  BY DEF Msg, Msgs, Packets

\* Those that are no header.
LEMMA PlainTypes ==
    /\ \A m \in {Request, FileNotFound, ImageOK, ImageKO} :
          m \in Msgs /\ m \in Packets /\ m.type # "F" /\ m.md5 = None
    /\ Request.type = "P" /\ FileNotFound.type = "N" /\ ImageOK.type = "I"
    /\ ImageKO.type = "R"
<1>1. None \in Files
  BY ContentTypes
<1> QED
  BY <1>1 DEF Request, FileNotFound, ImageOK, ImageKO, Msg, Msgs, Packets

\* A chunk is two halves, whatever number it has.
LEMMA ChunkTypes ==
    ASSUME NEW m \in Nat, NEW n \in Nat
    PROVE  /\ Chunk(m, n \div MAX_DATA_SIZE + 1) \in Seq(Halves)
           /\ Chunk(m, n \div MAX_DATA_SIZE + 1) \in Seq(Packets)
           /\ Len(Chunk(m, n \div MAX_DATA_SIZE + 1)) = 2
<1>1. MAX_DATA_SIZE \in Nat /\ MAX_DATA_SIZE > 0
  BY SizesAssumption
<1>2. n \div MAX_DATA_SIZE + 1 \in Nat
  BY <1>1
<1>3. ASSUME NEW k \in Nat PROVE Chunk(m, k) \in Seq(Halves)
           /\ Chunk(m, k) \in Seq(Packets) /\ Len(Chunk(m, k)) = 2
  BY DEF Chunk, Halves, Packets
<1> QED BY <1>2, <1>3

\* Junk is a half, and so are two.
LEMMA JunkTypes ==
    /\ Junk \in Halves /\ Junk \in Packets
    /\ <<Junk, Junk>> \in Halves \X Halves
    /\ <<Junk, Junk>> \in Seq(Packets) /\ Len(<<Junk, Junk>>) = 2
  BY DEF Junk, Halves, Packets

\* Whatever lies behind the digits, a size is read as a number of bytes.
LEMMA ParsedIsNat ==
    ASSUME NEW n \in Nat, NEW t \in Tails
    PROVE  Parsed(n, t) \in Nat
<1>1. t.scale \in Nat /\ t.rest \in Nat
  BY SizesAssumption
<1>2. \A k \in Nat, l \in Nat : k * l \in Nat
  OBVIOUS
<1>3. n * t.scale \in Nat
  BY <1>1, <1>2
<1> QED BY <1>1, <1>3 DEF Parsed

\* What is in a connection after something was written at its end.
LEMMA Written ==
    ASSUME NEW S, NEW q \in Seq(S), NEW p \in Seq(S)
    PROVE  /\ q \o p \in Seq(S)
           /\ \A i \in DOMAIN (q \o p) :
                 \/ \E j \in DOMAIN q : (q \o p)[i] = q[j]
                 \/ \E j \in DOMAIN p : (q \o p)[i] = p[j]
<1>1. /\ q \o p \in Seq(S) /\ Len(q \o p) = Len(q) + Len(p)
      /\ Len(q) \in Nat /\ Len(p) \in Nat
  OBVIOUS
<1>2. ASSUME NEW i \in 1..(Len(q) + Len(p))
      PROVE  \/ \E j \in DOMAIN q : (q \o p)[i] = q[j]
             \/ \E j \in DOMAIN p : (q \o p)[i] = p[j]
  <2>1. CASE i <= Len(q)
    BY <2>1, <1>1
  <2>2. CASE i > Len(q)
    <3>1. i - Len(q) \in DOMAIN p /\ (q \o p)[i] = p[i - Len(q)]
      BY <2>2, <1>1
    <3> QED BY <3>1
  <2> QED BY <2>1, <2>2, <1>1
<1> QED BY <1>1, <1>2

\* The same for one packet.
LEMMA WrittenOne ==
    ASSUME NEW S, NEW q \in Seq(S), NEW e \in S
    PROVE  /\ Append(q, e) \in Seq(S)
           /\ \A i \in DOMAIN Append(q, e) :
                 Append(q, e)[i] = e \/ \E j \in DOMAIN q : Append(q, e)[i] = q[j]
  OBVIOUS

\* What is in a connection after its first packet was taken, and what was taken.
LEMMA TakenOne ==
    ASSUME NEW S, NEW q \in Seq(S), q # <<>>
    PROVE  /\ Tail(q) \in Seq(S) /\ Head(q) \in S
           /\ \A i \in DOMAIN Tail(q) : \E j \in DOMAIN q : Tail(q)[i] = q[j]
           /\ \E j \in DOMAIN q : Head(q) = q[j]
<1>1. /\ Tail(q) \in Seq(S) /\ Len(Tail(q)) = Len(q) - 1 /\ Len(q) > 0
      /\ Head(q) = q[1] /\ Len(q) \in Nat
  OBVIOUS
<1>2. \A i \in 1..(Len(q) - 1) : i + 1 \in DOMAIN q /\ Tail(q)[i] = q[i + 1]
  BY <1>1
<1> QED BY <1>1, <1>2


\* What a read() leaves: packets that were there, and junk in place of the
\* beginning of a message.  The buffer holds halves.
LEMMA ReadsRest ==
    ASSUME NEW q \in Seq(Packets), NEW b \in Halves \X Halves,
           NEW eof \in BOOLEAN, NEW r \in Reads(b, q, eof)
    PROVE  /\ r.rest \in Seq(Packets) /\ Len(r.rest) <= Len(q)
           /\ \A i \in DOMAIN r.rest :
                 r.rest[i] = Junk \/ \E j \in DOMAIN q : r.rest[i] = q[j]
           /\ r.buf \in Halves \X Halves
<1>j. Junk \in Packets /\ Junk \in Halves /\ <<Junk, Junk>> \in Halves \X Halves
  BY JunkTypes
<1>1. CASE q = <<>>
  <2>1. r = Took(b, 0, q)
    BY <1>1 DEF Reads
  <2> QED BY <1>1, <2>1 DEF Took
<1> DEFINE t == Tail(q)
<1>t. ASSUME q # <<>>
      PROVE  /\ t \in Seq(Packets) /\ Len(t) = Len(q) - 1 /\ Len(q) \in Nat
             /\ Len(t) \in Nat
             /\ \A i \in DOMAIN t : \E j \in DOMAIN q : t[i] = q[j]
  BY <1>t, TakenOne
<1>2. CASE q # <<>> /\ ~IsHalf(Head(q))
  <2>1. r = Took(<<Junk, Junk>>, 2, t)
    BY <1>2 DEF Reads
  <2> QED BY <1>2, <1>t, <1>j, <2>1 DEF Took
<1>3. CASE q # <<>> /\ IsHalf(Head(q))
  <2>h. Head(q) \in Halves /\ b[1] \in Halves /\ b[2] \in Halves
    BY <1>3 DEF IsHalf
  <2>0. r \in ReadsHalf(b, q)
    BY <1>3 DEF Reads
  <2> HIDE DEF t
  <2>1. CASE r = Took(<<Head(q), b[2]>>, 1, t)
    BY <1>3, <1>t, <2>h, <2>1 DEF Took
  <2> DEFINE u == Tail(t)
  <2>t. ASSUME t # <<>>
        PROVE  /\ u \in Seq(Packets) /\ Len(u) = Len(t) - 1
               /\ \A i \in DOMAIN u : \E j \in DOMAIN t : u[i] = t[j]
    BY <1>3, <1>t, <2>t, TakenOne
  <2> HIDE DEF u
  <2>2. CASE t # <<>> /\ IsHalf(Head(t)) /\ r = Took(<<Head(q), Head(t)>>, 2, u)
    <3>1. r.rest = u /\ r.buf = <<Head(q), Head(t)>>
      BY <2>2 DEF Took
    <3>2. r.buf \in Halves \X Halves
      BY <3>1, <2>h, <2>2 DEF IsHalf
    <3>3. Len(u) <= Len(q)
      BY <1>3, <1>t, <2>t, <2>2
    <3> QED BY <1>3, <1>t, <2>t, <2>2, <3>1, <3>2, <3>3
  <2>3. CASE t # <<>> /\ r = Took(<<Head(q), Junk>>, 2, <<Junk>> \o u)
    <3>1. r.rest = <<Junk>> \o u /\ r.buf = <<Head(q), Junk>>
      BY <2>3 DEF Took
    <3>2. /\ <<Junk>> \o u \in Seq(Packets) /\ Len(<<Junk>> \o u) = 1 + Len(u)
          /\ <<Junk>> \in Seq(Packets)
      BY <2>t, <2>3, <1>j
    <3>3. \A i \in DOMAIN (<<Junk>> \o u) :
            \/ (<<Junk>> \o u)[i] = Junk
            \/ \E j \in DOMAIN u : (<<Junk>> \o u)[i] = u[j]
      BY <2>t, <2>3, <3>2, Written
    <3>4. \A i \in DOMAIN u : \E j \in DOMAIN q : u[i] = q[j]
      BY <1>3, <1>t, <2>t, <2>3
    <3>5. r.buf \in Halves \X Halves
      BY <3>1, <2>h, <1>j
    <3>6. Len(<<Junk>> \o u) <= Len(q)
      BY <1>3, <1>t, <2>t, <2>3, <3>2
    <3> HIDE DEF u
    <3> QED BY <3>1, <3>2, <3>3, <3>4, <3>5, <3>6
  <2> QED BY <2>0, <2>1, <2>2, <2>3 DEF ReadsHalf, t, u
<1> QED BY <1>1, <1>2, <1>3

----------------------------------------------------------------------------
(* Counting in packets.                                                    *)

\* Full packets in n bytes, whether n is a number of full packets, and how many
\* packets an image takes: the last may be full, and an empty image takes one.
Filled(n) == n \div MAX_DATA_SIZE
Multiple(n) == n = MAX_DATA_SIZE * Filled(n)
Needed(total) == IF total = 0 THEN 1 ELSE Filled(total - 1) + 1

\* A packet holds something.
LEMMA MaxIsPositive == MAX_DATA_SIZE \in Nat /\ MAX_DATA_SIZE > 0
  BY SizesAssumption

\* The full packets of n bytes, and what is left of less than a packet.
LEMMA FilledFits ==
    ASSUME NEW n \in Nat
    PROVE  /\ Filled(n) \in Nat
           /\ MAX_DATA_SIZE * Filled(n) <= n
           /\ n < MAX_DATA_SIZE * Filled(n) + MAX_DATA_SIZE
  BY MaxIsPositive DEF Filled

\* No other number of packets fits.
LEMMA FilledOnce ==
    ASSUME NEW n \in Nat, NEW k \in Nat,
           MAX_DATA_SIZE * k <= n, n < MAX_DATA_SIZE * k + MAX_DATA_SIZE
    PROVE  Filled(n) = k
<1> DEFINE f == Filled(n)
           M == MAX_DATA_SIZE
<1>1. f \in Nat /\ M * f <= n /\ n < M * f + M /\ M \in Nat /\ M > 0
  BY FilledFits, MaxIsPositive
<1>2. ASSUME NEW a \in Nat, NEW b \in Nat, a < b, M * b <= n, n < M * a + M
      PROVE  FALSE
  <2>1. b \in Int /\ a + 1 <= b
    BY <1>2
  <2>2. PICK d \in Nat : b = a + 1 + d
    <3>1. b - (a + 1) \in Nat /\ b = a + 1 + (b - (a + 1))
      BY <2>1
    <3> QED BY <3>1
  <2>3. M * b = M * a + M + M * d /\ M * d >= 0
    BY <2>2, <1>1
  <2>4. M * a \in Nat /\ M * b \in Nat /\ M * d \in Nat
    BY <1>1, <2>2
  <2> HIDE DEF M
  <2> QED BY <1>2, <2>3, <2>4, <1>1
<1> HIDE DEF f
<1>3. ~(f < k) /\ ~(k < f)
  BY <1>1, <1>2
<1> QED BY <1>1, <1>3 DEF f

\* One packet more is one more to count, and the last one is the one with which
\* at most a packet is left: the condition of the client's loop.
LEMMA CountOnePacket ==
    ASSUME NEW n \in Nat, NEW total \in Nat, Multiple(n)
    PROVE  /\ n + MAX_DATA_SIZE \in Nat /\ Multiple(n + MAX_DATA_SIZE)
           /\ Filled(n + MAX_DATA_SIZE) = Filled(n) + 1
           /\ total - n <= MAX_DATA_SIZE <=> Needed(total) <= Filled(n) + 1
<1> DEFINE f == Filled(n)
           M == MAX_DATA_SIZE
<1>1. f \in Nat /\ n = M * f /\ M \in Nat /\ M > 0
  BY FilledFits, MaxIsPositive DEF Multiple
<1> HIDE DEF f
<1>2. M * (f + 1) = n + M
  BY <1>1
<1>3. Filled(n + M) = f + 1
  BY <1>1, <1>2, FilledOnce
<1> HIDE DEF M
<1>4. ASSUME total = 0 PROVE total - n <= M <=> Needed(total) <= f + 1
  <2>1. Needed(total) = 1 /\ total - n <= M
    BY <1>1, <1>4 DEF Needed
  <2> QED BY <1>1, <2>1
<1>5. ASSUME total > 0 PROVE total - n <= M <=> Needed(total) <= f + 1
  <2> DEFINE g == Filled(total - 1)
  <2>1. g \in Nat /\ M * g <= total - 1 /\ total - 1 < M * g + M
    BY <1>5, FilledFits DEF M
  <2> HIDE DEF g
  <2>2. ASSUME g <= f PROVE total - n <= M
    <3>1. PICK d \in Nat : f = g + d
      <4>1. f - g \in Nat /\ f = g + (f - g)
        BY <2>1, <2>2, <1>1
      <4> QED BY <4>1
    <3>2. M * f = M * g + M * d /\ M * d \in Nat /\ M * g \in Nat
      BY <3>1, <2>1, <1>1
    <3> QED BY <3>2, <2>1, <1>1
  <2>3. ASSUME g > f PROVE total - n > M
    <3>1. PICK d \in Nat : g = f + 1 + d
      <4>1. g - (f + 1) \in Nat /\ g = f + 1 + (g - (f + 1))
        BY <2>1, <2>3, <1>1
      <4> QED BY <4>1
    <3>2. M * g = M * f + M + M * d /\ M * d \in Nat /\ M * f \in Nat
      BY <3>1, <2>1, <1>1
    <3> QED BY <3>2, <2>1, <1>1
  <2>4. Needed(total) = g + 1
    BY <1>5 DEF Needed, g
  <2>5. total - n <= M <=> g + 1 <= f + 1
    BY <2>1, <2>2, <2>3, <1>1
  <2> QED BY <2>4, <2>5
<1>6. Multiple(n + M)
  BY <1>1, <1>2, <1>3 DEF Multiple, M
<1> QED BY <1>1, <1>3, <1>4, <1>5, <1>6 DEF f, M

\* Nothing takes no full packet, and every image takes at least one.
LEMMA NoneFilled ==
    /\ Filled(0) = 0 /\ Multiple(0)
    /\ \A total \in Nat : Needed(total) \in Nat /\ Needed(total) >= 1
<1>1. Filled(0) = 0
  BY FilledOnce, MaxIsPositive
<1>2. Multiple(0)
  BY <1>1, MaxIsPositive DEF Multiple
<1>3. ASSUME NEW total \in Nat PROVE Needed(total) \in Nat
      /\ Needed(total) >= 1
  <2>1. CASE total = 0
    BY <2>1 DEF Needed
  <2>2. CASE total > 0
    BY <2>2, FilledFits DEF Needed
  <2> QED BY <2>1, <2>2
<1> QED BY <1>1, <1>2, <1>3

\* What one packet adds to a file that has all that was counted.
LEMMA OnePacketMore ==
    ASSUME NEW n \in Nat, NEW total \in Nat, Multiple(n), n <= total,
           NEW f \in Files, f.bytes = n, NEW b
    PROVE  /\ Extend(f, b, total, n) \in Files
           /\ Extend(f, b, total, n).bytes \in 0..total
           /\ n + MAX_DATA_SIZE \in Nat
           /\ n + MAX_DATA_SIZE <= total + MAX_DATA_SIZE
           /\ ~IsLast(total, n + MAX_DATA_SIZE) =>
                 /\ Multiple(n + MAX_DATA_SIZE) /\ n + MAX_DATA_SIZE <= total
                 /\ Extend(f, b, total, n).bytes = n + MAX_DATA_SIZE
                 /\ Filled(n + MAX_DATA_SIZE) < Needed(total)
<1>1. /\ n + MAX_DATA_SIZE \in Nat /\ Multiple(n + MAX_DATA_SIZE)
      /\ Filled(n + MAX_DATA_SIZE) = Filled(n) + 1
      /\ total - n <= MAX_DATA_SIZE <=> Needed(total) <= Filled(n) + 1
      /\ Filled(n) \in Nat /\ Needed(total) \in Nat
  BY CountOnePacket, FilledFits, NoneFilled
<1>2. MAX_DATA_SIZE \in Nat /\ MAX_DATA_SIZE > 0
  BY MaxIsPositive
<1>3. Expected(f.of, b, total, n) \in BOOLEAN
  BY DEF Expected
<1>4. /\ Rest(total, n) \in Nat /\ n + Rest(total, n) <= total
      /\ total - n >= MAX_DATA_SIZE => Rest(total, n) = MAX_DATA_SIZE
  BY <1>2 DEF Rest
<1>5. /\ Extend(f, b, total, n).bytes = n + Rest(total, n)
      /\ Extend(f, b, total, n).intact \in BOOLEAN
      /\ Extend(f, b, total, n) =
            [of |-> f.of, bytes |-> Extend(f, b, total, n).bytes,
             intact |-> Extend(f, b, total, n).intact]
  BY <1>3, <1>4 DEF Extend, Content, Files
<1>6. n + Rest(total, n) \in Nat
  BY <1>4
<1>7. Extend(f, b, total, n) \in Files
  BY <1>5, <1>6 DEF Files
<1>8. ~IsLast(total, n + MAX_DATA_SIZE) <=> total - n > MAX_DATA_SIZE
  BY <1>2 DEF IsLast
<1> QED BY <1>1, <1>2, <1>4, <1>5, <1>7, <1>8

----------------------------------------------------------------------------
(* The types, and what each side has counted.                              *)

\* The types of what the server keeps, what the client keeps, and the rest.
ServerTypes ==
    /\ image \in Files /\ (image = None \/ image.bytes \in Nat)
    /\ srv \in {"none", "read", "recv", "verdict", "send", "ack", "exit",
                "down"}
    /\ last \in Msgs
    /\ bytesCount \in Nat /\ filesize \in Nat /\ md5sum \in Files
    /\ pkt \in Halves \X Halves

ClientTypes ==
    /\ file \in BOOLEAN
    /\ copy \in Files /\ (copy = None \/ copy.bytes \in Nat)
    /\ buf \in Halves \X Halves
    /\ cli \in {"idle", "stat", "open", "sending", "verdict", "asked",
                "receiving", "received", "lost", "gone"}
    /\ fd_file \in BOOLEAN
    /\ announced \in Nat /\ sum \in Files /\ count_ \in Nat
    /\ told \in {"none", "I", "R"} /\ heard \in BOOLEAN /\ got \in BOOLEAN
    /\ commands \in 0..MaxCommands

StreamTypes ==
    /\ size \in Sizes /\ superuser \in BOOLEAN
    /\ toServer \in Seq(Packets) /\ Len(toServer) <= Window + 1
    /\ toClient \in Seq(Packets)
    /\ faults \subseteq {"short", "garbage", "mida", "clean", "kill", "crash"}

\* The counts of the thread, against the size that it parsed: of every packet
\* but the last it has the whole.  Of a server that is gone nothing is read any
\* more.
ServerCounts ==
    /\ srv = "recv" => /\ Multiple(bytesCount) /\ bytesCount <= filesize
                       /\ image.bytes = bytesCount
                       /\ Filled(bytesCount) < Needed(filesize)
    /\ srv = "verdict" => image.bytes \in 0..filesize
    /\ srv = "send" => /\ Multiple(bytesCount) /\ bytesCount <= image.bytes
                       /\ image # None
                       /\ Filled(bytesCount) < Needed(image.bytes)
    /\ srv \in {"none", "down"} => toServer = <<>>

\* The counts of the client, which has the same of the image it sends or
\* receives.
ClientCounts ==
    /\ cli = "sending" => /\ Multiple(count_) /\ count_ <= size
                          /\ Filled(count_) < Needed(size)
    /\ cli = "receiving" => /\ Multiple(count_) /\ count_ <= announced
                            /\ copy = None \/ copy.bytes = count_
                            /\ Filled(count_) < Needed(announced)
    /\ cli = "received" => copy.bytes <= announced
    /\ cli = "gone" => toClient = <<>>

Typed ==
    ServerTypes /\ ClientTypes /\ StreamTypes /\ ServerCounts /\ ClientCounts

\* The size of the image is a number of bytes.
LEMMA SizeIsNat == Typed => size \in Nat
  BY SizesAssumption DEF Typed, StreamTypes

\* An answer of the thread is behind what was in the connection, a message of
\* the client too.
LEMMA Answered ==
    ASSUME Typed, NEW m \in Packets, Answer(m)
    PROVE  /\ toClient' \in Seq(Packets)
           /\ \A i \in DOMAIN toClient' :
                 \/ toClient'[i] = m
                 \/ \E j \in DOMAIN toClient : toClient'[i] = toClient[j]
           /\ cli = "gone" => toClient' = toClient
  BY WrittenOne DEF Typed, StreamTypes, Answer

LEMMA ToldServer ==
    ASSUME Typed, NEW q \in Seq(Packets), Len(q) \in 1..2, Tell(q)
    PROVE  /\ toServer' \in Seq(Packets)
           /\ \A i \in DOMAIN toServer' :
                 \/ \E j \in DOMAIN q : toServer'[i] = q[j]
                 \/ \E j \in DOMAIN toServer : toServer'[i] = toServer[j]
           /\ Len(toServer') <= Window + 1
           /\ srv \in {"none", "down"} => toServer' = toServer
<1>1. /\ toServer \in Seq(Packets) /\ Len(toServer) < Window
      /\ Len(toServer) <= Window + 1
      /\ \/ toServer' = toServer
         \/ toServer' = toServer \o q /\ srv \notin {"none", "down"}
  BY DEF Typed, StreamTypes, Tell
<1>2. srv \in {"none", "down"} => toServer' = toServer
  BY DEF Tell
<1>3. CASE toServer' = toServer
  BY <1>1, <1>2, <1>3
<1>4. CASE toServer' = toServer \o q
  <2>1. /\ Len(toServer \o q) = Len(toServer) + Len(q)
        /\ Len(toServer) \in Nat /\ Len(q) \in Nat /\ Window \in Nat
    BY <1>1, SizesAssumption
  <2>2. Len(toServer') <= Window + 1
    BY <1>1, <1>4, <2>1
  <2>3. /\ toServer \o q \in Seq(Packets)
        /\ \A i \in DOMAIN (toServer \o q) :
              \/ \E j \in DOMAIN toServer : (toServer \o q)[i] = toServer[j]
              \/ \E j \in DOMAIN q : (toServer \o q)[i] = q[j]
    BY <1>1, Written
  <2> QED BY <1>2, <1>4, <2>2, <2>3
<1> QED BY <1>1, <1>3, <1>4

\* The same for one message.
LEMMA ToldMessage ==
    ASSUME Typed, NEW m \in Packets, Tell(<<m>>)
    PROVE  /\ toServer' \in Seq(Packets)
           /\ \A i \in DOMAIN toServer' :
                 \/ toServer'[i] = m
                 \/ \E j \in DOMAIN toServer : toServer'[i] = toServer[j]
           /\ Len(toServer') <= Window + 1
           /\ srv \in {"none", "down"} => toServer' = toServer
<1> DEFINE q == <<m>>
<1>1. q \in Seq(Packets) /\ Len(q) \in 1..2 /\ Tell(q)
      /\ \A j \in DOMAIN q : q[j] = m
  OBVIOUS
<1> HIDE DEF q
<1> QED BY <1>1, ToldServer

\* A header opens the file for the size that is read of it, or ends the thread.
LEMMA OpenKeeps ==
    ASSUME Typed, NEW m \in Msgs, OpenUpload(m), last' \in Msgs, srv = "read"
    PROVE  /\ ServerTypes' /\ (toServer' \in Seq(Packets) => ServerCounts')
           /\ toClient' \in Seq(Packets)
           /\ cli = "gone" => toClient' = toClient
           /\ faults \subseteq faults' /\ faults' \subseteq faults \cup {"mida"}
<1> USE DEF ServerTypes, ServerCounts
<1>m. m.size \in Nat /\ m.md5 \in Files
  BY DEF Msgs
<1>f. ServerTypes /\ StreamTypes
  BY DEF Typed
<1>1. CASE /\ image' = Empty(m.size) /\ bytesCount' = 0 /\ md5sum' = m.md5
           /\ pkt' = <<Junk, Junk>> /\ srv' = "recv" /\ UNCHANGED toClient
           /\ \E t \in Tails :
                filesize' = Parsed(m.size, t) /\ faults' = Misread(m.size, t)
  <2>1. filesize' \in Nat
    BY <1>1, <1>m, ParsedIsNat
  <2>2. /\ Filled(0) = 0 /\ Multiple(0) /\ Needed(filesize') >= 1
        /\ Needed(filesize') \in Nat
    BY <2>1, NoneFilled
  <2>3. image' \in Files /\ image'.bytes = 0
    BY <1>1, <1>m, ContentTypes
  <2>4. ServerTypes' /\ ServerCounts'
    BY <1>1, <1>m, <2>1, <2>2, <2>3, JunkTypes
  <2>5. faults \subseteq faults' /\ faults' \subseteq faults \cup {"mida"}
    BY <1>1 DEF Misread
  <2> QED BY <1>1, <1>f, <2>4, <2>5 DEF StreamTypes
<1>2. CASE /\ srv' = "exit" /\ Answer(ImageKO)
           /\ UNCHANGED <<image, bytesCount, filesize, md5sum, pkt, faults>>
  BY <1>2, <1>f, Answered, PlainTypes
<1> QED BY <1>1, <1>2 DEF OpenUpload

\* What the thread takes of the connection, and what it leaves there.
LEMMA ThreadTakes ==
    ASSUME Typed, ThreadSteps
    PROVE  toServer' \in Seq(Packets) /\ Len(toServer') <= Window + 1
<1>f. /\ toServer \in Seq(Packets) /\ Len(toServer) <= Window + 1
      /\ pkt \in Halves \X Halves
      /\ Len(toServer) \in Nat /\ Window \in Nat
  BY SizesAssumption DEF Typed, StreamTypes, ServerTypes
<1>1. CASE UNCHANGED toServer
  BY <1>1, <1>f
<1>2. CASE toServer # <<>> /\ toServer' = Tail(toServer)
  <2>1. Tail(toServer) \in Seq(Packets) /\ Len(Tail(toServer)) = Len(toServer) - 1
    BY <1>f, <1>2
  <2> QED BY <1>f, <1>2, <2>1
<1>3. CASE ReceiveChunk \/ ReadOther
  <2>1. PICK eof \in BOOLEAN :
            \E r \in Reads(pkt, toServer, eof) : toServer' = r.rest
    BY <1>3 DEF ReceiveChunk, ReadOther
  <2>2. PICK r \in Reads(pkt, toServer, eof) : toServer' = r.rest
    BY <2>1
  <2>3. toServer' \in Seq(Packets) /\ Len(toServer') <= Len(toServer)
    BY <1>f, <2>2, ReadsRest
  <2> QED BY <1>f, <2>3
<1> QED
  BY <1>1, <1>2, <1>3
  DEF ThreadSteps, ReadUpload, ReplayUpload, Verdict, ReadPhoto, SendChunk,
      ReadAck

\* The thread counts every packet of an image once.
LEMMA ThreadKeeps ==
    ASSUME Typed, ThreadSteps
    PROVE  /\ ServerTypes' /\ ServerCounts'
           /\ toClient' \in Seq(Packets)
           /\ cli = "gone" => toClient' = toClient
           /\ faults \subseteq faults'
           /\ faults' \subseteq faults \cup {"short", "garbage", "mida"}
<1> USE DEF ServerTypes, ServerCounts
<1>f. /\ ServerTypes /\ ServerCounts /\ toClient \in Seq(Packets)
      /\ toServer \in Seq(Packets)
  BY DEF Typed, StreamTypes
<1>s. toServer' \in Seq(Packets)
  BY ThreadTakes
<1>1. CASE ReadUpload
  <2>1. /\ srv = "read" /\ toServer # <<>> /\ Head(toServer) \in Msgs
        /\ OpenUpload(Head(toServer)) /\ last' = Head(toServer)
    BY <1>1 DEF ReadUpload
  <2> QED BY <2>1, <1>s, OpenKeeps
<1>2. CASE ReplayUpload
  BY <1>2, <1>f, <1>s, OpenKeeps DEF ReplayUpload
<1>3. CASE ReceiveChunk
  <2>1. PICK r \in Reads(pkt, toServer, cli = "gone") :
          pkt' = r.buf /\ image' = Extend(image, r.buf, filesize, bytesCount)
    BY <1>3 DEF ReceiveChunk
  <2>2. /\ srv = "recv" /\ bytesCount' = bytesCount + MAX_DATA_SIZE
        /\ srv' = (IF IsLast(filesize, bytesCount') THEN "verdict" ELSE "recv")
        /\ UNCHANGED <<last, filesize, md5sum, toClient>>
        /\ faults' \in {faults, faults \cup {"short"}}
    BY <1>3 DEF ReceiveChunk
  <2>3. pkt' \in Halves \X Halves
    BY <2>1, <1>f, ReadsRest
  <2>4. /\ filesize \in Nat /\ Multiple(bytesCount) /\ bytesCount <= filesize
        /\ bytesCount \in Nat
        /\ image \in Files /\ image.bytes = bytesCount
    BY <1>f, <2>2
  <2>5. /\ image' \in Files /\ image'.bytes \in 0..filesize
        /\ bytesCount' \in Nat
        /\ ~IsLast(filesize, bytesCount') =>
              /\ Multiple(bytesCount') /\ bytesCount' <= filesize
              /\ image'.bytes = bytesCount'
              /\ Filled(bytesCount') < Needed(filesize)
    BY <2>1, <2>2, <2>4, OnePacketMore
  <2>6. ServerTypes'
    BY <1>f, <2>2, <2>3, <2>5
  <2>7. ServerCounts'
    BY <1>f, <2>2, <2>4, <2>5
  <2> QED BY <1>f, <2>2, <2>6, <2>7
<1>4. CASE Verdict
  <2>1. /\ image' = None \/ image' = image
        /\ srv' \in {"read", "exit"} /\ srv = "verdict"
        /\ faults' \in {faults, faults \cup {"garbage"}}
        /\ UNCHANGED <<last, bytesCount, filesize, md5sum, pkt>>
        /\ Answer(ImageOK) \/ Answer(ImageKO)
    BY <1>4 DEF Verdict
  <2>2. toClient' \in Seq(Packets) /\ (cli = "gone" => toClient' = toClient)
    BY <2>1, Answered, PlainTypes
  <2> QED BY <1>f, <2>1, <2>2, ContentTypes
<1>5. CASE ReadPhoto
  <2>1. /\ srv' \in {"exit", "send"} /\ last' = Request
        /\ bytesCount' \in {0, bytesCount}
        /\ srv' = "send" => bytesCount' = 0 /\ image # None
        /\ UNCHANGED <<image, filesize, md5sum, pkt, faults>>
    BY <1>5 DEF ReadPhoto
  <2>2. image # None => image.bytes \in Nat
    BY <1>f
  <2>3. /\ Filled(0) = 0 /\ Multiple(0)
        /\ image # None => Needed(image.bytes) \in Nat /\ Needed(image.bytes) >= 1
    BY <2>2, NoneFilled
  <2>4. toClient' \in Seq(Packets) /\ (cli = "gone" => toClient' = toClient)
    <3>1. image # None => Msg("F", image.bytes, image) \in Packets
      BY <1>f, <2>2, MsgTypes
    <3> QED BY <1>5, <3>1, Answered, PlainTypes DEF ReadPhoto
  <2>5. ServerTypes'
    BY <1>f, <2>1, PlainTypes
  <2>6. ServerCounts'
    BY <2>1, <2>2, <2>3
  <2> QED BY <2>1, <2>4, <2>5, <2>6
<1>6. CASE SendChunk
  <2>1. /\ srv = "send" /\ bytesCount' = bytesCount + MAX_DATA_SIZE
        /\ srv' = (IF image.bytes - bytesCount > MAX_DATA_SIZE THEN "send"
                   ELSE "ack")
        /\ UNCHANGED <<image, last, filesize, md5sum, pkt, faults>>
    BY <1>6 DEF SendChunk
  <2>2. /\ image # None /\ Multiple(bytesCount) /\ bytesCount <= image.bytes
        /\ bytesCount \in Nat /\ image.bytes \in Nat /\ image.of \in Nat
    BY <1>f, <2>1 DEF Files
  <2>3. /\ bytesCount' \in Nat /\ Multiple(bytesCount')
        /\ Filled(bytesCount') = Filled(bytesCount) + 1
        /\ image.bytes - bytesCount <= MAX_DATA_SIZE <=>
              Needed(image.bytes) <= Filled(bytesCount) + 1
        /\ Filled(bytesCount) \in Nat /\ Needed(image.bytes) \in Nat
    BY <2>1, <2>2, CountOnePacket, FilledFits, NoneFilled
  <2>4. ServerTypes'
    BY <1>f, <2>1, <2>2, <2>3, MaxIsPositive
  <2>5. ServerCounts'
    BY <1>f, <2>1, <2>2, <2>3, MaxIsPositive
  <2>6. toClient' \in Seq(Packets) /\ (cli = "gone" => toClient' = toClient)
    <3>1. Chunk(image.of, bytesCount \div MAX_DATA_SIZE + 1) \in Seq(Packets)
      BY <2>2, ChunkTypes
    <3> QED BY <1>6, <1>f, <3>1, Written DEF SendChunk
  <2> QED BY <2>1, <2>4, <2>5, <2>6
<1>7. CASE ReadAck \/ ReadOther
  <2>1. /\ srv' \in {"read", "exit"} /\ srv \in {"read", "ack"}
        /\ last' \in {Request, last}
        /\ UNCHANGED <<image, bytesCount, filesize, md5sum, pkt, faults, toClient>>
    BY <1>7 DEF ReadAck, ReadOther
  <2> QED BY <1>f, <2>1, PlainTypes
<1> QED
  BY <1>1, <1>2, <1>3, <1>4, <1>5, <1>6, <1>7 DEF ThreadSteps

\* What the others do to the server: nothing, or it ends and starts again.
LEMMA ServerKeeps ==
    ASSUME Typed, Next
    PROVE  ServerTypes' /\ ServerCounts'
<1> USE DEF ServerTypes, ServerCounts
<1>f. ServerTypes /\ ServerCounts
  BY DEF Typed
<1>0. CASE UNCHANGED serverVars /\ (toServer' = toServer \/ \E q : Tell(q))
  <2>1. srv \in {"none", "down"} => toServer' = toServer
    BY <1>0 DEF Tell
  <2> QED BY <1>0, <1>f, <2>1 DEF serverVars
<1>1. CASE Crash
  <2>1. /\ srv' = "down" /\ last' = Request /\ bytesCount' = 0 /\ filesize' = 0
        /\ md5sum' = None /\ pkt' = <<Junk, Junk>> /\ toServer' = <<>>
        /\ UNCHANGED image
    BY <1>1 DEF Crash
  <2> QED BY <1>f, <2>1, JunkTypes, PlainTypes, ContentTypes
<1>2. CASE Restart \/ Connect
  <2>1. /\ srv \in {"none", "down"} /\ srv' \in {"none", "read"}
        /\ UNCHANGED <<image, last, bytesCount, filesize, md5sum, pkt,
                       toServer>>
    BY <1>2 DEF Restart, Connect, net
  <2> QED BY <1>f, <2>1
<1> QED
  BY <1>0, <1>1, <1>2, ThreadKeeps
  DEF Next, ClientSteps, SendHeader, OpenFile, WriteChunk, ReadVerdict,
      ReadHeader, ReadChunk, CheckCopy, NoHeader, TypeSend, TypePhoto, CleanUp,
      Kill, net

\* The client counts every packet of an image once.
LEMMA ClientStepKeeps ==
    ASSUME Typed, ClientSteps
    PROVE  ClientTypes' /\ ClientCounts'
<1> USE DEF ClientTypes, ClientCounts, ClientStep
<1>0. size \in Nat /\ size' = size
  BY SizeIsNat
  DEF ClientSteps, SendHeader, OpenFile, WriteChunk, ReadVerdict, ReadHeader,
      ReadChunk, CheckCopy, NoHeader
<1>f. ClientTypes /\ ClientCounts /\ toClient \in Seq(Packets)
  BY DEF Typed, StreamTypes
<1>1. CASE SendHeader \/ NoHeader
  <2>1. /\ cli' \in {"open", "lost"}
        /\ UNCHANGED <<file, copy, buf, fd_file, announced, sum, count_, told,
                       heard, got, commands>>
    BY <1>1 DEF SendHeader, NoHeader
  <2> QED BY <1>0, <1>f, <2>1
<1>2. CASE OpenFile
  <2>1. /\ cli' = "sending" /\ fd_file' = file /\ count_' = 0
        /\ UNCHANGED <<file, copy, buf, announced, sum, told, heard, got,
                       commands>>
    BY <1>2 DEF OpenFile
  <2>2. Filled(0) = 0 /\ Multiple(0) /\ Needed(size) \in Nat
        /\ Needed(size) >= 1
    BY <1>0, NoneFilled
  <2> QED BY <1>0, <1>f, <2>1, <2>2
<1>3. CASE WriteChunk
  <2>1. /\ cli = "sending"
        /\ UNCHANGED <<file, copy, buf, fd_file, announced, sum, told, heard,
                       got, commands>>
        /\ \/ /\ size - count_ > MAX_DATA_SIZE /\ cli' = cli
              /\ count_' \in {count_, count_ + MAX_DATA_SIZE}
           \/ cli' = "verdict" /\ count_' = count_
    BY <1>3 DEF WriteChunk
  <2>2. count_ \in Nat /\ Multiple(count_) /\ count_ <= size
        /\ Filled(count_) < Needed(size)
    BY <1>f, <2>1
  <2>3. /\ count_ + MAX_DATA_SIZE \in Nat /\ Multiple(count_ + MAX_DATA_SIZE)
        /\ Filled(count_ + MAX_DATA_SIZE) = Filled(count_) + 1
        /\ size - count_ <= MAX_DATA_SIZE <=> Needed(size) <= Filled(count_) + 1
        /\ Filled(count_) \in Nat /\ Needed(size) \in Nat
    BY <1>0, <2>2, CountOnePacket, FilledFits, NoneFilled
  <2>4. ClientTypes'
    BY <1>f, <2>1, <2>2, <2>3
  <2>5. ClientCounts'
    BY <1>0, <1>f, <2>1, <2>2, <2>3, MaxIsPositive
  <2> QED BY <2>4, <2>5
<1>4. CASE ReadVerdict
  <2>1. /\ cli' = "idle" /\ told' \in {told, "I", "R"}
        /\ heard' \in {heard, TRUE, FALSE}
        /\ UNCHANGED <<file, copy, buf, fd_file, announced, sum, count_, got,
                       commands>>
    BY <1>4 DEF ReadVerdict
  <2> QED BY <1>f, <2>1
<1>5. CASE ReadHeader
  <2> DEFINE m == Head(toClient)
  <2>1. CASE /\ cli' \in {"idle", "lost"}
             /\ UNCHANGED <<file, copy, buf, fd_file, announced, sum, count_,
                            told, heard, got, commands>>
    BY <1>f, <2>1
  <2>2. CASE /\ m \in Msgs /\ cli' = "receiving" /\ copy' = Empty(m.md5.of)
             /\ \E t \in Tails : announced' = Parsed(m.size, t)
             /\ sum' = m.md5 /\ count_' = 0 /\ buf' = <<Junk, Junk>>
             /\ UNCHANGED <<file, fd_file, told, heard, got, commands>>
    <3>1. m.size \in Nat /\ m.md5 \in Files /\ m.md5.of \in Nat
      BY <2>2 DEF Msgs, Files
    <3> HIDE DEF m
    <3>2. announced' \in Nat
      BY <2>2, <3>1, ParsedIsNat
    <3>3. Filled(0) = 0 /\ Multiple(0) /\ Needed(announced') \in Nat
          /\ Needed(announced') >= 1
      BY <3>2, NoneFilled
    <3>4. copy' \in Files /\ copy'.bytes = 0
      BY <2>2, <3>1, ContentTypes
    <3>5. ClientTypes'
      BY <1>f, <2>2, <3>1, <3>2, <3>4, JunkTypes
    <3>6. ClientCounts'
      BY <2>2, <3>2, <3>3, <3>4
    <3> QED BY <3>5, <3>6
  <2> QED BY <1>5, <2>1, <2>2 DEF ReadHeader
<1>6. CASE ReadChunk
  <2>1. PICK r \in Reads(buf, toClient, ServerGone) :
          /\ buf' = r.buf
          /\ copy' = IF copy = None THEN None
                     ELSE Extend(copy, r.buf, announced, count_)
    BY <1>6 DEF ReadChunk
  <2>2. /\ cli = "receiving" /\ count_' = count_ + MAX_DATA_SIZE
        /\ cli' = (IF IsLast(announced, count_') THEN "received" ELSE "receiving")
        /\ UNCHANGED <<file, fd_file, announced, sum, told, heard, got, commands>>
    BY <1>6 DEF ReadChunk
  <2>3. ServerGone \in BOOLEAN
    BY DEF ServerGone
  <2>4. buf' \in Halves \X Halves
    BY <1>f, <2>1, <2>3, ReadsRest
  <2>5. /\ Multiple(count_) /\ count_ <= announced /\ copy \in Files
        /\ count_ \in Nat /\ announced \in Nat
        /\ copy = None \/ copy.bytes = count_
    BY <1>f, <2>2
  <2>c. CASE copy = None
    <3>1. /\ count_' \in Nat
          /\ ~IsLast(announced, count_') =>
                /\ Multiple(count_') /\ count_' <= announced
                /\ Filled(count_') < Needed(announced)
      <4>1. Image(count_) \in Files /\ Image(count_).bytes = count_
        BY <2>5, ContentTypes
      <4> QED BY <2>2, <2>5, <4>1, OnePacketMore
    <3>2. copy' = None /\ copy'.bytes = -1
      BY <2>1, <2>c, ContentTypes
    <3> HIDE DEF IsLast
    <3>3. ClientTypes'
      BY <1>f, <2>2, <2>4, <3>1, <3>2, ContentTypes
    <3>4. ClientCounts'
      BY <2>2, <2>5, <3>1, <3>2
    <3> QED BY <3>3, <3>4
  <2>d. CASE copy # None
    <3>1. /\ copy' \in Files /\ copy'.bytes \in 0..announced
          /\ count_' \in Nat
          /\ ~IsLast(announced, count_') =>
                /\ Multiple(count_') /\ count_' <= announced
                /\ copy'.bytes = count_' /\ Filled(count_') < Needed(announced)
      BY <2>1, <2>2, <2>5, <2>d, OnePacketMore
    <3>3. ClientTypes'
      BY <1>f, <2>2, <2>4, <3>1
    <3>4. ClientCounts'
      BY <2>2, <2>5, <3>1
    <3> QED BY <3>3, <3>4
  <2> QED BY <2>c, <2>d
<1>7. CASE CheckCopy
  <2>1. /\ cli' = "idle" /\ copy' \in {copy, None} /\ got' \in {got, TRUE}
        /\ UNCHANGED <<file, fd_file, announced, sum, count_, buf, told, heard,
                       commands>>
    BY <1>7 DEF CheckCopy
  <2> QED BY <1>f, <2>1, ContentTypes
<1> QED
  BY <1>1, <1>2, <1>3, <1>4, <1>5, <1>6, <1>7 DEF ClientSteps

\* The same for every step of the system.
LEMMA ClientKeeps ==
    ASSUME Typed, Next
    PROVE  ClientTypes' /\ ClientCounts'
<1> USE DEF ClientTypes, ClientCounts, ClientStep
<1>f. ClientTypes /\ ClientCounts
  BY DEF Typed
<1>n. None' = None /\ None \in Files /\ None.bytes = -1
  BY ContentTypes DEF None, Content
<1>1. CASE ThreadSteps \/ Restart \/ Crash
  <2>1. UNCHANGED <<size, clientVars>>
    BY <1>1
    DEF ThreadSteps, ReadUpload, ReplayUpload, ReceiveChunk, Verdict, ReadPhoto,
        SendChunk, ReadAck, ReadOther, Restart, Crash
  <2>2. cli = "gone" => toClient' = toClient
    BY <1>1, ThreadKeeps DEF Restart, Crash, net
  <2> QED BY <1>f, <1>n, <2>1, <2>2 DEF clientVars
<1>2. CASE TypeSend \/ TypePhoto
  <2>1. /\ cli' \in {"stat", "asked"} /\ commands < MaxCommands
        /\ commands' = commands + 1
        /\ got' \in {got, FALSE}
        /\ UNCHANGED <<file, copy, buf, fd_file, announced, sum, count_, told,
                       heard>>
    BY <1>2 DEF TypeSend, TypePhoto
  <2>2. commands' \in 0..MaxCommands
    BY <1>f, <2>1, SizesAssumption
  <2> QED BY <1>f, <2>1, <2>2
<1>3. CASE CleanUp
  <2>1. /\ file' = FALSE /\ copy' = None /\ cli' = cli /\ cli # "gone"
        /\ UNCHANGED <<size, buf, fd_file, announced, sum, count_, told, heard,
                       got, commands>>
    BY <1>3 DEF CleanUp
  <2>2. ClientTypes'
    BY <1>f, <1>n, <2>1
  <2>3. announced' \in Nat /\ copy'.bytes = -1 /\ copy' = None'
    BY <1>f, <1>n, <2>1
  <2>4. ClientCounts'
    BY <1>f, <2>1, <2>3
  <2> QED BY <2>2, <2>4
<1>4. CASE Kill
  BY <1>f, <1>4 DEF Kill
<1>5. CASE Connect
  <2>1. /\ cli' = "idle" /\ buf' = <<Junk, Junk>> /\ fd_file' = FALSE
        /\ announced' = 0 /\ sum' = None /\ count_' = 0
        /\ UNCHANGED <<file, copy, told, heard, got, commands>>
    BY <1>5 DEF Connect
  <2> QED BY <1>f, <1>n, <2>1, JunkTypes
<1> QED
  BY <1>1, <1>2, <1>3, <1>4, <1>5, ClientStepKeeps DEF Next

\* What the client writes into the connection to the server.
LEMMA ClientWrites ==
    ASSUME Typed, ClientSteps \/ TypePhoto \/ TypeSend
    PROVE  toServer' \in Seq(Packets) /\ Len(toServer') <= Window + 1
<1>f. /\ StreamTypes /\ size \in Nat /\ count_ \in Nat
      /\ toServer \in Seq(Packets) /\ Len(toServer) <= Window + 1
  BY SizeIsNat DEF Typed, StreamTypes, ClientTypes
<1>1. CASE UNCHANGED toServer
  BY <1>1, <1>f
<1>2. CASE SendHeader
  <2> DEFINE m == Msg("F", size, IF file THEN Image(size) ELSE None)
  <2>1. m \in Packets
    BY <1>f, MsgTypes, ContentTypes
  <2>2. Tell(<<m>>)
    BY <1>2 DEF SendHeader
  <2> HIDE DEF m
  <2> QED BY <2>1, <2>2, ToldMessage
<1>3. CASE TypePhoto \/ CheckCopy \/ ReadHeader
  BY <1>1, <1>3, ToldMessage, PlainTypes DEF TypePhoto, CheckCopy, ReadHeader
<1>4. CASE WriteChunk
  <2>1. /\ Chunk(size, count_ \div MAX_DATA_SIZE + 1) \in Seq(Packets)
        /\ Len(Chunk(size, count_ \div MAX_DATA_SIZE + 1)) = 2
    BY <1>f, ChunkTypes
  <2> DEFINE q == IF fd_file THEN Chunk(size, count_ \div MAX_DATA_SIZE + 1)
                  ELSE <<Junk, Junk>>
  <2>2. q \in Seq(Packets) /\ Len(q) \in 1..2
    BY <2>1, JunkTypes
  <2>3. Tell(q)
    BY <1>4 DEF WriteChunk
  <2> HIDE DEF q
  <2> QED BY <2>2, <2>3, ToldServer
<1> QED
  BY <1>1, <1>2, <1>3, <1>4
  DEF ClientSteps, OpenFile, ReadVerdict, ReadChunk, NoHeader, TypeSend, net

\* No connection holds more than it can, and nothing but packets.
LEMMA StreamKeeps ==
    ASSUME Typed, Next
    PROVE  StreamTypes'
<1> USE DEF StreamTypes
<1>f. StreamTypes /\ buf \in Halves \X Halves
  BY DEF Typed, ClientTypes
<1>1. CASE ThreadSteps
  <2>1. UNCHANGED <<size, superuser>>
    BY <1>1
    DEF ThreadSteps, ReadUpload, ReplayUpload, ReceiveChunk, Verdict, ReadPhoto,
        SendChunk, ReadAck, ReadOther
  <2> QED BY <1>f, <1>1, <2>1, ThreadTakes, ThreadKeeps
<1>c. ASSUME ClientSteps \/ TypePhoto \/ TypeSend,
             UNCHANGED superuser, size' \in Sizes,
             toClient' \in Seq(Packets),
             faults' \subseteq faults \cup {"short", "garbage", "mida"}
      PROVE  StreamTypes'
  BY <1>f, <1>c, ClientWrites
<1>t. toClient # <<>> => Tail(toClient) \in Seq(Packets)
  BY <1>f
<1>2. CASE SendHeader \/ OpenFile \/ WriteChunk \/ NoHeader \/ CheckCopy
  BY <1>2, <1>c, <1>f
  DEF ClientSteps, SendHeader, OpenFile, WriteChunk, NoHeader, CheckCopy, net
<1>3. CASE TypeSend \/ TypePhoto
  BY <1>3, <1>c, <1>f DEF TypeSend, TypePhoto, net
<1>4. CASE ReadVerdict \/ ReadChunk
  <2>1. CASE toClient' = toClient
    BY <1>4, <2>1, <1>c, <1>f DEF ClientSteps, ReadVerdict, ReadChunk
  <2>2. CASE \E eof \in BOOLEAN :
                \E r \in Reads(buf, toClient, eof) : toClient' = r.rest
    <3>1. toClient' \in Seq(Packets)
      BY <2>2, <1>f, ReadsRest
    <3> QED BY <1>4, <3>1, <1>c, <1>f DEF ClientSteps, ReadVerdict, ReadChunk
  <2>3. ServerGone \in BOOLEAN
    BY DEF ServerGone
  <2> QED BY <1>4, <2>1, <2>2, <2>3 DEF ReadVerdict, ReadChunk
<1>5. CASE ReadHeader
  <2>1. faults' \subseteq faults \cup {"mida"}
    BY <1>5 DEF ReadHeader, Misread
  <2>2. UNCHANGED <<size, superuser>> /\ toClient' \in Seq(Packets)
    BY <1>5, <1>t DEF ReadHeader
  <2> QED BY <1>5, <2>1, <2>2, <1>c, <1>f DEF ClientSteps
<1>6. CASE CleanUp \/ Kill \/ Crash \/ Restart \/ Connect
  <2>1. /\ UNCHANGED <<size, superuser>>
        /\ toServer' \in {toServer, <<>>} /\ toClient' \in {toClient, <<>>}
        /\ faults' \subseteq faults \cup {"clean", "kill", "crash"}
    BY <1>6 DEF CleanUp, Kill, Crash, Restart, Connect, net
  <2>2. <<>> \in Seq(Packets) /\ Len(<<>>) <= Window + 1
    BY SizesAssumption
  <2> QED BY <1>f, <2>1, <2>2
<1> QED
  BY <1>1, <1>2, <1>3, <1>4, <1>5, <1>6 DEF Next, ClientSteps

\* Every step keeps the types and the counts.
LEMMA TypedKept ==
    ASSUME Typed, Next
    PROVE  Typed'
  BY ServerKeeps, ClientKeeps, StreamKeeps DEF Typed

\* Nothing was counted yet.
LEMMA TypedInit == Init => Typed
<1> SUFFICES ASSUME Init PROVE Typed
  OBVIOUS
<1> USE DEF Init
<1>1. ServerTypes
  BY JunkTypes, PlainTypes, ContentTypes DEF ServerTypes
<1>2. ClientTypes
  <2>1. 0 \in 0..MaxCommands
    BY SizesAssumption
  <2>2. file \in BOOLEAN /\ fd_file \in BOOLEAN /\ heard \in BOOLEAN
        /\ got \in BOOLEAN
    OBVIOUS
  <2>3. copy = None /\ None \in Files /\ sum = None
    BY ContentTypes
  <2>4. buf \in Halves \X Halves
    BY JunkTypes
  <2>5. commands \in 0..MaxCommands /\ announced \in Nat /\ count_ \in Nat
    BY <2>1
  <2> QED BY <2>2, <2>3, <2>4, <2>5 DEF ClientTypes
<1>3. StreamTypes
  BY SizesAssumption DEF StreamTypes
<1>4. ServerCounts /\ ClientCounts
  BY DEF ServerCounts, ClientCounts
<1> QED BY <1>1, <1>2, <1>3, <1>4 DEF Typed

\* A step that changes nothing keeps them.
LEMMA TypedStutter ==
    ASSUME Typed, UNCHANGED vars
    PROVE  Typed'
<1> USE DEF Typed, vars, serverVars, clientVars, net
<1>1. ServerTypes' /\ ServerCounts'
  BY DEF ServerTypes, ServerCounts
<1>2. ClientTypes' /\ ClientCounts'
  BY DEF ClientTypes, ClientCounts
<1>3. StreamTypes'
  BY DEF StreamTypes
<1> QED BY <1>1, <1>2, <1>3

\* Every variable has its type, and what was counted and written stays within
\* the sizes that were parsed, whatever they were parsed of (network.c:346-361,
\* Fremen network.c:348-393).
THEOREM TransferTypes == Spec => []TypeOK
<1>1. Typed /\ [Next]_vars => Typed'
  BY TypedKept, TypedStutter
<1>2. Typed => TypeOK
  <2> SUFFICES ASSUME Typed PROVE TypeOK
    OBVIOUS
  <2>1. Halves \cup Msgs = Packets
    BY DEF Packets
  <2>2. image.bytes \in Nat \cup {-1} /\ copy.bytes \in Nat \cup {-1}
    BY DEF Typed, ServerTypes, ClientTypes, Files
  <2>3. srv = "recv" => bytesCount <= filesize /\ image.bytes <= filesize
    BY DEF Typed, ServerCounts
  <2>4. srv = "verdict" => image.bytes <= filesize
    BY DEF Typed, ServerCounts
  <2>5. cli = "receiving" => count_ <= announced /\ copy.bytes <= announced
    BY ContentTypes DEF Typed, ClientTypes, ClientCounts
  <2> QED
    BY <2>1, <2>2, <2>3, <2>4, <2>5
    DEF Typed, TypeOK, ServerTypes, ClientTypes, StreamTypes, ServerCounts,
        ClientCounts
<1> QED BY <1>1, <1>2, TypedInit, PTL DEF Spec

----------------------------------------------------------------------------
(* What is stored, acknowledged and kept.                                  *)

\* A sum that the client sends is that of the whole image, or of no file.
SumOf(f) == f = None \/ Whole(f)

Sums ==
    /\ SumOf(md5sum) /\ SumOf(last.md5)
    /\ \A i \in DOMAIN toServer :
          toServer[i] \in Msgs => SumOf(toServer[i].md5)

\* A header that the thread wrote has the sum of a whole image, unless the
\* server died in the middle of an upload.
Headers ==
    \A i \in DOMAIN toClient :
        toClient[i] \in Msgs /\ toClient[i].type = "F" =>
            Whole(toClient[i].md5) \/ "crash" \in faults

\* An acknowledgement, on its way or read, is about an image that is whole and
\* that no thread is writing.
Acknowledged ==
    \/ told = "I" /\ heard
    \/ \E i \in DOMAIN toClient : toClient[i] = ImageOK

Stored ==
    Acknowledged /\ ~superuser => Whole(image) /\ srv \notin {"recv", "verdict"}

\* A download that is running is compared with the sum of its header, and
\* nothing is kept of an older one.
Download ==
    /\ cli \in {"asked", "receiving", "received"} => ~got
    /\ cli \in {"receiving", "received"} => Whole(sum) \/ "crash" \in faults

TransferIInv ==
    /\ Typed /\ Sums /\ Headers /\ Stored /\ Download
    /\ TornOnlyByCrash /\ DownloadTrue

\* No step takes a fault back or changes who the user is.
LEMMA FaultsStay ==
    ASSUME Next
    PROVE  faults \subseteq faults' /\ superuser' = superuser
<1>1. ASSUME NEW m, OpenUpload(m) PROVE faults \subseteq faults'
  BY <1>1 DEF OpenUpload, Misread
<1>2. ReadHeader => faults \subseteq faults'
  BY DEF ReadHeader, Misread
<1> QED
  BY <1>1, <1>2
  DEF Next, ThreadSteps, ClientSteps, ReadUpload, ReplayUpload, ReceiveChunk,
      Verdict, ReadPhoto, SendChunk, ReadAck, ReadOther, SendHeader, OpenFile,
      WriteChunk, ReadVerdict, ReadHeader, ReadChunk, CheckCopy, NoHeader,
      TypeSend, TypePhoto, CleanUp, Kill, Crash, Restart, Connect

\* The packets in the connection to the client were there before, or are those
\* the action adds.
Adds(S) ==
    \A i \in DOMAIN toClient' :
        toClient'[i] \in S \/ \E j \in DOMAIN toClient : toClient'[i] = toClient[j]

\* What is left in a connection after a read() was there, or is junk.
LEMMA RestAdds ==
    ASSUME Typed, NEW eof \in BOOLEAN, NEW b \in Halves \X Halves,
           NEW r \in Reads(b, toClient, eof), toClient' = r.rest
    PROVE  Adds(Halves)
<1>1. \A i \in DOMAIN r.rest :
         r.rest[i] = Junk \/ \E j \in DOMAIN toClient : r.rest[i] = toClient[j]
  BY ReadsRest DEF Typed, StreamTypes
<1> QED BY <1>1, JunkTypes DEF Adds

\* Which packets an action adds: halves, and the answers.
LEMMA ClientAdds ==
    ASSUME Typed, Next
    PROVE  \/ Adds(Halves)
           \/ Verdict /\ srv' = "read" /\ image = md5sum /\ Adds({ImageOK})
           \/ Adds({ImageKO})
           \/ ReadPhoto /\ Adds({FileNotFound})
           \/ ReadPhoto /\ image # None /\ Adds({Msg("F", image.bytes, image)})
<1> USE DEF Adds
<1>q. toClient \in Seq(Packets) /\ buf \in Halves \X Halves
  BY DEF Typed, StreamTypes, ClientTypes
<1>a. ASSUME NEW m \in Packets, Answer(m) PROVE Adds({m})
  BY <1>a, Answered
<1> HIDE DEF Adds
<1>1. CASE UNCHANGED toClient
  BY <1>1 DEF Adds
<1>2. CASE toClient' = <<>>
  BY <1>2 DEF Adds
<1>3. CASE toClient # <<>> /\ toClient' = Tail(toClient)
  <2>1. \A i \in DOMAIN Tail(toClient) :
          \E j \in DOMAIN toClient : Tail(toClient)[i] = toClient[j]
    BY <1>3, <1>q, TakenOne
  <2> QED BY <1>3, <2>1 DEF Adds
<1>4. CASE ReadUpload \/ ReplayUpload
  <2>1. ASSUME NEW m, OpenUpload(m)
        PROVE  UNCHANGED toClient \/ Answer(ImageKO)
    BY <2>1 DEF OpenUpload
  <2>2. UNCHANGED toClient \/ Answer(ImageKO)
    BY <1>4, <2>1 DEF ReadUpload, ReplayUpload
  <2>3. Answer(ImageKO) => Adds({ImageKO})
    BY <1>a, PlainTypes
  <2> QED BY <2>2, <2>3, <1>1
<1>5. CASE Verdict
  BY <1>5, <1>a, PlainTypes DEF Verdict
<1>6. CASE ReadPhoto
  <2>1. image # None => Msg("F", image.bytes, image) \in Packets
    BY MsgTypes DEF Typed, ServerTypes
  <2> QED BY <1>6, <1>a, <2>1, PlainTypes DEF ReadPhoto
<1>7. CASE SendChunk
  <2>1. CASE cli = "gone"
    BY <1>7, <2>1, <1>1 DEF SendChunk
  <2>2. CASE cli # "gone"
    <3> DEFINE c == Chunk(image.of, bytesCount \div MAX_DATA_SIZE + 1)
    <3>1. c \in Seq(Halves) /\ c \in Seq(Packets)
      BY ChunkTypes DEF Typed, ServerTypes, Files
    <3>2. \A j \in DOMAIN c : c[j] \in Halves
      BY <3>1
    <3>3. toClient' = toClient \o c
      BY <1>7, <2>2 DEF SendChunk
    <3> HIDE DEF c
    <3>5. toClient \in Seq(Packets) /\ c \in Seq(Packets)
      BY <1>q, <3>1
    <3>4. \A i \in DOMAIN (toClient \o c) :
             \/ \E j \in DOMAIN toClient : (toClient \o c)[i] = toClient[j]
             \/ \E j \in DOMAIN c : (toClient \o c)[i] = c[j]
      BY <3>5, Written
    <3> QED BY <3>2, <3>3, <3>4 DEF Adds
  <2> QED BY <2>1, <2>2
<1>8. CASE ReadChunk \/ ReadVerdict
  <2>1. ServerGone \in BOOLEAN
    BY DEF ServerGone
  <2>2. \/ UNCHANGED toClient
        \/ \E eof \in BOOLEAN :
             \E r \in Reads(buf, toClient, eof) : toClient' = r.rest
    BY <1>8, <2>1 DEF ReadChunk, ReadVerdict
  <2> QED BY <1>q, <2>2, <1>1, RestAdds
<1> QED
  BY <1>1, <1>2, <1>3, <1>4, <1>5, <1>6, <1>7, <1>8
  DEF Next, ThreadSteps, ClientSteps, ReceiveChunk, ReadAck, ReadOther,
      SendHeader, OpenFile, WriteChunk, ReadHeader, CheckCopy, NoHeader,
      TypeSend, TypePhoto, CleanUp, Kill, Crash, Restart, Connect, net,
      clientVars

\* The client takes the sum of the file while it is whole, and the thread keeps
\* what it was sent.
LEMMA SumsKept ==
    ASSUME Typed, Sums, Next
    PROVE  Sums'
<1> USE DEF Sums
<1>f. toServer \in Seq(Packets) /\ size \in Nat /\ pkt \in Halves \X Halves
  BY SizeIsNat DEF Typed, StreamTypes, ServerTypes
<1>n. SumOf(None)
  BY DEF SumOf
<1>p. \A f : SumOf(f)' <=> SumOf(f)
  BY DEF SumOf, Whole, None, Content
\* What the thread keeps of a header.
<1>h. ASSUME SumOf(md5sum') /\ SumOf(last'.md5),
             \A i \in DOMAIN toServer' :
                \/ toServer'[i] \in Halves
                \/ \E j \in DOMAIN toServer : toServer'[i] = toServer[j]
                \/ toServer'[i] \in Msgs => SumOf(toServer'[i].md5)
      PROVE  Sums'
  BY <1>h, <1>p, HalvesAreNoMsgs
<1>t. toServer # <<>> => /\ \E j \in DOMAIN toServer : Head(toServer) = toServer[j]
                         /\ \A i \in DOMAIN Tail(toServer) :
                              \E j \in DOMAIN toServer :
                                Tail(toServer)[i] = toServer[j]
  BY <1>f, TakenOne
<1>o. ASSUME NEW m, OpenUpload(m), SumOf(m.md5) PROVE SumOf(md5sum')
  BY <1>o DEF OpenUpload
<1>1. CASE ReadUpload
  <2>1. /\ toServer # <<>> /\ Head(toServer) \in Msgs /\ last' = Head(toServer)
        /\ toServer' = Tail(toServer) /\ OpenUpload(Head(toServer))
    BY <1>1 DEF ReadUpload
  <2>2. SumOf(Head(toServer).md5)
    BY <2>1, <1>t
  <2> QED BY <1>h, <1>o, <1>t, <2>1, <2>2
<1>2. CASE ReplayUpload
  BY <1>h, <1>o, <1>2 DEF ReplayUpload
<1>3. CASE ReceiveChunk \/ ReadOther
  <2>1. PICK eof \in BOOLEAN :
            \E r \in Reads(pkt, toServer, eof) : toServer' = r.rest
    BY <1>3 DEF ReceiveChunk, ReadOther
  <2>2. PICK r \in Reads(pkt, toServer, eof) : toServer' = r.rest
    BY <2>1
  <2>3. \A i \in DOMAIN toServer' :
           toServer'[i] = Junk \/ \E j \in DOMAIN toServer : toServer'[i] = toServer[j]
    BY <1>f, <2>2, ReadsRest
  <2>4. last' \in {last, Request} /\ md5sum' = md5sum
    BY <1>3 DEF ReceiveChunk, ReadOther
  <2>5. SumOf(last'.md5)
    BY <2>4, <1>n, PlainTypes
  <2> QED BY <1>h, <2>3, <2>4, <2>5, JunkTypes
<1>4. CASE Verdict \/ ReadPhoto \/ SendChunk \/ ReadAck
  <2>1. /\ last' \in {last, Request} /\ md5sum' = md5sum
        /\ toServer' = toServer \/ (toServer # <<>> /\ toServer' = Tail(toServer))
    BY <1>4 DEF Verdict, ReadPhoto, SendChunk, ReadAck
  <2>2. SumOf(last'.md5)
    BY <2>1, <1>n, PlainTypes
  <2> QED BY <1>h, <1>t, <2>1, <2>2
<1>c. ASSUME UNCHANGED serverVars,
             toServer' = toServer \/ \E m \in Packets : Tell(<<m>>)
                                        /\ (m \in Msgs => SumOf(m.md5))
      PROVE  Sums'
  BY <1>h, <1>c, ToldMessage DEF serverVars
<1>5. CASE SendHeader
  <2> DEFINE m == Msg("F", size, IF file THEN Image(size) ELSE None)
  <2>1. m \in Packets /\ SumOf(m.md5)
    BY <1>f, MsgTypes, ContentTypes DEF SumOf, Whole
  <2>2. Tell(<<m>>) /\ UNCHANGED serverVars
    BY <1>5 DEF SendHeader
  <2> HIDE DEF m
  <2> QED BY <2>1, <2>2, <1>c
<1>6. CASE TypePhoto \/ CheckCopy \/ ReadHeader
  BY <1>6, <1>c, <1>n, PlainTypes DEF TypePhoto, CheckCopy, ReadHeader
<1>7. CASE WriteChunk
  <2>1. /\ Chunk(size, count_ \div MAX_DATA_SIZE + 1) \in Seq(Halves)
        /\ Chunk(size, count_ \div MAX_DATA_SIZE + 1) \in Seq(Packets)
        /\ Len(Chunk(size, count_ \div MAX_DATA_SIZE + 1)) = 2
    BY <1>f, ChunkTypes DEF Typed, ClientTypes
  <2> DEFINE q == IF fd_file THEN Chunk(size, count_ \div MAX_DATA_SIZE + 1)
                  ELSE <<Junk, Junk>>
  <2>2. q \in Seq(Packets) /\ Len(q) \in 1..2 /\ q \in Seq(Halves)
    BY <2>1, JunkTypes
  <2>3. Tell(q) /\ UNCHANGED serverVars
    BY <1>7 DEF WriteChunk
  <2> HIDE DEF q
  <2>4. \A j \in DOMAIN q : q[j] \in Halves
    BY <2>2
  <2> QED BY <2>2, <2>3, <2>4, <1>h, ToldServer DEF serverVars
<1>8. CASE OpenFile \/ ReadVerdict \/ ReadChunk \/ NoHeader \/ TypeSend
           \/ CleanUp \/ Kill
  BY <1>8, <1>c
  DEF OpenFile, ReadVerdict, ReadChunk, NoHeader, TypeSend, CleanUp, Kill, net
<1>9. CASE Crash \/ Restart \/ Connect
  <2>1. /\ last' \in {last, Request} /\ md5sum' \in {md5sum, None}
        /\ toServer' \in {toServer, <<>>}
    BY <1>9 DEF Crash, Restart, Connect, net
  <2>2. SumOf(last'.md5) /\ SumOf(md5sum')
    BY <2>1, <1>n, PlainTypes
  <2> QED BY <1>h, <2>1, <2>2
<1> QED
  BY <1>1, <1>2, <1>3, <1>4, <1>5, <1>6, <1>7, <1>8, <1>9
  DEF Next, ThreadSteps, ClientSteps

\* The thread acknowledges an image that is whole.
LEMMA AcknowledgedIsWhole ==
    ASSUME Typed, Sums, srv = "verdict", image = md5sum
    PROVE  Whole(image)
  BY ContentTypes DEF Typed, ServerCounts, Sums, SumOf

\* Headers keep what they announce.
LEMMA HeadersKept ==
    ASSUME Typed, Headers, TornOnlyByCrash, Next
    PROVE  Headers'
<1>0. ASSUME NEW S, Adds(S),
             \A m \in S : m \in Msgs /\ m.type = "F" =>
                             Whole(m.md5) \/ "crash" \in faults
      PROVE  Headers'
  <2>1. faults \subseteq faults'
    BY FaultsStay
  <2>2. ASSUME NEW i \in DOMAIN toClient', toClient'[i] \in Msgs,
               toClient'[i].type = "F"
        PROVE  Whole(toClient'[i].md5) \/ "crash" \in faults
    BY <1>0, <2>2 DEF Headers, Adds
  <2> QED BY <2>1, <2>2 DEF Headers, Whole
<1>1. CASE Adds(Halves)
  BY <1>1, <1>0, HalvesAreNoMsgs
<1>2. CASE Adds({ImageOK}) \/ Adds({ImageKO}) \/ Adds({FileNotFound})
  BY <1>2, <1>0, PlainTypes
<1>3. CASE ReadPhoto /\ image # None /\ Adds({Msg("F", image.bytes, image)})
  <2>1. Whole(image) \/ "crash" \in faults
    BY <1>3 DEF ReadPhoto, TornOnlyByCrash
  <2>2. Msg("F", image.bytes, image).md5 = image
    BY DEF Msg
  <2> QED BY <1>3, <1>0, <2>1, <2>2
<1> QED BY <1>1, <1>2, <1>3, ClientAdds

\* An acknowledgement stays true: it is written for an image that is whole, and
\* no thread but the superuser's opens that image again.
LEMMA StoredKept ==
    ASSUME Typed, Sums, Stored, Next
    PROVE  Stored'
<1>k. superuser' = superuser
  BY FaultsStay
<1>w. ~Whole(None)
  BY ContentTypes DEF Whole
\* The image that is acknowledged is left as it is.
<1>i. ASSUME Acknowledged, ~superuser
      PROVE  image' = image /\ Whole(image) /\ srv' \notin {"recv", "verdict"}
  <2>1. Whole(image) /\ image # None /\ srv \notin {"recv", "verdict"}
    BY <1>i, <1>w DEF Stored
  <2> HIDE DEF Whole
  <2>2. ASSUME NEW m, OpenUpload(m) PROVE image' = image /\ srv' = "exit"
    BY <1>i, <2>1, <2>2 DEF OpenUpload
  <2>3. CASE ReadUpload \/ ReplayUpload
    BY <2>1, <2>2, <2>3 DEF ReadUpload, ReplayUpload
  <2>4. CASE ReceiveChunk \/ Verdict
    BY <2>1, <2>4 DEF ReceiveChunk, Verdict
  <2>5. CASE \/ ReadPhoto \/ SendChunk \/ ReadAck \/ ReadOther \/ Crash
             \/ Restart \/ Connect
    BY <2>1, <2>5 DEF ReadPhoto, SendChunk, ReadAck, ReadOther, Crash, Restart,
                      Connect
  <2>6. CASE UNCHANGED serverVars
    BY <2>1, <2>6 DEF serverVars
  <2> QED
    BY <2>3, <2>4, <2>5, <2>6
    DEF Next, ThreadSteps, ClientSteps, SendHeader, OpenFile, WriteChunk,
        ReadVerdict, ReadHeader, ReadChunk, CheckCopy, NoHeader, TypeSend,
        TypePhoto, CleanUp, Kill
\* Nothing but a verdict makes a new one.
<1>n. ASSUME Acknowledged', ~Acknowledged
      PROVE  image' = image /\ Whole(image) /\ srv' \notin {"recv", "verdict"}
  <2>1. ASSUME told' = "I", heard', told' # told \/ ~heard PROVE Acknowledged
    <3>1. ReadVerdict /\ toClient # <<>> /\ Head(toClient) = ImageOK
      BY <2>1 DEF Next, ThreadSteps, ClientSteps, ReadUpload, ReplayUpload,
             ReceiveChunk, Verdict, ReadPhoto, SendChunk, ReadAck, ReadOther,
             SendHeader, OpenFile, WriteChunk, ReadVerdict, ReadHeader, ReadChunk,
             CheckCopy, NoHeader, TypeSend, TypePhoto, CleanUp, Kill, Crash,
             Restart, Connect, clientVars
    <3> QED BY <3>1, TakenOne DEF Typed, StreamTypes, Acknowledged
  <2>2. PICK i \in DOMAIN toClient' : toClient'[i] = ImageOK
    BY <1>n, <2>1 DEF Acknowledged, ImageOK, Msg
  <2>3. \A S : Adds(S) => ImageOK \in S
    BY <1>n, <2>2 DEF Adds, Acknowledged
  <2>4. /\ ImageOK \notin Halves /\ ImageOK # ImageKO /\ ImageOK # FileNotFound
        /\ ImageOK # Msg("F", image.bytes, image)
    BY HalvesAreNoMsgs, PlainTypes DEF Msg
  <2>5. Verdict /\ srv' = "read" /\ image = md5sum
    BY <2>3, <2>4, ClientAdds
  <2>6. srv = "verdict" /\ image' = image
    BY <2>5 DEF Verdict
  <2> QED BY <2>5, <2>6, AcknowledgedIsWhole
<1> QED BY <1>i, <1>n, <1>k DEF Stored, Whole

\* An image is written by threads that receive, and only a crash leaves it in
\* their hands.
LEMMA TornKept ==
    ASSUME Typed, Sums, TornOnlyByCrash, Next
    PROVE  TornOnlyByCrash'
<1>k. faults \subseteq faults'
  BY FaultsStay
<1>w. None' = None
  BY DEF None, Content
<1>1. ASSUME srv \notin {"recv", "verdict"}, image' = image
      PROVE  TornOnlyByCrash'
  BY <1>1, <1>k, <1>w DEF TornOnlyByCrash, Whole
<1>2. CASE ReadUpload \/ ReplayUpload
  <2>1. srv = "read"
    BY <1>2 DEF ReadUpload, ReplayUpload
  <2>2. ASSUME NEW m, OpenUpload(m) PROVE image' = image \/ srv' = "recv"
    BY <2>2 DEF OpenUpload
  <2>3. image' = image \/ srv' = "recv"
    BY <1>2, <2>2 DEF ReadUpload, ReplayUpload
  <2> QED BY <1>1, <2>1, <2>3 DEF TornOnlyByCrash
<1>3. CASE ReceiveChunk
  BY <1>3 DEF ReceiveChunk, TornOnlyByCrash
<1>4. CASE Verdict
  <2>1. \/ image' = image /\ image = md5sum /\ srv = "verdict"
        \/ image' = None
    BY <1>4 DEF Verdict
  <2> QED BY <2>1, <1>w, AcknowledgedIsWhole DEF TornOnlyByCrash, Whole
<1>5. CASE \/ ReadPhoto \/ SendChunk \/ ReadAck \/ ReadOther \/ Restart \/ Connect
  BY <1>1, <1>5 DEF ReadPhoto, SendChunk, ReadAck, ReadOther, Restart, Connect
<1>6. CASE Crash
  BY <1>6 DEF Crash, TornOnlyByCrash
<1>7. CASE UNCHANGED serverVars
  BY <1>7, <1>k, <1>w DEF serverVars, TornOnlyByCrash, Whole
<1> QED
  BY <1>2, <1>3, <1>4, <1>5, <1>6, <1>7
  DEF Next, ThreadSteps, ClientSteps, SendHeader, OpenFile, WriteChunk,
      ReadVerdict, ReadHeader, ReadChunk, CheckCopy, NoHeader, TypeSend,
      TypePhoto, CleanUp, Kill

\* A download keeps the sum of its header, and the copy that is kept is what was
\* compared with it.
LEMMA DownloadKept ==
    ASSUME Typed, Headers, Download, DownloadTrue, Next
    PROVE  Download' /\ DownloadTrue'
<1> USE DEF Download, DownloadTrue
<1>k. faults \subseteq faults'
  BY FaultsStay
<1>n. None' = None
  BY DEF None, Content
<1>0. CASE UNCHANGED <<cli, got, copy, sum>>
  BY <1>0, <1>k, <1>n DEF Whole
<1>1. CASE ThreadSteps \/ Crash \/ Restart
  BY <1>0, <1>1
  DEF ThreadSteps, ReadUpload, ReplayUpload, ReceiveChunk, Verdict, ReadPhoto,
      SendChunk, ReadAck, ReadOther, Crash, Restart, clientVars
<1>2. CASE TypeSend \/ SendHeader \/ OpenFile \/ WriteChunk \/ ReadVerdict
           \/ NoHeader \/ Kill \/ Connect
  <2>1. /\ cli' \notin {"asked", "receiving", "received"}
        /\ got' = got /\ copy' = copy
    BY <1>2 DEF TypeSend, SendHeader, OpenFile, WriteChunk, ReadVerdict,
       NoHeader,
                Kill, Connect, ClientStep
  <2> QED BY <2>1, <1>k, <1>n DEF Whole
<1>3. CASE TypePhoto
  BY <1>3 DEF TypePhoto, ClientStep
<1>4. CASE ReadHeader
  <2>1. /\ cli = "asked" /\ got' = got /\ toClient # <<>>
        /\ \/ cli' \in {"idle", "lost"}
           \/ /\ cli' = "receiving" /\ sum' = Head(toClient).md5
              /\ Head(toClient) \in Msgs /\ Head(toClient).type = "F"
    BY <1>4 DEF ReadHeader, ClientStep
  <2>2. Head(toClient) \in Msgs /\ Head(toClient).type = "F" =>
          Whole(Head(toClient).md5) \/ "crash" \in faults
    BY <2>1, TakenOne DEF Headers, Typed, StreamTypes
  <2> QED BY <2>1, <2>2, <1>k DEF Whole
<1>5. CASE ReadChunk
  <2>1. /\ cli = "receiving" /\ cli' \in {"receiving", "received"}
        /\ got' = got /\ sum' = sum
    BY <1>5 DEF ReadChunk, ClientStep
  <2> QED BY <2>1, <1>k DEF Whole
<1>6. CASE CheckCopy
  <2>1. /\ cli = "received" /\ cli' = "idle"
        /\ \/ copy' = copy /\ copy = Content(sum.of, sum.bytes, TRUE)
           \/ copy' = None
    BY <1>6 DEF CheckCopy, ClientStep
  <2>2. Whole(sum) \/ "crash" \in faults
    BY <2>1
  <2>3. copy' = copy /\ copy = Content(sum.of, sum.bytes, TRUE) =>
          copy'.intact /\ (copy'.bytes = copy'.of \/ "crash" \in faults')
    BY <2>2, <1>k DEF Content, Whole
  <2> QED BY <2>1, <2>3, <1>n DEF Whole
<1>7. CASE CleanUp
  <2>1. copy' = None /\ UNCHANGED <<cli, got, sum>>
    BY <1>7 DEF CleanUp
  <2> QED BY <2>1, <1>n, <1>k DEF Whole
<1> QED
  BY <1>1, <1>2, <1>3, <1>4, <1>5, <1>6, <1>7 DEF Next, ClientSteps

\* Nothing has been sent yet.
LEMMA TransferInit == Init => TransferIInv
<1> SUFFICES ASSUME Init PROVE TransferIInv
  OBVIOUS
<1> USE DEF Init
<1>1. Sums
  BY PlainTypes DEF Sums, SumOf
<1>2. Headers /\ Stored /\ Download
  BY DEF Headers, Stored, Acknowledged, Download
<1>3. TornOnlyByCrash /\ DownloadTrue
  BY DEF TornOnlyByCrash, DownloadTrue
<1> QED BY <1>1, <1>2, <1>3, TypedInit DEF TransferIInv

\* A step that changes nothing keeps everything.
LEMMA TransferStutter ==
    ASSUME TransferIInv, UNCHANGED vars
    PROVE  TransferIInv'
<1> USE DEF TransferIInv, vars, serverVars, clientVars, net
<1>1. Typed'
  BY TypedStutter
<1>2. Sums' /\ Headers' /\ Stored' /\ Download'
  BY DEF Sums, SumOf, Headers, Stored, Acknowledged, Download, Whole, None,
         Content, ImageOK, Msg
<1>3. TornOnlyByCrash' /\ DownloadTrue'
  BY DEF TornOnlyByCrash, DownloadTrue, Whole, None, Content
<1> QED BY <1>1, <1>2, <1>3

\* What uploads and downloads keep, in every behaviour: what a packet
\* acknowledged is whole and in nobody's hands, headers have the sum of what is
\* stored, and a copy is kept only when it has the sum of its header
\* (network.c:354-378, Fremen network.c:395-409).
THEOREM TransferInvariant == Spec => []TransferIInv
<1>1. TransferIInv /\ [Next]_vars => TransferIInv'
  <2> SUFFICES ASSUME TransferIInv, [Next]_vars PROVE TransferIInv'
    OBVIOUS
  <2>1. CASE Next
    BY <2>1, TypedKept, SumsKept, HeadersKept, StoredKept, TornKept, DownloadKept
    DEF TransferIInv
  <2> QED BY <2>1, TransferStutter
<1> QED BY <1>1, TransferInit, PTL DEF Spec

\* What a packet told a client is stored stays stored, over replayed headers,
\* later uploads, misread sizes, short reads, crashes and restarts
\* (network.c:335, :338, :378).
THEOREM Acknowledges == Spec => []AcknowledgedStays
<1>1. TransferIInv => AcknowledgedStays
  BY DEF TransferIInv, Stored, Acknowledged, AcknowledgedStays
<1> QED BY <1>1, TransferInvariant, PTL

\* Outside of an upload an image is whole or not there, unless the server died
\* in one (network.c:372).
THEOREM TornByCrash == Spec => []TornOnlyByCrash
<1>1. TransferIInv => TornOnlyByCrash
  BY DEF TransferIInv
<1> QED BY <1>1, TransferInvariant, PTL

\* A photo that the client keeps is the whole image that was sent, unless the
\* server died in the upload (Fremen network.c:400).
THEOREM DownloadsTrue == Spec => []DownloadTrue
<1>1. TransferIInv => DownloadTrue
  BY DEF TransferIInv
<1> QED BY <1>1, TransferInvariant, PTL

----------------------------------------------------------------------------
(* What is read from a connection, and what is left of it.                 *)

\* A packet that announces an image.
Header(p) == p \in Msgs /\ p.type = "F"

\* p is what is left of q after its first d elements.
Shifted(p, q, d) == Len(p) = Len(q) - d /\ \A x \in DOMAIN p : p[x] = q[x + d]

\* A message is read whole.
LEMMA TailIsShifted ==
    ASSUME NEW S, NEW q \in Seq(S), q # <<>>
    PROVE  Tail(q) \in Seq(S) /\ Shifted(Tail(q), q, 1) /\ Head(q) = q[1]
           /\ 1 \in DOMAIN q
  BY DEF Shifted

\* A read of halves takes none, one or two of them into the buffer.
LEMMA ReadsShift ==
    ASSUME NEW q \in Seq(Packets), NEW b, NEW eof \in BOOLEAN,
           NEW r \in Reads(b, q, eof),
           \A x \in DOMAIN q : x <= 2 => q[x] \in Halves
    PROVE  /\ r.n \in 0..2 /\ r.n <= Len(q) /\ (r.n = 0 => q = <<>> /\ eof)
           /\ Shifted(r.rest, q, r.n)
           /\ r.n = 2 => r.buf = <<q[1], q[2]>>
<1>q. Len(q) \in Nat /\ DOMAIN q = 1..Len(q)
  OBVIOUS
<1>1. CASE q = <<>>
  <2>1. eof /\ r = Took(b, 0, q)
    BY <1>1 DEF Reads
  <2> QED BY <1>1, <2>1 DEF Took, Shifted
<1>2. CASE q # <<>>
  <2> DEFINE t == Tail(q)
  <2>1. /\ t \in Seq(Packets) /\ Shifted(t, q, 1) /\ Head(q) = q[1]
        /\ 1 \in DOMAIN q
    BY <1>2, TailIsShifted
  <2>2. r \in ReadsHalf(b, q)
    <3>1. IsHalf(Head(q))
      BY <2>1 DEF IsHalf
    <3> QED BY <1>2, <3>1 DEF Reads
  <2> HIDE DEF t
  <2>3. CASE r = Took(<<Head(q), b[2]>>, 1, t)
    <3>1. r.n = 1 /\ r.rest = t
      BY <2>3 DEF Took
    <3> QED BY <1>2, <1>q, <2>1, <3>1
  <2>4. CASE t # <<>>
    <3> DEFINE u == Tail(t)
    <3>1. /\ u \in Seq(Packets) /\ Shifted(u, t, 1) /\ Head(t) = t[1]
          /\ 1 \in DOMAIN t
      BY <2>1, <2>4, TailIsShifted
    <3> HIDE DEF u
    <3>2. Head(t) = q[2] /\ 2 \in DOMAIN q
      BY <1>q, <2>1, <3>1 DEF Shifted
    <3>3. IsHalf(Head(t))
      BY <3>2 DEF IsHalf
    <3>4. CASE r = Took(<<Head(q), Head(t)>>, 2, u)
      <4>1. r.n = 2 /\ r.rest = u /\ r.buf = <<q[1], q[2]>>
        BY <2>1, <3>2, <3>4 DEF Took
      <4>2. Len(u) = Len(q) - 2
        BY <1>q, <2>1, <3>1 DEF Shifted
      <4>3. ASSUME NEW x \in DOMAIN u PROVE u[x] = q[x + 2]
        <5>1. x \in Nat /\ x >= 1 /\ x + 1 \in DOMAIN t
          BY <2>1, <3>1 DEF Shifted
        <5>2. u[x] = t[x + 1] /\ t[x + 1] = q[x + 1 + 1]
          BY <2>1, <3>1, <5>1 DEF Shifted
        <5> QED BY <5>1, <5>2
      <4>4. Shifted(u, q, 2)
        BY <4>2, <4>3 DEF Shifted
      <4> QED BY <1>q, <3>2, <4>1, <4>4
    <3> QED BY <2>2, <2>3, <2>4, <3>3, <3>4 DEF ReadsHalf, t, u
  <2> QED BY <2>2, <2>3, <2>4 DEF ReadsHalf, t
<1> QED BY <1>1, <1>2

\* What was behind m is behind k when the m - k first are gone.
LEMMA HalvesShift ==
    ASSUME NEW p \in Seq(Packets), NEW q \in Seq(Packets), NEW d \in Nat,
           Shifted(p, q, d), NEW m \in Int, NEW k \in Int, k = m - d,
           \A x \in DOMAIN q : m < x => q[x] \in Halves
    PROVE  \A x \in DOMAIN p : k < x => p[x] \in Halves
<1>1. ASSUME NEW x \in DOMAIN p, k < x PROVE p[x] \in Halves
  <2>1. x \in Nat /\ x >= 1 /\ x <= Len(p) /\ Len(p) = Len(q) - d
        /\ p[x] = q[x + d] /\ Len(q) \in Nat
    BY DEF Shifted
  <2>2. x + d \in DOMAIN q /\ m < x + d
    BY <1>1, <2>1
  <2> QED BY <2>1, <2>2
<1> QED BY <1>1

\* The numbers behind a state.
LEMMA Facts ==
    ASSUME Typed
    PROVE  /\ toServer \in Seq(Packets) /\ Len(toServer) \in Nat
           /\ DOMAIN toServer = 1..Len(toServer)
           /\ toClient \in Seq(Packets) /\ Len(toClient) \in Nat
           /\ DOMAIN toClient = 1..Len(toClient)
           /\ size \in Nat /\ Needed(size) \in Nat /\ Needed(size) >= 1
           /\ Filled(0) = 0 /\ count_ \in Nat /\ Filled(count_) \in Nat
           /\ bytesCount \in Nat /\ Filled(bytesCount) \in Nat
           /\ announced \in Nat /\ file \in BOOLEAN
<1>1. /\ size \in Nat /\ toServer \in Seq(Packets) /\ toClient \in Seq(Packets)
      /\ count_ \in Nat /\ bytesCount \in Nat /\ announced \in Nat
      /\ file \in BOOLEAN
  BY SizeIsNat DEF Typed, StreamTypes, ServerTypes, ClientTypes
<1>2. /\ Len(toServer) \in Nat /\ DOMAIN toServer = 1..Len(toServer)
      /\ Len(toClient) \in Nat /\ DOMAIN toClient = 1..Len(toClient)
  BY <1>1
<1>3. Filled(count_) \in Nat /\ Filled(bytesCount) \in Nat
  BY <1>1, FilledFits
<1>4. Needed(size) \in Nat /\ Needed(size) >= 1 /\ Filled(0) = 0
  BY <1>1, NoneFilled
<1> QED BY <1>1, <1>2, <1>3, <1>4

\* What is where after something was written.
LEMMA Concatenated ==
    ASSUME NEW S, NEW q \in Seq(S), NEW s \in Seq(S)
    PROVE  /\ q \o s \in Seq(S)
           /\ Len(q) \in Nat /\ Len(s) \in Nat /\ Len(q \o s) = Len(q) + Len(s)
           /\ DOMAIN (q \o s) = 1..(Len(q) + Len(s))
           /\ \A x \in 1..Len(q) : (q \o s)[x] = q[x]
           /\ \A x \in 1..Len(s) : (q \o s)[Len(q) + x] = s[x]
  OBVIOUS

----------------------------------------------------------------------------
(* The client and the thread in step.                                      *)

\* Nothing happened to a packet, the files or a sum.
Clean == faults \cap {"short", "clean", "garbage", "mida"} = {}

\* An image is stored, by a thread that has finished, and is not opened again.
Settled == image # None /\ ~superuser /\ srv \notin {"recv", "verdict"}

\* The connection holds from m on the packets of the image in their order.
InOrder(m) ==
    \A c \in Nat \ {0} : {m + 2 * c - 1, m + 2 * c} \subseteq DOMAIN toServer =>
        /\ toServer[m + 2 * c - 1] = Chunk(size, c)[1]
        /\ toServer[m + 2 * c] = Chunk(size, c)[2]

\* The packets the client has written, with the last one, which it does not
\* count.
Sent == IF cli = "open" THEN 0 ELSE Filled(count_)
AllSent == IF cli = "verdict" THEN Needed(size) ELSE Sent

\* They are all that the connection holds behind m.
Sending(m) == Len(toServer) = m + 2 * AllSent /\ InOrder(m)

\* The header of the image that the client sends.
Announcement == Msg("F", size, Image(size))

\* The x-th element of the connection is what the client asked for, and all it
\* asked for: nothing, a photo, or an image with what is written of it.
Asks(x) ==
    /\ cli \in {"idle", "stat"} => Len(toServer) = x - 1
    /\ cli = "asked" => Len(toServer) = x /\ toServer[x] = Request
    /\ cli \in {"open", "sending", "verdict"} =>
          /\ Len(toServer) >= x
          /\ toServer[x] = Announcement
          /\ Sending(x)

\* The client is the one to write: the thread waits for it, receives its image,
\* or is gone.  After a download the thread has an answer to read before.
Asking ==
    /\ cli \in {"idle", "stat", "open", "sending", "verdict", "asked"}
    /\ toClient = <<>> /\ (cli = "sending" => fd_file)
    /\ \/ srv \in {"exit", "none", "down"}
       \/ /\ srv = "ack" /\ toServer # <<>> /\ ~Header(Head(toServer))
          /\ Asks(2)
       \/ srv = "read" /\ Asks(1)
       \/ /\ srv = "recv" /\ cli \in {"open", "sending", "verdict"}
          /\ filesize = size /\ md5sum = Image(size)
          /\ image.intact /\ image.of = size
          /\ Sending(-2 * Filled(bytesCount))
       \/ /\ srv = "verdict" /\ cli = "verdict" /\ toServer = <<>>
          /\ md5sum = Image(size) /\ image = Image(size)

\* The thread is the one to write, behind m the image of n bytes that was read.
Answering(m, n) ==
    /\ srv \in {"send", "ack", "none", "down"} /\ toServer = <<>>
    /\ srv \in {"send", "ack"} => /\ Len(toClient) = m + 2 * Filled(bytesCount)
                                  /\ image.bytes = n
    /\ srv = "ack" => Filled(bytesCount) = Needed(n)
    /\ Len(toClient) <= m + 2 * Needed(n)
    /\ \A x \in DOMAIN toClient : m < x => toClient[x] \in Halves

\* The image is stored, and the answer on its way.
Confirmed ==
    /\ cli = "verdict" /\ toClient = <<ImageOK>>
    /\ srv \in {"read", "none", "down"} /\ toServer = <<>>

\* There is no photo.
NotFound ==
    /\ cli = "asked" /\ toClient = <<FileNotFound>>
    /\ srv \in {"exit", "none", "down"}

\* The photo follows its header.
Announcing ==
    /\ cli = "asked" /\ toClient # <<>> /\ Header(Head(toClient))
    /\ image # None /\ Answering(1, Head(toClient).size)

\* The header was read, and the client has counted some of the packets.
Receiving == cli = "receiving" /\ Answering(-2 * Filled(count_), announced)

\* All of the photo was read.
Received ==
    /\ cli = "received" /\ toClient = <<>> /\ toServer = <<>>
    /\ srv \in {"ack", "none", "down"}

\* The client and the thread agree on whose turn it is.
InStep ==
    \/ Asking \/ Confirmed \/ NotFound \/ Announcing \/ Receiving \/ Received

\* While nothing goes wrong and no image is stored that is not to be written
\* again, nothing is refused, and a client that has a thread is in step with it.
InSync ==
    /\ Clean => file
    /\ Clean /\ ~Settled => /\ ~(told = "R" /\ heard)
                            /\ cli \in {"gone", "lost"} \/ InStep

\* What went wrong once stays known, and without it the client's file is there.
LEMMA CleanStays ==
    ASSUME Next, Clean'
    PROVE  Clean /\ file' = file
<1>1. Clean
  BY FaultsStay DEF Clean
<1>2. ~CleanUp
  BY DEF CleanUp, Clean
<1>3. file' = file
  BY <1>2
  DEF Next, ThreadSteps, ClientSteps, ReadUpload, ReplayUpload, ReceiveChunk,
      Verdict, ReadPhoto, SendChunk, ReadAck, ReadOther, SendHeader, OpenFile,
      WriteChunk, ReadVerdict, ReadHeader, ReadChunk, CheckCopy, NoHeader,
      TypeSend, TypePhoto, CleanUp, Kill, Crash, Restart, Connect, clientVars
<1> QED BY <1>1, <1>3

\* Without it a size is read as it was sent.
LEMMA ReadAsSent ==
    ASSUME NEW n, NEW t, faults' = Misread(n, t), Clean'
    PROVE  Parsed(n, t) = n
  BY DEF Misread, Clean

\* An image that is stored, and not to be written again, stays so.
LEMMA SettledStays ==
    ASSUME Next, ~Settled'
    PROVE  ~Settled
<1>n. None' = None
  BY DEF None, Content
<1>5. ASSUME Settled PROVE Settled'
  <2>1. image # None /\ ~superuser /\ srv \notin {"recv", "verdict"}
    BY <1>5 DEF Settled
  <2>2. superuser' = superuser
    BY FaultsStay
  <2>3. ASSUME NEW m, OpenUpload(m) PROVE image' = image /\ srv' = "exit"
    BY <2>1, <2>3 DEF OpenUpload
  <2>4. image' = image /\ srv' \notin {"recv", "verdict"}
    BY <2>1, <2>3
      DEF Next, ThreadSteps, ClientSteps, ReadUpload, ReplayUpload,
          ReceiveChunk,
         Verdict, ReadPhoto, SendChunk, ReadAck, ReadOther, SendHeader,
         OpenFile,
         WriteChunk, ReadVerdict, ReadHeader, ReadChunk, CheckCopy, NoHeader,
         TypeSend, TypePhoto, CleanUp, Kill, Crash, Restart, Connect,
         serverVars
  <2> QED BY <2>1, <2>2, <2>4, <1>n DEF Settled
<1> QED BY <1>5

\* Reading what comes before the packets of an image leaves them in order.
LEMMA SendingShift ==
    ASSUME Typed, NEW d \in Nat, Shifted(toServer', toServer, d),
           toServer' \in Seq(Packets),
           UNCHANGED <<size, cli, count_>>, NEW m \in Int, Sending(m)
    PROVE  Sending(m - d)'
<1>f. /\ toServer \in Seq(Packets) /\ Len(toServer) \in Nat
      /\ DOMAIN toServer = 1..Len(toServer)
      /\ Needed(size) \in Nat /\ Filled(count_) \in Nat
      /\ Len(toServer') = Len(toServer) - d
      /\ DOMAIN toServer' = 1..Len(toServer')
  BY Facts DEF Shifted
<1>1. AllSent' = AllSent /\ AllSent \in Nat
  BY <1>f DEF AllSent, Sent
<1>2. Len(toServer') = (m - d) + 2 * AllSent'
  BY <1>f, <1>1 DEF Sending
<1>3. ASSUME NEW c \in Nat \ {0},
             {(m - d) + 2 * c - 1, (m - d) + 2 * c} \subseteq DOMAIN toServer'
      PROVE  /\ toServer'[(m - d) + 2 * c - 1] = Chunk(size, c)[1]
             /\ toServer'[(m - d) + 2 * c] = Chunk(size, c)[2]
  <2>1. /\ (m - d) + 2 * c - 1 \in DOMAIN toServer'
        /\ (m - d) + 2 * c \in DOMAIN toServer'
        /\ (m - d) + 2 * c - 1 + d = m + 2 * c - 1
        /\ (m - d) + 2 * c + d = m + 2 * c
    BY <1>3
  <2>2. /\ toServer'[(m - d) + 2 * c - 1] = toServer[m + 2 * c - 1]
        /\ toServer'[(m - d) + 2 * c] = toServer[m + 2 * c]
    BY <2>1 DEF Shifted
  <2>3. {m + 2 * c - 1, m + 2 * c} \subseteq DOMAIN toServer
    BY <1>f, <2>1
  <2> QED BY <2>2, <2>3 DEF Sending, InOrder
<1>4. InOrder(m - d)'
  BY <1>3 DEF InOrder, Chunk
<1> QED BY <1>2, <1>4 DEF Sending

\* The same for what the client waits for.
LEMMA AsksShift ==
    ASSUME Typed, toServer' \in Seq(Packets), Shifted(toServer', toServer, 1),
           UNCHANGED <<size, cli, count_>>, Asks(2)
    PROVE  Asks(1)'
<1>f. /\ toServer \in Seq(Packets) /\ Len(toServer) \in Nat
      /\ DOMAIN toServer = 1..Len(toServer)
  BY Facts
<1>2. Len(toServer') = Len(toServer) - 1
      /\ DOMAIN toServer' = 1..Len(toServer')
  BY DEF Shifted
<1>3. Len(toServer) >= 2 => toServer'[1] = toServer[2]
  <2>1. SUFFICES ASSUME Len(toServer) >= 2 PROVE toServer'[1] = toServer[2]
    OBVIOUS
  <2>2. 1 \in DOMAIN toServer'
    BY <1>f, <1>2, <2>1
  <2> QED BY <2>2 DEF Shifted
<1>4. Sending(2) => Sending(1)'
  <2>1. SUFFICES ASSUME Sending(2) PROVE Sending(1)'
    OBVIOUS
  <2>2. Sending(2 - 1)'
    BY <2>1, SendingShift
  <2> QED BY <2>2
<1>5. CASE cli \in {"idle", "stat"}
  <2>1. Len(toServer') = 0 /\ cli' \in {"idle", "stat"}
    BY <1>2, <1>5, <1>f DEF Asks
  <2> QED BY <2>1 DEF Asks
<1>6. CASE cli = "asked"
  <2>1. Len(toServer) = 2 /\ toServer[2] = Request
    BY <1>6 DEF Asks
  <2>2. Len(toServer') = 1 /\ toServer'[1] = Request /\ cli' = "asked"
    BY <1>2, <1>3, <1>6, <2>1
  <2> QED BY <2>2 DEF Asks
<1>7. CASE cli \in {"open", "sending", "verdict"}
  <2>1. Len(toServer) >= 2 /\ toServer[2] = Announcement /\ Sending(2)
    BY <1>7 DEF Asks
  <2>a. Announcement' = Announcement
    BY DEF Announcement
  <2>2. Len(toServer') >= 1 /\ toServer'[1] = Announcement'
    BY <1>2, <1>3, <1>f, <2>1, <2>a
  <2>3. cli' \in {"open", "sending", "verdict"} /\ Sending(1)'
    BY <1>4, <1>7, <2>1
  <2> QED BY <2>2, <2>3 DEF Asks
<1>8. CASE cli \notin {"idle", "stat", "asked", "open", "sending", "verdict"}
  BY <1>8 DEF Asks
<1> QED BY <1>5, <1>6, <1>7, <1>8

----------------------------------------------------------------------------
(* The steps of the thread.                                                *)

\* A client and a thread that are in step.
Going == Typed /\ Clean /\ ~Settled /\ file /\ InStep

\* The messages are told apart by their types.
LEMMA Messages ==
    /\ \A m \in {Request, FileNotFound, ImageOK, ImageKO} :
          m \in Msgs /\ ~Header(m)
    /\ Request.type = "P" /\ ImageOK # FileNotFound
    /\ size \in Nat => /\ Announcement \in Msgs /\ Header(Announcement)
                      /\ Announcement.type = "F" /\ Announcement.size = size
                      /\ Announcement.md5 = Image(size)
<1>1. size \in Nat => Image(size) \in Files
  BY ContentTypes
<1>2. ImageOK # FileNotFound
  BY PlainTypes
<1> QED BY <1>1, <1>2, PlainTypes, MsgTypes DEF Header, Announcement

\* A thread that reads the next packet finds what the client asks for.
LEMMA ThreadFinds ==
    ASSUME Going, srv = "read", toServer # <<>>
    PROVE  /\ Asking /\ Asks(1) /\ toClient = <<>>
           /\ toServer[1] = Head(toServer) /\ 1 \in DOMAIN toServer
           /\ \/ cli = "asked" /\ toServer[1] = Request /\ Len(toServer) = 1
              \/ /\ cli \in {"open", "sending", "verdict"}
                 /\ toServer[1] = Announcement /\ Sending(1)
<1>1. Asking
  BY
    DEF Going, InStep, Confirmed, NotFound, Announcing, Receiving, Received,
        Answering
<1>2. Asks(1) /\ toClient = <<>>
      /\ cli \in {"idle", "stat", "open", "sending", "verdict", "asked"}
  BY <1>1 DEF Asking
<1>3. toServer \in Seq(Packets)
  BY DEF Going, Typed, StreamTypes
<1>4. toServer[1] = Head(toServer) /\ 1 \in DOMAIN toServer
      /\ Len(toServer) # 0
  BY <1>3, TailIsShifted
<1>5. cli \notin {"idle", "stat"}
  BY <1>2, <1>4 DEF Asks
<1>6. \/ cli = "asked" /\ toServer[1] = Request /\ Len(toServer) = 1
      \/ /\ cli \in {"open", "sending", "verdict"}
         /\ toServer[1] = Announcement /\ Sending(1)
  BY <1>2, <1>5 DEF Asks
<1> QED BY <1>1, <1>2, <1>4, <1>6

\* Each step of either keeps them in step.  The thread opens an image.
LEMMA ReadUploadInStep ==
    ASSUME Going, Clean', ReadUpload
    PROVE  InStep'
<1>1. /\ srv = "read" /\ toServer # <<>> /\ Header(Head(toServer))
      /\ toServer' = Tail(toServer)
      /\ OpenUpload(Head(toServer)) /\ UNCHANGED <<size, cli, count_, fd_file>>
  BY DEF ReadUpload, Header, clientVars
<1>2. /\ Asking /\ cli \in {"open", "sending", "verdict"} /\ toClient = <<>>
      /\ Head(toServer) = Announcement /\ Sending(1)
  BY <1>1, ThreadFinds, Messages
<1>a. /\ size \in Nat /\ Announcement.size = size
      /\ Announcement.md5 = Image(size)
  BY Messages, Facts DEF Going
<1>3. /\ image' = Empty(size) /\ bytesCount' = 0 /\ md5sum' = Image(size)
      /\ filesize' = size /\ srv' = "recv" /\ toClient' = <<>>
  <2>1. ~(image # None /\ ~superuser)
    BY <1>1 DEF Going, Settled
  <2>2. /\ image' = Empty(size) /\ bytesCount' = 0 /\ md5sum' = Image(size)
        /\ srv' = "recv" /\ toClient' = <<>>
    BY <1>1, <1>2, <1>a, <2>1 DEF OpenUpload
  <2>3. PICK t \in Tails :
          filesize' = Parsed(size, t) /\ faults' = Misread(size, t)
    BY <1>1, <1>2, <1>a, <2>1 DEF OpenUpload
  <2>4. filesize' = size
    BY <2>3, ReadAsSent
  <2> QED BY <2>2, <2>4
<1>4. toServer' \in Seq(Packets) /\ Shifted(toServer', toServer, 1) /\ Typed
  BY <1>1, TailIsShifted DEF Going, Typed, StreamTypes
<1>5. Sending(1 - 1)'
  BY <1>1, <1>2, <1>4, SendingShift
<1>6. -2 * Filled(bytesCount') = 0
  BY <1>3, NoneFilled
<1>7. Sending(-2 * Filled(bytesCount))'
  BY <1>5, <1>6 DEF Sending, InOrder
<1>8. image'.intact = TRUE /\ image'.of = size
  BY <1>3, <1>a, ContentTypes
<1>9. cli = "sending" => fd_file
  BY <1>2 DEF Asking
<1>10. md5sum' = Image(size')
  BY <1>1, <1>3 DEF Image
<1> QED BY <1>1, <1>2, <1>3, <1>7, <1>8, <1>9, <1>10
  DEF InStep, Asking, Image, Content

\* It finds a photo or not.
LEMMA ReadPhotoInStep ==
    ASSUME Going, ReadPhoto
    PROVE  InStep'
<1>1. /\ srv = "read" /\ toServer # <<>> /\ Head(toServer).type = "P"
      /\ toServer' = Tail(toServer)
      /\ UNCHANGED <<size, cli, count_, fd_file, image>>
  BY DEF ReadPhoto, clientVars
<1>2. cli = "asked" /\ toClient = <<>> /\ Len(toServer) = 1
  <2>1. size \in Nat
    BY SizeIsNat DEF Going
  <2>2. Announcement.type = "F"
    BY DEF Announcement, Msg
  <2> QED BY <1>1, <2>2, ThreadFinds
<1>3. toServer' = <<>>
  <2>1. toServer' \in Seq(Packets) /\ Shifted(toServer', toServer, 1)
    BY <1>1, TailIsShifted DEF Going, Typed, StreamTypes
  <2> QED BY <1>2, <2>1 DEF Shifted
<1>a. ASSUME NEW m, Answer(m) PROVE toClient' = <<m>>
  BY <1>2, <1>a DEF Answer
<1>4. CASE image = None /\ Answer(FileNotFound) /\ srv' = "exit"
  BY <1>1, <1>2, <1>4, <1>a DEF InStep, NotFound
<1>5. CASE /\ image # None /\ Answer(Msg("F", image.bytes, image))
           /\ srv' = "send" /\ bytesCount' = 0
  <2>1. PICK n \in Nat : n = image.bytes
    BY <1>5 DEF Going, Typed, ServerTypes
  <2>f. image \in Files
    BY DEF Going, Typed, ServerTypes
  <2>2. PICK m : m = Msg("F", n, image)
    OBVIOUS
  <2>3. Header(m) /\ m.size = n
    BY <2>2, <2>f, MsgTypes DEF Header
  <2>4. toClient' = <<m>>
    BY <1>5, <1>a, <2>1, <2>2
  <2>5. Head(toClient') = m /\ Len(toClient') = 1 /\ toClient' # <<>>
    BY <2>4
  <2>6. Filled(0) = 0 /\ Needed(n) \in Nat /\ Needed(n) >= 1
    BY NoneFilled
  <2>7. /\ srv' = "send" /\ toServer' = <<>> /\ image'.bytes = n
        /\ Len(toClient') = 1 + 2 * Filled(bytesCount')
        /\ Len(toClient') <= 1 + 2 * Needed(n)
    BY <1>1, <1>3, <1>5, <2>1, <2>5, <2>6
  <2>h. DOMAIN toClient' = {1}
    BY <2>4
  <2>8. Answering(1, n)'
    BY <2>7, <2>h DEF Answering
  <2>9. n = Head(toClient').size
    BY <2>3, <2>5
  <2>10. Answering(1, Head(toClient).size)'
    BY <2>8, <2>9 DEF Answering
  <2>11. image' # None'
    BY <1>1, <1>5 DEF None, Content
  <2> QED BY <1>1, <1>2, <2>3, <2>5, <2>10, <2>11
    DEF InStep, Announcing, Header, Msgs, Files
<1> QED BY <1>4, <1>5 DEF ReadPhoto

\* It finds nothing that is not a message.
LEMMA ReadOtherInStep ==
    ASSUME Going, ReadOther
    PROVE  FALSE
<1>1. srv = "read" /\ toServer # <<>> /\ Head(toServer) \in Halves
  BY DEF ReadOther, IsHalf
<1>2. Head(toServer) \in Msgs
  <2>1. size \in Nat
    BY SizeIsNat DEF Going
  <2>2. Request \in Msgs /\ Announcement \in Msgs
    BY <2>1, Messages
  <2> QED BY <1>1, <2>2, ThreadFinds
<1> QED BY <1>1, <1>2, HalvesAreNoMsgs

\* It finds the sum right.
LEMMA VerdictInStep ==
    ASSUME Going, Clean', Verdict
    PROVE  InStep'
<1>1. /\ srv = "verdict" /\ UNCHANGED <<cli, toServer>>
  BY DEF Verdict, clientVars
<1>2. cli = "verdict" /\ toServer = <<>> /\ toClient = <<>>
      /\ image = md5sum
  BY <1>1
    DEF Going, InStep, Asking, Confirmed, NotFound, Announcing, Receiving,
        Received, Answering
<1>3. Answer(ImageOK) /\ srv' = "read"
  BY <1>1, <1>2 DEF Verdict, Clean
<1>4. toClient' = <<ImageOK>>
  BY <1>2, <1>3 DEF Answer
<1>5. ImageOK' = ImageOK
  BY DEF ImageOK, Msg, None, Content
<1> QED BY <1>1, <1>2, <1>3, <1>4, <1>5 DEF InStep, Confirmed

\* It writes a packet of a photo.
LEMMA SendChunkInStep ==
    ASSUME Going, SendChunk
    PROVE  InStep'
<1>1. /\ srv = "send" /\ UNCHANGED <<cli, toServer, image, count_, announced>>
      /\ bytesCount' = bytesCount + MAX_DATA_SIZE
      /\ srv' = IF image.bytes - bytesCount > MAX_DATA_SIZE THEN "send" ELSE "ack"
  BY DEF SendChunk, clientVars
<1>2. Announcing \/ Receiving
  BY <1>1 DEF Going, InStep, Asking, Confirmed, NotFound, Received
<1>3. cli # "gone"
  BY <1>2 DEF Announcing, Receiving
<1> DEFINE p == Chunk(image.of, bytesCount \div MAX_DATA_SIZE + 1)
<1>4. toClient' = toClient \o p
  BY <1>3 DEF SendChunk
<1>5. /\ toClient \in Seq(Packets) /\ bytesCount \in Nat
      /\ Len(toClient) \in Nat
      /\ Multiple(bytesCount) /\ Filled(bytesCount) < Needed(image.bytes)
      /\ Filled(bytesCount) \in Nat
      /\ image.bytes \in Nat /\ image.of \in Nat
  <2>1. image # None
    BY <1>1 DEF Going, Typed, ServerCounts
  <2> QED BY <1>1, <2>1, Facts
    DEF Going, Typed, ServerCounts, ServerTypes, Files
<1>6. p \in Seq(Packets) /\ Len(p) = 2 /\ p \in Seq(Halves)
  BY <1>5, ChunkTypes
<1> HIDE DEF p
<1>7. /\ Len(toClient') = Len(toClient) + 2
      /\ DOMAIN toClient' = 1..(Len(toClient) + 2)
      /\ \A x \in 1..Len(toClient) : toClient'[x] = toClient[x]
      /\ \A x \in {1, 2} : toClient'[Len(toClient) + x] \in Halves
  <2>1. /\ Len(toClient \o p) = Len(toClient) + Len(p)
        /\ DOMAIN (toClient \o p) = 1..(Len(toClient) + Len(p))
        /\ \A x \in 1..Len(toClient) : (toClient \o p)[x] = toClient[x]
        /\ \A x \in 1..Len(p) : (toClient \o p)[Len(toClient) + x] = p[x]
    <3>1. toClient \in Seq(Packets) /\ p \in Seq(Packets)
      BY <1>5, <1>6
    <3> QED BY <3>1, Concatenated
  <2>2. \A x \in {1, 2} : x \in 1..Len(p) /\ p[x] \in Halves
    BY <1>6
  <2> QED BY <1>4, <1>6, <2>1, <2>2
<1>8. /\ Filled(bytesCount') = Filled(bytesCount) + 1
      /\ srv' = "ack" => Filled(bytesCount') = Needed(image.bytes)
      /\ srv' \in {"send", "ack"} /\ Needed(image.bytes) \in Nat
  <2>1. /\ Filled(bytesCount') = Filled(bytesCount) + 1
        /\ image.bytes - bytesCount <= MAX_DATA_SIZE <=>
              Needed(image.bytes) <= Filled(bytesCount) + 1
        /\ Needed(image.bytes) \in Nat
    BY <1>1, <1>5, CountOnePacket, NoneFilled
  <2> QED BY <1>1, <1>5, <2>1, MaxIsPositive
<1>9. ASSUME NEW m \in Int, NEW n, Answering(m, n) PROVE Answering(m, n)'
  <2>1. toServer = <<>> /\ Len(toClient) = m + 2 * Filled(bytesCount)
        /\ image.bytes = n
    BY <1>1, <1>9 DEF Answering
  <2>2. /\ Len(toClient') = m + 2 * Filled(bytesCount')
        /\ srv' = "ack" => Filled(bytesCount') = Needed(n)
        /\ Len(toClient') <= m + 2 * Needed(n)
    BY <2>1, <1>5, <1>7, <1>8
  <2>3. toServer' = <<>> /\ image'.bytes = n
    BY <1>1, <2>1
  <2>4. ASSUME NEW x \in DOMAIN toClient', m < x PROVE toClient'[x] \in Halves
    <3>1. CASE x \in 1..Len(toClient)
      <4>1. x \in DOMAIN toClient
        BY <1>5, <3>1
      <4>2. toClient[x] \in Halves
        BY <1>9, <2>4, <4>1 DEF Answering
      <4> QED BY <1>7, <3>1, <4>2
    <3>2. CASE x \notin 1..Len(toClient)
      <4>1. x = Len(toClient) + 1 \/ x = Len(toClient) + 2
        BY <1>5, <1>7, <3>2
      <4> QED BY <1>7, <4>1
    <3> QED BY <3>1, <3>2
  <2> QED BY <1>8, <2>2, <2>3, <2>4 DEF Answering
<1>10. CASE Announcing
  <2>1. PICK h : h = toClient[1]
    OBVIOUS
  <2>2. /\ 1 \in 1..Len(toClient) /\ Head(toClient) = h
    BY <1>5, <1>10, <2>1, TailIsShifted DEF Announcing
  <2>3. toClient' # <<>> /\ toClient'[1] = h /\ toClient' \in Seq(Packets)
    BY <1>4, <1>5, <1>6, <1>7, <2>1, <2>2, Concatenated
  <2>4. Head(toClient') = h
    BY <2>3, TailIsShifted
  <2>5. Header(h) /\ image # None /\ Answering(1, h.size) /\ cli = "asked"
    BY <1>10, <2>2 DEF Announcing
  <2>6. Answering(1, h.size)'
    BY <1>9, <2>5
  <2>7. Answering(1, Head(toClient).size)'
    BY <2>4, <2>6 DEF Answering
  <2>8. image' # None' /\ cli' = "asked"
    BY <1>1, <2>5 DEF None, Content
  <2> QED BY <2>3, <2>4, <2>5, <2>7, <2>8
    DEF InStep, Announcing, Header, Msgs, Files
<1>11. CASE Receiving
  <2>1. PICK k : k = -2 * Filled(count_)
    OBVIOUS
  <2>2. PICK n : n = announced
    OBVIOUS
  <2>3. Answering(k, n) /\ k \in Int
    BY <1>11, <2>1, <2>2, Facts DEF Receiving, Going
  <2>4. Answering(k, n)'
    BY <1>9, <2>3
  <2>5. k = -2 * Filled(count_') /\ n = announced' /\ cli' = "receiving"
    BY <1>1, <1>11, <2>1, <2>2 DEF Receiving
  <2> QED BY <2>4, <2>5 DEF InStep, Receiving, Answering
<1> QED BY <1>2, <1>10, <1>11

\* It reads what the client says of it.
LEMMA ReadAckInStep ==
    ASSUME Going, ReadAck
    PROVE  InStep'
<1>1. srv = "ack" /\ UNCHANGED <<size, cli, count_, fd_file, toClient>>
  BY DEF ReadAck, clientVars
<1>2. cli # "gone"
  BY
    DEF Going, InStep, Asking, Confirmed, NotFound, Announcing, Receiving,
        Received
<1>3. toServer # <<>> /\ toServer' = Tail(toServer)
      /\ srv' \in {"read", "exit"}
  BY <1>2 DEF ReadAck
<1>4. Asking /\ Asks(2)
  BY <1>1, <1>3
    DEF Going, InStep, Asking, Confirmed, NotFound, Announcing, Receiving,
        Received, Answering
<1>5. toServer' \in Seq(Packets) /\ Shifted(toServer', toServer, 1) /\ Typed
  BY <1>3, TailIsShifted DEF Going, Typed, StreamTypes
<1>6. Asks(1)'
  BY <1>1, <1>4, <1>5, AsksShift
<1>7. /\ cli' \in {"idle", "stat", "open", "sending", "verdict", "asked"}
      /\ toClient' = <<>> /\ (cli' = "sending" => fd_file')
  BY <1>1, <1>4 DEF Asking
<1> QED BY <1>3, <1>6, <1>7 DEF InStep, Asking

\* With the last packet the image is whole.
LEMMA LastPacket ==
    ASSUME NEW n \in Nat, NEW total \in Nat, n <= total
    PROVE  IsLast(total, n + MAX_DATA_SIZE) => n + Rest(total, n) = total
  BY MaxIsPositive DEF IsLast, Rest

\* A client that has sent all the packets of an image waits for the verdict.
LEMMA AllIsSent ==
    ASSUME Typed, cli \in {"open", "sending", "verdict"}
    PROVE  /\ AllSent \in Nat /\ AllSent <= Needed(size)
           /\ AllSent = Needed(size) => cli = "verdict"
<1>1. /\ Needed(size) \in Nat /\ Needed(size) >= 1 /\ Filled(count_) \in Nat
      /\ cli = "sending" => Filled(count_) < Needed(size)
  BY Facts DEF Typed, ClientCounts
<1>2. CASE cli = "open"
  BY <1>1, <1>2 DEF AllSent, Sent
<1>3. CASE cli = "sending"
  BY <1>1, <1>3 DEF AllSent, Sent
<1>4. CASE cli = "verdict"
  BY <1>1, <1>4 DEF AllSent
<1> QED BY <1>2, <1>3, <1>4

\* Where the packets of the image begin the first two elements are halves.
LEMMA FirstAreHalves ==
    ASSUME Typed, NEW n \in Nat, Sending(-2 * n)
    PROVE  \A x \in DOMAIN toServer : x <= 2 => toServer[x] \in Halves
<1>f. /\ toServer \in Seq(Packets) /\ Len(toServer) \in Nat
      /\ DOMAIN toServer = 1..Len(toServer) /\ size \in Nat
      /\ Needed(size) \in Nat /\ Filled(count_) \in Nat
  BY Facts
<1>1. PICK a \in Nat : Len(toServer) = -2 * n + 2 * a
  BY <1>f DEF Sending, AllSent, Sent
<1>2. ASSUME NEW x \in DOMAIN toServer, x <= 2 PROVE toServer[x] \in Halves
  <2>1. x \in {1, 2} /\ Len(toServer) >= 1
    BY <1>f, <1>2
  <2>2. Len(toServer) >= 2
    BY <1>1, <2>1
  <2>3. PICK c \in Nat : c = n + 1
    OBVIOUS
  <2>k. PICK k \in Int : k = -2 * n
    OBVIOUS
  <2>4. k + 2 * c - 1 = 1 /\ k + 2 * c = 2 /\ c \in Nat \ {0}
    BY <2>3, <2>k
  <2>5. {k + 2 * c - 1, k + 2 * c} \subseteq DOMAIN toServer
    BY <1>f, <2>2, <2>4
  <2>i. InOrder(k)
    BY <2>k DEF Sending
  <2>6. toServer[1] = Chunk(size, c)[1] /\ toServer[2] = Chunk(size, c)[2]
    <3>1. toServer[k + 2 * c - 1] = Chunk(size, c)[1]
          /\ toServer[k + 2 * c] = Chunk(size, c)[2]
      BY <2>4, <2>5, <2>i DEF InOrder
    <3> QED BY <2>4, <3>1
  <2>7. Chunk(size, c)[1] \in Halves /\ Chunk(size, c)[2] \in Halves
    BY <1>f, <2>3 DEF Chunk, Halves
  <2> QED BY <2>1, <2>6, <2>7
<1> QED BY <1>2

\* It receives a packet.
LEMMA ReceiveChunkInStep ==
    ASSUME Going, Clean', Typed', ReceiveChunk
    PROVE  InStep'
<1>f. Typed /\ toServer \in Seq(Packets) /\ Len(toServer) \in Nat
      /\ DOMAIN toServer = 1..Len(toServer)
      /\ size \in Nat /\ bytesCount \in Nat /\ Filled(bytesCount) \in Nat
      /\ Needed(size) \in Nat
      /\ toServer' \in Seq(Packets)
  BY Facts DEF Going, Typed, StreamTypes
<1>1. /\ srv = "recv" /\ bytesCount' = bytesCount + MAX_DATA_SIZE
      /\ UNCHANGED <<size, filesize, md5sum, cli, count_, fd_file, toClient>>
      /\ srv' = IF IsLast(filesize, bytesCount') THEN "verdict" ELSE "recv"
  BY DEF ReceiveChunk, clientVars
<1>2. /\ cli \in {"open", "sending", "verdict"} /\ toClient = <<>>
      /\ (cli = "sending" => fd_file)
      /\ md5sum = Image(size) /\ image.intact /\ image.of = size
      /\ filesize = size /\ Sending(-2 * Filled(bytesCount))
  BY <1>1
    DEF Going, InStep, Asking, Confirmed, NotFound, Announcing, Receiving,
        Received, Answering
<1>3. /\ Multiple(bytesCount) /\ bytesCount <= size
      /\ image.bytes = bytesCount /\ Filled(bytesCount) < Needed(size)
  BY <1>1, <1>2, <1>f DEF Typed, ServerCounts
<1>4. PICK eof \in BOOLEAN : eof = (cli = "gone")
  OBVIOUS
<1>5. PICK r \in Reads(pkt, toServer, eof) :
        /\ toServer' = r.rest
        /\ image' = Extend(image, r.buf, filesize, bytesCount)
        /\ faults' = IF r.n = 1 THEN faults \cup {"short"} ELSE faults
  BY <1>4 DEF ReceiveChunk
<1>h. \A x \in DOMAIN toServer : x <= 2 => toServer[x] \in Halves
  BY <1>f, <1>2, FirstAreHalves
<1>6. /\ r.n \in 0..2 /\ r.n <= Len(toServer) /\ (r.n = 0 => eof)
      /\ Shifted(toServer', toServer, r.n)
      /\ r.n = 2 => r.buf = <<toServer[1], toServer[2]>>
  BY <1>f, <1>5, <1>h, ReadsShift
<1>7. r.n = 2
  <2>1. r.n # 0
    BY <1>2, <1>4, <1>6
  <2>2. r.n # 1
    BY <1>5 DEF Clean
  <2> QED BY <1>6, <2>1, <2>2
<1>8. Len(toServer) >= 2 /\ Shifted(toServer', toServer, 2)
      /\ r.buf = <<toServer[1], toServer[2]>>
  BY <1>6, <1>7
<1>9. PICK k \in Int : k = -2 * Filled(bytesCount)
  BY <1>f
<1>10. Sending(k) /\ k - 2 = -2 * Filled(bytesCount')
  <2>1. Filled(bytesCount') = Filled(bytesCount) + 1
    BY <1>f, <1>1, <1>3, CountOnePacket
  <2> QED BY <1>2, <1>9, <1>f, <2>1
<1>n. PICK n \in Nat : n = Filled(bytesCount) /\ k = -2 * n
  BY <1>f, <1>9
<1>11. Expected(image.of, r.buf, size, bytesCount)
  <2>c. PICK c \in Nat : c = n + 1
    OBVIOUS
  <2>1. c \in Nat \ {0} /\ k + 2 * c - 1 = 1 /\ k + 2 * c = 2
    <3>1. \A j \in Nat : -2 * j + 2 * (j + 1) - 1 = 1
          /\ -2 * j + 2 * (j + 1) = 2 /\ j + 1 # 0
      OBVIOUS
    <3>2. k + 2 * c - 1 = 1 /\ k + 2 * c = 2 /\ c # 0
      BY <1>n, <2>c, <3>1
    <3> QED BY <2>c, <3>2
  <2>d. 1 \in DOMAIN toServer /\ 2 \in DOMAIN toServer
    BY <1>f, <1>8
  <2>2. {k + 2 * c - 1, k + 2 * c} \subseteq DOMAIN toServer
    BY <2>1, <2>d
  <2>3. toServer[k + 2 * c - 1] = Chunk(size, c)[1]
        /\ toServer[k + 2 * c] = Chunk(size, c)[2]
    BY <1>10, <2>1, <2>2 DEF Sending, InOrder
  <2>4. toServer[1] = Chunk(size, c)[1] /\ toServer[2] = Chunk(size, c)[2]
    BY <2>1, <2>3
  <2>5. r.buf[1] = Chunk(size, c)[1] /\ r.buf[2] = Chunk(size, c)[2]
    BY <1>8, <2>4
  <2> QED BY <2>5, <1>2, <1>n, <2>c DEF Expected, Filled
<1>12. image' = Content(size, bytesCount + Rest(size, bytesCount), TRUE)
  <2>1. (image.intact /\ Expected(image.of, r.buf, size, bytesCount)) = TRUE
    BY <1>2, <1>11 DEF Going, Typed, ServerTypes, Files
  <2> QED BY <1>2, <1>3, <1>5, <2>1 DEF Extend, Content
<1>13. Sending(k - 2)'
  BY <1>f, <1>1, <1>8, <1>10, SendingShift
<1>14. /\ image'.intact = TRUE /\ image'.of = size'
       /\ filesize' = size' /\ md5sum' = Image(size')
  BY <1>1, <1>2, <1>12 DEF Content
<1>15. CASE ~IsLast(size, bytesCount')
  <2>1. srv' = "recv"
    BY <1>1, <1>2, <1>15
  <2>2. Sending(-2 * Filled(bytesCount))'
    BY <1>10, <1>13 DEF Sending, InOrder
  <2>3. toClient' = <<>> /\ cli' \in {"open", "sending", "verdict"}
        /\ (cli' = "sending" => fd_file')
    BY <1>1, <1>2
  <2> QED BY <1>14, <2>1, <2>2, <2>3 DEF InStep, Asking, Image, Content
<1>16. CASE IsLast(size, bytesCount')
  <2>1. srv' = "verdict"
    BY <1>1, <1>2, <1>16
  <2>2. image' = Image(size)
    BY <1>1, <1>3, <1>12, <1>16, <1>f, LastPacket DEF Image
  <2>3. Needed(size) = Filled(bytesCount) + 1
    <3>1. size - bytesCount <= MAX_DATA_SIZE <=>
              Needed(size) <= Filled(bytesCount) + 1
      BY <1>f, <1>3, CountOnePacket
    <3>2. size - bytesCount <= MAX_DATA_SIZE
      BY <1>1, <1>f, <1>16, MaxIsPositive DEF IsLast
    <3> QED BY <1>f, <1>3, <3>1, <3>2
  <2>4. /\ Len(toServer) = k + 2 * AllSent /\ AllSent \in Nat
        /\ AllSent <= Needed(size)
        /\ AllSent = Needed(size) => cli = "verdict"
    BY <1>2, <1>10, <1>f, AllIsSent DEF Sending
  <2>5. Len(toServer) = 2 /\ cli = "verdict"
    <3>1. PICK a \in Nat : a = AllSent
      BY <2>4
    <3>2. PICK l \in Nat : l = Len(toServer)
      BY <1>f
    <3>3. l = -2 * n + 2 * a /\ a <= n + 1 /\ l >= 2
      BY <1>8, <1>n, <2>3, <2>4, <3>1, <3>2
    <3>4. a = n + 1 /\ l = 2
      BY <3>3
    <3> QED BY <1>n, <2>3, <2>4, <3>1, <3>2, <3>4
  <2>6. toServer' = <<>>
    BY <1>f, <1>8, <2>5 DEF Shifted
  <2> QED BY <1>1, <1>2, <2>1, <2>2, <2>5, <2>6
    DEF InStep, Asking, Image, Content
<1> QED BY <1>15, <1>16

----------------------------------------------------------------------------
(* The steps of the client.                                                *)

\* What the client writes to a thread that waits for it.
LEMMA AsksMore ==
    ASSUME Typed, NEW x \in {1, 2}, Asks(x), cli \in {"idle", "stat"},
           NEW e \in Msgs,
           toServer' = toServer \o <<e>>, UNCHANGED size,
           \/ cli' = "asked" /\ e = Request
           \/ cli' = "open" /\ e = Announcement
    PROVE  Asks(x)' /\ (x = 2 => toServer # <<>> /\ Head(toServer') = Head(toServer))
<1>f. toServer \in Seq(Packets) /\ Len(toServer) \in Nat
      /\ Len(toServer) = x - 1
  BY Facts DEF Asks
<1>1. <<e>> \in Seq(Packets) /\ Len(<<e>>) = 1 /\ <<e>>[1] = e
  BY DEF Packets
<1> DEFINE p == <<e>>
<1> HIDE DEF p
<1>2. /\ p \in Seq(Packets) /\ Len(p) = 1 /\ p[1] = e
      /\ toServer' = toServer \o p
  BY <1>1 DEF p
<1>3. /\ toServer' \in Seq(Packets) /\ Len(toServer') = Len(toServer) + 1
      /\ \A i \in 1..Len(toServer) : toServer'[i] = toServer[i]
      /\ toServer'[Len(toServer) + 1] = e
  <2>1. /\ toServer \o p \in Seq(Packets)
        /\ Len(toServer \o p) = Len(toServer) + Len(p)
        /\ \A i \in 1..Len(toServer) : (toServer \o p)[i] = toServer[i]
        /\ \A i \in 1..Len(p) : (toServer \o p)[Len(toServer) + i] = p[i]
    BY <1>f, <1>2, Concatenated
  <2>2. 1 \in 1..Len(p)
    BY <1>2
  <2> QED BY <1>2, <2>1, <2>2
<1>4. Len(toServer') = x /\ toServer'[x] = e
  BY <1>f, <1>3
<1>5. Announcement' = Announcement
  BY DEF Announcement, Msg, Image, Content
<1>6. CASE cli' = "asked" /\ e = Request
  BY <1>4, <1>6 DEF Asks, Request, Msg, None, Content
<1>7. CASE cli' = "open" /\ e = Announcement
  <2>1. AllSent' = 0
    BY <1>7 DEF AllSent, Sent
  <2>2. DOMAIN toServer' = 1..x
    BY <1>3, <1>4
  <2>3. \A c \in Nat \ {0} : ~({x + 2 * c - 1, x + 2 * c} \subseteq 1..x)
    OBVIOUS
  <2>4. InOrder(x)'
    BY <2>2, <2>3 DEF InOrder
  <2>5. Sending(x)'
    BY <1>4, <2>1, <2>4 DEF Sending
  <2> QED BY <1>4, <1>5, <1>7, <2>5 DEF Asks
<1>8. x = 2 => toServer # <<>> /\ Head(toServer') = Head(toServer)
  <2>1. SUFFICES ASSUME x = 2 PROVE toServer # <<>>
        /\ Head(toServer') = Head(toServer)
    OBVIOUS
  <2>2. Len(toServer) = 1 /\ toServer # <<>> /\ toServer' # <<>>
    BY <1>f, <1>3, <2>1
  <2>3. Head(toServer) = toServer[1] /\ Head(toServer') = toServer'[1]
        /\ toServer'[1] = toServer[1]
    BY <1>f, <1>3, <2>2, TailIsShifted
  <2> QED BY <2>2, <2>3
<1> QED BY <1>6, <1>7, <1>8

\* The client asks for something.
LEMMA ClientAsks ==
    ASSUME Going, NEW e \in Msgs, Tell(<<e>>), cli \in {"idle", "stat"},
           UNCHANGED <<size, srv, toClient>>,
           \/ cli' = "asked" /\ e = Request
           \/ cli' = "open" /\ e = Announcement
    PROVE  InStep'
<1>1. Asking /\ Typed
  BY DEF Going, InStep, Confirmed, NotFound, Announcing, Receiving, Received
<1>2. toClient' = <<>> /\ cli' \in {"asked", "open"}
  BY <1>1 DEF Asking
<1>3. CASE srv \in {"exit", "none", "down"}
  BY <1>2, <1>3 DEF InStep, Asking
<1>4. CASE srv \notin {"exit", "none", "down"}
  <2>1. toServer' = toServer \o <<e>>
    BY <1>4 DEF Tell
  <2>2. CASE srv = "read"
    <3>1. Asks(1)
      BY <1>1, <2>2 DEF Asking
    <3>2. Asks(1)'
      BY <1>1, <2>1, <3>1, AsksMore
    <3> QED BY <1>2, <2>2, <3>2 DEF InStep, Asking
  <2>3. CASE srv = "ack"
    <3>1. Asks(2) /\ ~Header(Head(toServer))
      BY <1>1, <2>3 DEF Asking
    <3>2. Asks(2)' /\ toServer # <<>> /\ Head(toServer') = Head(toServer)
      BY <1>1, <2>1, <3>1, AsksMore
    <3>3. toServer' # <<>>
      <4>1. <<e>> \in Seq(Packets) /\ Len(<<e>>) = 1
            /\ toServer \in Seq(Packets)
        BY <1>1 DEF Packets, Typed, StreamTypes
      <4>2. Len(toServer \o <<e>>) = Len(toServer) + Len(<<e>>)
            /\ Len(toServer) \in Nat
        BY <4>1, Concatenated
      <4>3. Len(toServer') > 0
        BY <2>1, <4>1, <4>2
      <4> QED BY <4>3
    <3>4. ~Header(Head(toServer'))
      BY <3>1, <3>2
    <3> QED BY <1>2, <2>3, <3>2, <3>3, <3>4 DEF InStep, Asking, Header, Msgs
  <2>4. srv \in {"read", "ack"}
    BY <1>1, <1>4 DEF Asking
  <2> QED BY <2>2, <2>3, <2>4
<1> QED BY <1>3, <1>4

\* It announces an image.
LEMMA SendHeaderInStep ==
    ASSUME Going, SendHeader
    PROVE  InStep'
<1>1. size \in Nat /\ file = TRUE
  BY SizeIsNat DEF Going, Typed, ClientTypes
<1>2. Announcement \in Msgs
  BY <1>1, Messages
<1>3. /\ cli = "stat" /\ cli' = "open" /\ UNCHANGED <<size, srv, toClient>>
      /\ Tell(<<Announcement>>)
  BY <1>1 DEF SendHeader, ClientStep, serverVars, Announcement
<1> QED BY <1>2, <1>3, ClientAsks

\* It asks for a photo.
LEMMA TypePhotoInStep ==
    ASSUME Going, TypePhoto
    PROVE  InStep'
<1>2. Request \in Msgs
  BY Messages
<1>3. /\ cli = "idle" /\ cli' = "asked" /\ UNCHANGED <<size, srv, toClient>>
      /\ Tell(<<Request>>)
  BY DEF TypePhoto, ClientStep, serverVars
<1> QED BY <1>2, <1>3, ClientAsks

\* The client goes on and nothing is written or read.
LEMMA TypeSendInStep ==
    ASSUME Going, TypeSend
    PROVE  InStep'
<1>1. /\ cli = "idle" /\ cli' = "stat"
      /\ UNCHANGED <<srv, toClient, toServer>>
  BY DEF TypeSend, ClientStep, serverVars, net
<1>2. Asking
  BY <1>1
    DEF Going, InStep, Confirmed, NotFound, Announcing, Receiving, Received
<1>3. ASSUME NEW x, Asks(x) PROVE Asks(x)'
  BY <1>1, <1>3 DEF Asks
<1>4. Asks(1) => Asks(1)'
  BY <1>3
<1>5. Asks(2) => Asks(2)'
  BY <1>3
<1> QED BY <1>1, <1>2, <1>4, <1>5 DEF InStep, Asking, Header, Msgs, Files

\* It opens the image.
LEMMA OpenFileInStep ==
    ASSUME Going, OpenFile
    PROVE  InStep'
<1>1. /\ cli = "open" /\ cli' = "sending" /\ count_' = 0 /\ fd_file' = file
      /\ UNCHANGED <<size, srv, toClient, toServer>>
      /\ UNCHANGED <<bytesCount, filesize, md5sum, image>>
  BY DEF OpenFile, ClientStep, serverVars, net
<1>2. Asking
  BY <1>1
    DEF Going, InStep, Confirmed, NotFound, Announcing, Receiving, Received
<1>a. AllSent' = AllSent
  BY <1>1, NoneFilled DEF AllSent, Sent
<1>s. ASSUME NEW m, Sending(m) PROVE Sending(m)'
  BY <1>1, <1>s, <1>a DEF Sending, InOrder, Chunk
<1>3. ASSUME NEW x, Asks(x) PROVE Asks(x)'
  <2>1. Sending(x) => Sending(x)'
    BY <1>s
  <2> QED BY <1>1, <1>3, <2>1 DEF Asks, Announcement, Msg, Image, Content
<1>4. Asks(1) => Asks(1)'
  BY <1>3
<1>5. Asks(2) => Asks(2)'
  BY <1>3
<1>6. Sending(-2 * Filled(bytesCount)) => Sending(-2 * Filled(bytesCount))'
  <2>1. SUFFICES ASSUME Sending(-2 * Filled(bytesCount))
                 PROVE Sending(-2 * Filled(bytesCount))'
    OBVIOUS
  <2>2. PICK k : k = -2 * Filled(bytesCount)
    OBVIOUS
  <2>3. Sending(k)' /\ k = -2 * Filled(bytesCount')
    BY <1>1, <1>s, <2>1, <2>2
  <2> QED BY <2>3 DEF Sending, InOrder
<1>7. file = TRUE
  BY DEF Going, Typed, ClientTypes
<1> QED BY <1>1, <1>2, <1>4, <1>5, <1>6, <1>7
  DEF InStep, Asking, Header, Msgs, Files, Image, Content

\* It writes a packet of the image.
LEMMA WriteChunkInStep ==
    ASSUME Going, WriteChunk
    PROVE  InStep'
<1>f. /\ Typed /\ toServer \in Seq(Packets) /\ Len(toServer) \in Nat
      /\ DOMAIN toServer = 1..Len(toServer)
      /\ size \in Nat /\ count_ \in Nat /\ Filled(count_) \in Nat
      /\ Needed(size) \in Nat
  BY Facts DEF Going
<1>1. /\ cli = "sending"
      /\ UNCHANGED <<size, srv, toClient, bytesCount, filesize, md5sum, image>>
      /\ UNCHANGED fd_file
  BY DEF WriteChunk, serverVars
<1>2. Asking
  BY <1>1
    DEF Going, InStep, Confirmed, NotFound, Announcing, Receiving, Received
<1>3. fd_file
  BY <1>1, <1>2 DEF Asking
<1>4. /\ Multiple(count_) /\ Filled(count_) < Needed(size)
      /\ Filled(count_ + MAX_DATA_SIZE) = Filled(count_) + 1
      /\ size - count_ <= MAX_DATA_SIZE <=> Needed(size) <= Filled(count_) + 1
  BY <1>f, <1>1, CountOnePacket DEF Typed, ClientCounts
<1>5. \/ size - count_ > MAX_DATA_SIZE /\ count_' = count_ + MAX_DATA_SIZE
         /\ cli' = "sending"
      \/ size - count_ <= MAX_DATA_SIZE /\ cli' = "verdict" /\ count_' = count_
  BY <1>1, <1>3 DEF WriteChunk, ClientStep
<1>6. cli' \in {"sending", "verdict"} /\ AllSent' = Filled(count_) + 1
      /\ AllSent = Filled(count_)
  <2>1. AllSent = Filled(count_)
    BY <1>1 DEF AllSent, Sent
  <2>2. CASE count_' = count_ + MAX_DATA_SIZE /\ cli' = "sending"
    BY <2>1, <2>2, <1>4 DEF AllSent, Sent
  <2>3. CASE size - count_ <= MAX_DATA_SIZE /\ cli' = "verdict"
    <3>1. Needed(size') = Filled(count_) + 1
      BY <2>3, <1>1, <1>4, <1>f
    <3> QED BY <2>1, <2>3, <3>1 DEF AllSent
  <2> QED BY <1>5, <2>2, <2>3
<1>7. toClient' = <<>> /\ cli' \in {"sending", "verdict"}
      /\ (cli' = "sending" => fd_file')
  BY <1>1, <1>2, <1>3, <1>6 DEF Asking
<1>8. CASE srv \in {"exit", "none", "down"}
  BY <1>1, <1>7, <1>8 DEF InStep, Asking
<1>9. CASE srv \notin {"exit", "none", "down"}
  <2>n. PICK n \in Nat : n = Filled(count_)
    BY <1>f
  <2> DEFINE p == Chunk(size, n + 1)
  <2>1. toServer' = toServer \o p
    BY <1>3, <1>9, <2>n DEF WriteChunk, Tell, Filled
  <2>2. p \in Seq(Packets) /\ Len(p) = 2
    <3>1. p \in Seq(Halves) /\ Len(p) = 2
      BY <1>f, <2>n, ChunkTypes DEF Filled
    <3> QED BY <3>1 DEF Packets
  <2>c. p[1] = Chunk(size, n + 1)[1] /\ p[2] = Chunk(size, n + 1)[2]
    OBVIOUS
  <2> HIDE DEF p
  <2>3. PICK l \in Nat : l = Len(toServer)
    BY <1>f
  <2>4. /\ toServer' \in Seq(Packets) /\ Len(toServer') = l + 2
        /\ DOMAIN toServer' = 1..(l + 2)
        /\ \A x \in 1..l : toServer'[x] = toServer[x]
        /\ toServer'[l + 1] = p[1] /\ toServer'[l + 2] = p[2]
    <3>0. toServer \in Seq(Packets) /\ p \in Seq(Packets)
      BY <1>f, <2>2
    <3>1. /\ toServer \o p \in Seq(Packets)
          /\ Len(toServer \o p) = Len(toServer) + Len(p)
          /\ DOMAIN (toServer \o p) = 1..(Len(toServer) + Len(p))
          /\ \A x \in 1..Len(toServer) : (toServer \o p)[x] = toServer[x]
          /\ \A x \in 1..Len(p) : (toServer \o p)[Len(toServer) + x] = p[x]
      BY <3>0, Concatenated
    <3>2. 1 \in 1..Len(p) /\ 2 \in 1..Len(p)
      BY <2>2
    <3> QED BY <2>1, <2>2, <2>3, <3>1, <3>2
  <2>s. ASSUME NEW m \in Int, Sending(m) PROVE Sending(m)'
    <3>1. l = m + 2 * n /\ InOrder(m)
      BY <1>6, <2>n, <2>3, <2>s DEF Sending
    <3>2. Len(toServer') = m + 2 * AllSent'
      BY <1>6, <2>n, <2>4, <3>1
    <3>3. ASSUME NEW c \in Nat \ {0},
                 {m + 2 * c - 1, m + 2 * c} \subseteq DOMAIN toServer'
          PROVE  /\ toServer'[m + 2 * c - 1] = Chunk(size, c)[1]
                 /\ toServer'[m + 2 * c] = Chunk(size, c)[2]
      <4>1. m + 2 * c - 1 \in 1..(l + 2) /\ m + 2 * c \in 1..(l + 2)
        BY <3>3, <2>4
      <4>2. c <= n + 1
        BY <3>1, <4>1
      <4>3. CASE c = n + 1
        <5>1. m + 2 * c - 1 = l + 1 /\ m + 2 * c = l + 2
          BY <3>1, <4>3
        <5> QED BY <2>4, <2>c, <4>3, <5>1
      <4>4. CASE c <= n
        <5>1. m + 2 * c - 1 \in 1..l /\ m + 2 * c \in 1..l
          BY <3>1, <4>1, <4>4
        <5>2. {m + 2 * c - 1, m + 2 * c} \subseteq DOMAIN toServer
          BY <1>f, <2>3, <5>1
        <5>3. toServer[m + 2 * c - 1] = Chunk(size, c)[1]
              /\ toServer[m + 2 * c] = Chunk(size, c)[2]
          BY <3>1, <5>2 DEF InOrder
        <5> QED BY <2>4, <5>1, <5>3
      <4> QED BY <4>2, <4>3, <4>4
    <3>4. InOrder(m)'
      BY <1>1, <3>3 DEF InOrder, Chunk
    <3> QED BY <3>2, <3>4 DEF Sending
  <2>5. ASSUME NEW x \in {1, 2}, Asks(x) PROVE Asks(x)'
    <3>1. Len(toServer) >= x /\ toServer[x] = Announcement /\ Sending(x)
      BY <1>1, <2>5 DEF Asks
    <3>2. Sending(x)'
      BY <2>s, <3>1
    <3>3. Len(toServer') >= x /\ toServer'[x] = Announcement
      BY <2>3, <2>4, <3>1
    <3>4. Announcement' = Announcement
      BY <1>1 DEF Announcement, Msg, Image, Content
    <3> QED BY <1>6, <3>2, <3>3, <3>4 DEF Asks
  <2>6. CASE srv = "read"
    <3>1. Asks(1)'
      BY <1>2, <2>5, <2>6 DEF Asking
    <3> QED BY <1>1, <1>7, <2>6, <3>1 DEF InStep, Asking
  <2>7. CASE srv = "ack"
    <3>1. toServer # <<>> /\ ~Header(Head(toServer)) /\ Asks(2)
      BY <1>2, <2>7 DEF Asking
    <3>2. Asks(2)'
      BY <2>5, <3>1
    <3>3. toServer' # <<>> /\ Head(toServer') = Head(toServer)
      <4>1. l # 0
        BY <1>f, <2>3, <3>1
      <4>2. toServer' # <<>> /\ toServer'[1] = toServer[1]
        BY <2>4, <4>1
      <4> QED BY <1>f, <2>4, <3>1, <4>2, TailIsShifted
    <3>4. ~Header(Head(toServer'))
      BY <3>1, <3>3
    <3> QED BY <1>1, <1>7, <2>7, <3>2, <3>3, <3>4
      DEF InStep, Asking, Header, Msgs, Files
  <2>8. CASE srv = "recv"
    <3>1. /\ md5sum = Image(size) /\ filesize = size
          /\ image.intact /\ image.of = size
          /\ Sending(-2 * Filled(bytesCount))
      BY <1>2, <2>8 DEF Asking
    <3>2. PICK k \in Int : k = -2 * Filled(bytesCount)
      BY Facts, <1>f
    <3>3. Sending(k)' /\ k = -2 * Filled(bytesCount')
      BY <1>1, <2>s, <3>1, <3>2
    <3>4. Sending(-2 * Filled(bytesCount))'
      BY <3>3 DEF Sending, InOrder
    <3>5. cli' \in {"open", "sending", "verdict"}
      BY <1>6
    <3> QED BY <1>1, <1>7, <2>8, <3>1, <3>4, <3>5
      DEF InStep, Asking, Image, Content
  <2>9. srv \in {"read", "ack", "recv"}
    BY <1>1, <1>2, <1>9 DEF Asking
  <2> QED BY <2>6, <2>7, <2>8, <2>9
<1> QED BY <1>8, <1>9

\* It reads the verdict, which is no refusal.
LEMMA ReadVerdictInStep ==
    ASSUME Going, ~(told = "R" /\ heard), ReadVerdict
    PROVE  InStep' /\ ~(told' = "R" /\ heard')
<1>1. cli = "verdict" /\ cli' = "idle" /\ UNCHANGED <<srv, toServer>>
  BY DEF ReadVerdict, ClientStep, serverVars
<1>2. Asking \/ Confirmed
  BY <1>1 DEF Going, InStep, NotFound, Announcing, Receiving, Received
<1>3. CASE toClient # <<>>
  <2>1. toClient = <<ImageOK>> /\ srv \in {"read", "none", "down"}
        /\ toServer = <<>>
    BY <1>2, <1>3 DEF Asking, Confirmed
  <2>2. Head(toClient) = ImageOK /\ Tail(toClient) = <<>>
        /\ ~IsHalf(Head(toClient))
    BY <2>1, Messages, HalvesAreNoMsgs DEF IsHalf
  <2>3. told' = "I" /\ \E r \in Reads(buf, toClient, FALSE) : toClient' = r.rest
    BY <1>3, <2>2 DEF ReadVerdict, ServerGone
  <2>4. toClient' = <<>>
    <3>1. PICK r \in Reads(buf, toClient, FALSE) : toClient' = r.rest
      BY <2>3
    <3>2. r = Took(<<Junk, Junk>>, 2, Tail(toClient))
      BY <1>3, <2>2 DEF Reads
    <3> QED BY <2>2, <3>1, <3>2 DEF Took
  <2>5. Asks(1)'
    BY <1>1, <2>1 DEF Asks
  <2> QED BY <1>1, <2>1, <2>3, <2>4, <2>5 DEF InStep, Asking
<1>4. CASE toClient = <<>>
  <2>1. /\ srv \in {"none", "down"} /\ toClient' = <<>>
        /\ heard' = FALSE \/ UNCHANGED <<told, heard>>
    BY <1>4 DEF ReadVerdict, ServerGone
  <2> QED BY <1>1, <2>1 DEF InStep, Asking
<1> QED BY <1>3, <1>4

\* It reads the header of a photo, or that there is none.
LEMMA ReadHeaderInStep ==
    ASSUME Going, Clean', Typed', ReadHeader
    PROVE  InStep' \/ cli' = "lost"
<1>f. /\ toClient \in Seq(Packets) /\ Len(toClient) \in Nat
      /\ DOMAIN toClient = 1..Len(toClient)
      /\ toClient' \in Seq(Packets) /\ Filled(0) = 0
  BY Facts DEF Going, Typed, StreamTypes
<1>1. /\ cli = "asked" /\ toClient # <<>> /\ toClient' = Tail(toClient)
      /\ UNCHANGED <<size, srv, image, bytesCount>>
  BY DEF ReadHeader, serverVars
<1>2. NotFound \/ Announcing
  BY <1>1 DEF Going, InStep, Asking, Confirmed, Receiving, Received
<1>3. PICK h : h = Head(toClient)
  OBVIOUS
<1>4. \/ h = FileNotFound /\ cli' = "idle" /\ UNCHANGED toServer
      \/ /\ Header(h) /\ cli' = "receiving" /\ count_' = 0
         /\ \E t \in Tails :
              announced' = Parsed(h.size, t) /\ faults' = Misread(h.size, t)
         /\ UNCHANGED toServer
      \/ Header(h) /\ copy # None /\ ~superuser
      \/ cli' = "lost"
  BY <1>3 DEF ReadHeader, ClientStep, Header
<1>a. announced' = h.size \/ cli' # "receiving" \/ (copy # None /\ ~superuser)
  BY <1>4, ReadAsSent
<1>5. CASE NotFound
  <2>1. h = FileNotFound /\ toClient' = <<>>
        /\ srv \in {"exit", "none", "down"}
    BY <1>1, <1>3, <1>5 DEF NotFound
  <2>2. ~Header(h)
    BY <2>1, Messages
  <2>3. cli' = "idle" \/ cli' = "lost"
    BY <1>4, <2>2
  <2> QED BY <1>1, <2>1, <2>3 DEF InStep, Asking
<1>6. CASE Announcing
  <2>1. Header(h) /\ image # None /\ Answering(1, h.size)
    BY <1>3, <1>6 DEF Announcing
  <2>2. superuser
    <3>1. srv \in {"send", "ack", "none", "down"}
      BY <2>1 DEF Answering
    <3> QED BY <2>1, <3>1 DEF Going, Settled
  <2>3. h # FileNotFound
    BY <2>1, Messages
  <2>4. CASE cli' = "receiving" /\ announced' = h.size /\ count_' = 0
        /\ toServer' = toServer
    <3>s. Shifted(toClient', toClient, 1)
      BY <1>f, <1>1, TailIsShifted
    <3>1. Len(toClient') = Len(toClient) - 1
      BY <3>s DEF Shifted
    <3>2. PICK n : n = h.size
      OBVIOUS
    <3>3. n \in Nat /\ Needed(n) \in Nat /\ Filled(bytesCount) \in Nat
      BY <2>1, <3>2, NoneFilled, Facts DEF Header, Msgs, Going
    <3>4. Answering(1, n)
      BY <2>1, <3>2
    <3>a. /\ srv \in {"send", "ack", "none", "down"} /\ toServer = <<>>
          /\ srv \in {"send", "ack"} => /\ Len(toClient) = 1 + 2 * Filled(bytesCount)
                                        /\ image.bytes = n
          /\ srv = "ack" => Filled(bytesCount) = Needed(n)
          /\ Len(toClient) <= 1 + 2 * Needed(n)
      BY <3>4 DEF Answering
    <3>c. \A x \in DOMAIN toClient : 1 < x => toClient[x] \in Halves
      BY <3>4 DEF Answering
    <3>b. /\ srv \in {"send", "ack"} => Len(toClient') = 0 + 2 * Filled(bytesCount)
          /\ Len(toClient') <= 0 + 2 * Needed(n)
      BY <3>1, <3>3, <3>a, <1>f
    <3>h. \A x \in DOMAIN toClient' : 0 < x => toClient'[x] \in Halves
      <4>1. 1 \in Nat /\ 1 \in Int /\ 0 \in Int /\ 0 = 1 - 1
        OBVIOUS
      <4> QED BY <1>f, <3>c, <3>s, <4>1, HalvesShift
    <3>5. Answering(0, n)'
      BY <1>1, <2>4, <3>a, <3>b, <3>h DEF Answering
    <3>6. n = announced' /\ 0 = -2 * Filled(count_')
      BY <1>f, <2>4, <3>2
    <3> QED BY <2>4, <3>5, <3>6 DEF InStep, Receiving, Answering
  <2> QED BY <1>4, <1>a, <2>2, <2>3, <2>4
<1> QED BY <1>2, <1>5, <1>6

\* It reads a packet of a photo, or the end of the connection.
LEMMA ReadChunkInStep ==
    ASSUME Going, Clean', Typed', ReadChunk
    PROVE  InStep'
<1>f. /\ Typed /\ toClient \in Seq(Packets) /\ Len(toClient) \in Nat
      /\ count_ \in Nat /\ Filled(count_) \in Nat /\ announced \in Nat
      /\ Needed(announced) \in Nat
      /\ bytesCount \in Nat /\ Filled(bytesCount) \in Nat
  BY Facts, NoneFilled DEF Going
<1>1. /\ cli = "receiving" /\ count_' = count_ + MAX_DATA_SIZE
      /\ UNCHANGED <<size, srv, image, bytesCount, announced, toServer>>
      /\ cli' = IF IsLast(announced, count_') THEN "received" ELSE "receiving"
  BY DEF ReadChunk, ClientStep, serverVars
<1>2. Answering(-2 * Filled(count_), announced)
  BY <1>1
    DEF Going, InStep, Asking, Confirmed, NotFound, Announcing, Receiving,
        Received
<1>3. Multiple(count_) /\ count_ <= announced
      /\ Filled(count_) < Needed(announced)
  BY <1>f, <1>1 DEF Typed, ClientCounts
<1>4. PICK eof \in BOOLEAN : eof = ServerGone
  BY DEF ServerGone
<1>5. PICK r \in Reads(buf, toClient, eof) :
        /\ toClient' = r.rest
        /\ faults' = IF r.n = 1 THEN faults \cup {"short"} ELSE faults
  BY <1>4 DEF ReadChunk
<1>h. \A x \in DOMAIN toClient : toClient[x] \in Halves
  <2>1. \A x \in DOMAIN toClient :
          -2 * Filled(count_) < x => toClient[x] \in Halves
    BY <1>2 DEF Answering
  <2>2. \A x \in DOMAIN toClient : -2 * Filled(count_) < x
    BY <1>f
  <2> QED BY <2>1, <2>2
<1>6. /\ r.n \in 0..2 /\ r.n <= Len(toClient)
      /\ (r.n = 0 => eof /\ toClient = <<>>)
      /\ Shifted(toClient', toClient, r.n)
  BY <1>f, <1>5, <1>h, ReadsShift
<1>i. \A x \in DOMAIN toClient' : toClient'[x] \in Halves
  <2>1. \A x \in DOMAIN toClient : 0 < x => toClient[x] \in Halves
    BY <1>h
  <2>2. toClient' \in Seq(Packets)
    BY DEF Typed, StreamTypes
  <2>3. PICK d \in Nat : d = r.n
    BY <1>6
  <2>4. PICK k \in Int : k = 0 - d /\ k <= 0
    BY <2>3
  <2>5. Shifted(toClient', toClient, d)
    BY <1>6, <2>3
  <2>6. \A x \in DOMAIN toClient' : k < x => toClient'[x] \in Halves
    BY <1>f, <2>1, <2>2, <2>4, <2>5, HalvesShift
  <2>7. \A x \in DOMAIN toClient' : k < x
    BY <2>2, <2>4
  <2> QED BY <2>6, <2>7
<1>7. r.n = 0 \/ r.n = 2
  <2>1. r.n # 1
    BY <1>5 DEF Clean
  <2> QED BY <1>6, <2>1
<1>8. /\ Filled(count_') = Filled(count_) + 1
      /\ IsLast(announced, count_') => Needed(announced) <= Filled(count_) + 1
  <2>1. /\ Filled(count_ + MAX_DATA_SIZE) = Filled(count_) + 1
        /\ announced - count_ <= MAX_DATA_SIZE <=>
              Needed(announced) <= Filled(count_) + 1
    BY <1>f, <1>3, CountOnePacket
  <2>2. IsLast(announced, count_ + MAX_DATA_SIZE) =>
        announced - count_ <= MAX_DATA_SIZE
    BY <1>f, MaxIsPositive DEF IsLast
  <2> QED BY <1>1, <2>1, <2>2
<1>k. PICK k \in Nat : k = Filled(count_)
  BY <1>f
<1>n. PICK n \in Nat : n = announced
  BY <1>f
<1>9. /\ srv \in {"send", "ack", "none", "down"} /\ toServer = <<>>
      /\ srv \in {"send", "ack"} =>
            Len(toClient) = -2 * k + 2 * Filled(bytesCount) /\ image.bytes = n
      /\ srv = "ack" => Filled(bytesCount) = Needed(n)
      /\ Len(toClient) <= -2 * k + 2 * Needed(n)
  BY <1>2, <1>k, <1>n DEF Answering
<1>10. Len(toClient') = Len(toClient) - r.n /\ Len(toClient') \in Nat
  BY <1>6, <1>f DEF Shifted
<1>11. CASE r.n = 0
  <2>0. srv \in {"none", "down"} /\ toClient = <<>>
    BY <1>4, <1>6, <1>11 DEF ServerGone
  <2>1. srv \in {"none", "down"} /\ toClient = <<>> /\ Len(toClient') = 0
    BY <1>10, <1>11, <2>0
  <2>2. toClient' = <<>>
    BY <2>1 DEF Typed, StreamTypes
  <2>3. CASE IsLast(announced, count_')
    BY <1>1, <1>9, <2>1, <2>2, <2>3 DEF InStep, Received
  <2>4. CASE ~IsLast(announced, count_')
    <3>1. Needed(n) >= k + 1
      BY <1>3, <1>k, <1>n, <1>f
    <3>2. Len(toClient') <= -2 * (k + 1) + 2 * Needed(n)
      BY <2>1, <3>1, <1>f, <1>n
    <3>3. Filled(count_') = k + 1
      BY <1>8, <1>k
    <3>4. Answering(-2 * (k + 1), n)'
      BY <1>1, <1>9, <1>i, <2>1, <3>2 DEF Answering
    <3>5. cli' = "receiving" /\ -2 * (k + 1) = -2 * Filled(count_')
          /\ n = announced'
      BY <1>1, <1>n, <2>4, <3>3
    <3> QED BY <3>4, <3>5 DEF InStep, Receiving, Answering
  <2> QED BY <2>3, <2>4
<1>12. CASE r.n = 2
  <2>3. CASE IsLast(announced, count_')
    <3>1. Needed(n) <= k + 1
      BY <1>8, <1>k, <1>n, <2>3
    <3>2. Len(toClient) <= 2
      BY <3>1, <1>9, <1>f, <1>n
    <3>3. toClient' = <<>>
      <4>1. Len(toClient') = 0
        BY <1>10, <1>12, <3>2, <1>6, <1>f
      <4> QED BY <4>1 DEF Typed, StreamTypes
    <3>4. srv # "send"
      <4>1. srv = "send" => Filled(bytesCount) < Needed(n)
        BY <1>f, <1>9, <1>n DEF Typed, ServerCounts
      <4> QED BY <1>9, <1>12, <1>10, <1>f, <3>1, <4>1, <1>n
    <3> QED BY <1>1, <1>9, <2>3, <3>3, <3>4 DEF InStep, Received
  <2>4. CASE ~IsLast(announced, count_')
    <3>1. \A i \in Nat, j \in Nat : -2 * (i + 1) + 2 * j = (-2 * i + 2 * j) - 2
      OBVIOUS
    <3>2. /\ Len(toClient') <= -2 * (k + 1) + 2 * Needed(n)
          /\ srv \in {"send", "ack"} =>
                Len(toClient') = -2 * (k + 1) + 2 * Filled(bytesCount)
      <4>1. Len(toClient') = Len(toClient) - 2
        BY <1>10, <1>12
      <4>2. Len(toClient') <= -2 * (k + 1) + 2 * Needed(n)
        <5>1. PICK b \in Int : b = -2 * k + 2 * Needed(n)
          BY <1>f, <1>n
        <5>2. -2 * (k + 1) + 2 * Needed(n) = b - 2
          <6>1. k \in Nat /\ Needed(n) \in Nat
            BY <1>f, <1>n
          <6> QED BY <3>1, <5>1, <6>1
        <5>3. Len(toClient) <= b
          BY <1>9, <5>1
        <5> QED BY <1>f, <4>1, <5>2, <5>3
      <4>3. srv \in {"send", "ack"} =>
            Len(toClient') = -2 * (k + 1) + 2 * Filled(bytesCount)
        <5>1. PICK b \in Int : b = -2 * k + 2 * Filled(bytesCount)
          BY <1>f, <1>n
        <5>2. -2 * (k + 1) + 2 * Filled(bytesCount) = b - 2
          BY <1>f, <3>1, <5>1
        <5>3. srv \in {"send", "ack"} => Len(toClient) = b
          BY <1>9, <5>1
        <5> QED BY <1>f, <4>1, <5>2, <5>3
      <4> QED BY <4>2, <4>3
    <3>3. Filled(count_') = k + 1
      BY <1>8, <1>k
    <3>4. Answering(-2 * (k + 1), n)'
      BY <1>1, <1>9, <1>i, <3>2 DEF Answering
    <3>5. cli' = "receiving" /\ -2 * (k + 1) = -2 * Filled(count_')
          /\ n = announced'
      BY <1>1, <1>n, <2>4, <3>3
    <3> QED BY <3>4, <3>5 DEF InStep, Receiving, Answering
  <2> QED BY <2>3, <2>4
<1> QED BY <1>7, <1>11, <1>12

\* It tells what it makes of the photo.
LEMMA CheckCopyInStep ==
    ASSUME Going, CheckCopy
    PROVE  InStep'
<1>1. cli = "received" /\ cli' = "idle" /\ UNCHANGED <<srv, toClient>>
  BY DEF CheckCopy, ClientStep, serverVars
<1>2. toClient = <<>> /\ toServer = <<>> /\ srv \in {"ack", "none", "down"}
  BY <1>1
    DEF Going, InStep, Asking, Confirmed, NotFound, Announcing, Receiving,
        Received
<1>3. PICK e \in {ImageOK, ImageKO} : Tell(<<e>>)
  BY DEF CheckCopy
<1>4. ~Header(e)
  BY <1>3, Messages
<1>5. CASE srv \in {"none", "down"}
  BY <1>1, <1>2, <1>5 DEF InStep, Asking
<1>6. CASE srv = "ack"
  <2>1. toServer' = <<e>>
    BY <1>2, <1>3, <1>6 DEF Tell
  <2>2. Asks(2)'
    BY <1>1, <2>1 DEF Asks
  <2>3. toServer' # <<>> /\ Head(toServer') = e
    BY <2>1
  <2>4. ~Header(Head(toServer'))
    BY <1>4, <2>3
  <2> QED BY <1>1, <1>2, <1>6, <2>2, <2>3, <2>4
    DEF InStep, Asking, Header, Msgs, Files
<1> QED BY <1>2, <1>5, <1>6

----------------------------------------------------------------------------
(* All steps together.                                                     *)

\* The server ends, or is started again.
LEMMA ServerEnds ==
    ASSUME Going, Crash \/ Restart
    PROVE  InStep'
<1>1. /\ srv' \in {"none", "down"} /\ toServer' \in {<<>>, toServer}
      /\ (srv = "down" \/ toServer' = <<>>)
      /\ UNCHANGED <<size, cli, toClient, fd_file, count_, announced, image>>
  BY DEF Crash, Restart, clientVars, net
<1>0. toServer' = <<>>
  BY <1>1 DEF Going, Typed, ServerCounts
<1>2. ASSUME NEW m, NEW n, Answering(m, n) PROVE Answering(m, n)'
  BY <1>0, <1>1, <1>2 DEF Answering
<1>3. CASE Asking
  BY <1>1, <1>3 DEF InStep, Asking
<1>4. CASE Confirmed
  <2>1. ImageOK' = ImageOK
    BY DEF ImageOK, Msg, None, Content
  <2> QED BY <1>0, <1>1, <1>4, <2>1 DEF InStep, Confirmed
<1>5. CASE NotFound
  BY <1>1, <1>5 DEF InStep, NotFound, FileNotFound, Msg, None, Content
<1>6. CASE Announcing
  <2>1. PICK n : n = Head(toClient).size
    OBVIOUS
  <2>2. Answering(1, n)'
    BY <1>2, <1>6, <2>1 DEF Announcing
  <2>3. n = Head(toClient').size /\ image' # None'
    BY <1>1, <1>6, <2>1 DEF Announcing, None, Content
  <2> QED BY <1>1, <1>6, <2>2, <2>3
    DEF InStep, Announcing, Header, Msgs, Files
<1>7. CASE Receiving
  <2>1. PICK k : k = -2 * Filled(count_)
    OBVIOUS
  <2>2. PICK n : n = announced
    OBVIOUS
  <2>3. Answering(k, n)'
    BY <1>2, <1>7, <2>1, <2>2 DEF Receiving
  <2>4. k = -2 * Filled(count_') /\ n = announced' /\ cli' = "receiving"
    BY <1>1, <1>7, <2>1, <2>2 DEF Receiving
  <2> QED BY <2>3, <2>4 DEF InStep, Receiving, Answering
<1>8. CASE Received
  BY <1>0, <1>1, <1>8 DEF InStep, Received
<1> QED BY <1>3, <1>4, <1>5, <1>6, <1>7, <1>8 DEF Going, InStep

\* A step of a client and a server that keep in step.
LEMMA StepInStep ==
    ASSUME Typed', Clean', Going, ~(told = "R" /\ heard), Next
    PROVE  /\ ~(told' = "R" /\ heard')
           /\ cli' \in {"gone", "lost"} \/ InStep'
<1>1. cli \notin {"gone", "lost"}
  BY
    DEF Going, InStep, Asking, Confirmed, NotFound, Announcing, Receiving,
        Received
<1>2. CASE ThreadSteps
  <2>1. told' = told /\ heard' = heard
    BY <1>2
      DEF ThreadSteps, ReadUpload, ReplayUpload, ReceiveChunk, Verdict,
          ReadPhoto,
                SendChunk, ReadAck, ReadOther, clientVars
  <2>2. ~ReplayUpload
    BY <1>1 DEF ReplayUpload
  <2>3. InStep'
    BY <1>2, <2>2, ReadUploadInStep, ReceiveChunkInStep, VerdictInStep,
       ReadPhotoInStep,
       SendChunkInStep, ReadAckInStep, ReadOtherInStep DEF ThreadSteps
  <2> QED BY <2>1, <2>3
<1>3. CASE ReadVerdict
  BY <1>3, ReadVerdictInStep
<1>4. CASE ClientSteps /\ ~ReadVerdict
  <2>1. told' = told /\ heard' = heard
    BY <1>4
      DEF ClientSteps, SendHeader, OpenFile, WriteChunk, ReadHeader, ReadChunk,
                CheckCopy, NoHeader
  <2>2. CASE NoHeader
    BY <2>1, <2>2 DEF NoHeader, ClientStep
  <2>3. CASE ~NoHeader
    BY <1>4, <2>1, <2>3, SendHeaderInStep, OpenFileInStep, WriteChunkInStep,
       ReadHeaderInStep,
       ReadChunkInStep, CheckCopyInStep DEF ClientSteps
  <2> QED BY <2>2, <2>3
<1>5. CASE TypeSend
  BY <1>5, TypeSendInStep DEF TypeSend
<1>6. CASE TypePhoto
  BY <1>6, TypePhotoInStep DEF TypePhoto
<1>7. ~CleanUp
  BY DEF CleanUp, Clean
<1>8. CASE Kill
  BY <1>8 DEF Kill, ClientStep
<1>9. CASE Crash \/ Restart
  <2>1. told' = told /\ heard' = heard
    BY <1>9 DEF Crash, Restart, clientVars
  <2> QED BY <1>9, <2>1, ServerEnds
<1>10. ~Connect
  BY <1>1 DEF Connect
<1> QED BY <1>2, <1>3, <1>4, <1>5, <1>6, <1>7, <1>8, <1>9, <1>10 DEF Next

\* A client that is gone comes back only with a new connection.
LEMMA StepWithout ==
    ASSUME Typed, ~(told = "R" /\ heard), cli \in {"gone", "lost"}, Next
    PROVE  /\ ~(told' = "R" /\ heard')
           /\ cli' \in {"gone", "lost"} \/ InStep'
<1>1. told' = told /\ heard' = heard
  BY
    DEF Next, ThreadSteps, ClientSteps, ReadUpload, ReplayUpload, ReceiveChunk,
         Verdict, ReadPhoto, SendChunk, ReadAck, ReadOther, SendHeader,
         OpenFile,
         WriteChunk, ReadVerdict, ReadHeader, ReadChunk, CheckCopy, NoHeader,
         TypeSend, TypePhoto, CleanUp, Kill, Crash, Restart, Connect,
         clientVars
<1>2. CASE Connect
  <2>1. /\ srv = "none" /\ cli = "gone" /\ srv' = "read" /\ cli' = "idle"
        /\ UNCHANGED <<toServer, toClient>>
    BY <1>2 DEF Connect, ClientStep, net
  <2>2. toServer = <<>> /\ toClient = <<>>
    BY <2>1 DEF Typed, ServerCounts, ClientCounts
  <2>3. Asks(1)'
    BY <2>1, <2>2 DEF Asks
  <2> QED BY <1>1, <2>1, <2>2, <2>3 DEF InStep, Asking
<1>3. CASE ~Connect
  <2>1. cli' \in {"gone", "lost"}
    BY <1>3
      DEF Next, ThreadSteps, ClientSteps, ReadUpload, ReplayUpload,
          ReceiveChunk,
         Verdict, ReadPhoto, SendChunk, ReadAck, ReadOther, SendHeader,
         OpenFile,
         WriteChunk, ReadVerdict, ReadHeader, ReadChunk, CheckCopy, NoHeader,
         TypeSend, TypePhoto, CleanUp, Kill, Crash, Restart, clientVars,
         ClientStep
  <2> QED BY <1>1, <2>1
<1> QED BY <1>2, <1>3

\* Every step of the system keeps those in step that were, or one of them ends.
LEMMA SyncKept ==
    ASSUME Typed, Typed', InSync, Next
    PROVE  InSync'
<1>1. Clean' => file'
  BY CleanStays DEF InSync, Clean
<1>2. ASSUME Clean', ~Settled'
      PROVE  /\ ~(told' = "R" /\ heard')
             /\ cli' \in {"gone", "lost"} \/ InStep'
  <2>1. Clean /\ ~Settled
    BY <1>2, CleanStays, SettledStays
  <2>2. /\ file /\ ~(told = "R" /\ heard)
        /\ cli \in {"gone", "lost"} \/ InStep
    BY <2>1 DEF InSync
  <2>3. CASE cli \in {"gone", "lost"}
    BY <2>2, <2>3, StepWithout
  <2>4. CASE InStep
    <3>1. Going
      BY <2>1, <2>2, <2>4 DEF Going
    <3> QED BY <1>2, <2>2, <3>1, StepInStep
  <2> QED BY <2>2, <2>3, <2>4
<1> QED BY <1>1, <1>2 DEF InSync

\* At first the client is the one to write.
LEMMA SyncInit == Init => InSync
<1> SUFFICES ASSUME Init PROVE InSync
  OBVIOUS
<1>1. toServer = <<>> /\ toClient = <<>> /\ srv = "read" /\ cli = "idle"
      /\ file = TRUE
      /\ told = "none"
  BY DEF Init
<1>2. Asks(1)
  BY <1>1 DEF Asks
<1>3. Asking
  BY <1>1, <1>2 DEF Asking
<1> QED BY <1>1, <1>3 DEF InSync, InStep

\* The invariant that the verdicts rest on.
SyncIInv == Typed /\ InSync

\* It holds where nothing changes.
LEMMA SyncStutter ==
    ASSUME InSync, UNCHANGED vars
    PROVE  InSync'
<1> USE DEF vars, serverVars, clientVars, net
<1>n. /\ None' = None /\ Announcement' = Announcement /\ ImageOK' = ImageOK
      /\ Request' = Request /\ FileNotFound' = FileNotFound
  BY DEF None, Content, Announcement, Image, ImageOK, Request, FileNotFound, Msg
<1>1. (Clean' <=> Clean) /\ (Settled' <=> Settled)
  BY <1>n DEF Clean, Settled
<1>2. InStep => InStep'
  <2>1. ASSUME NEW m, Sending(m) PROVE Sending(m)'
    BY <2>1 DEF Sending, AllSent, Sent, InOrder, Chunk
  <2>2. ASSUME NEW x, Asks(x) PROVE Asks(x)'
    <3>1. Sending(x) => Sending(x)'
      BY <2>1
    <3> QED BY <1>n, <2>2, <3>1 DEF Asks
  <2>4. (Asks(1) => Asks(1)') /\ (Asks(2) => Asks(2)')
    BY <2>2
  <2>5. Sending(-2 * Filled(bytesCount)) => Sending(-2 * Filled(bytesCount))'
    BY DEF Sending, AllSent, Sent, InOrder, Chunk
  <2>6. Asking => Asking'
    BY <2>4, <2>5 DEF Asking, Header, Msgs, Files, Image, Content
  <2>7. Confirmed => Confirmed'
    BY <1>n DEF Confirmed
  <2>8. NotFound => NotFound'
    BY <1>n DEF NotFound
  <2>9. Announcing => Announcing'
    BY <1>n DEF Announcing, Answering, Header, Msgs, Files, Halves
  <2>10. Receiving => Receiving'
    BY DEF Receiving, Answering, Halves
  <2>11. Received => Received'
    BY DEF Received
  <2> QED BY <2>6, <2>7, <2>8, <2>9, <2>10, <2>11 DEF InStep
<1> QED BY <1>1, <1>2 DEF InSync

\* While no packet is torn, no file deleted, no sum garbled, every size read as it
\* was sent, and no image stored that cannot be written again, the client and its
\* thread agree on whose turn it is and on what the connection holds, for images
\* and packets of any size (network.c:341-361, Fremen network.c:271-290).
THEOREM SyncInvariant == Spec => []SyncIInv
<1>1. Init => SyncIInv
  BY TypedInit, SyncInit DEF SyncIInv
<1>2. SyncIInv /\ [Next]_vars => SyncIInv'
  <2> SUFFICES ASSUME SyncIInv, [Next]_vars PROVE SyncIInv'
    OBVIOUS
  <2>1. CASE Next
    <3>1. Typed /\ InSync
      BY DEF SyncIInv
    <3>2. Typed'
      BY <2>1, <3>1, TypedKept
    <3>3. InSync'
      BY <2>1, <3>1, <3>2, SyncKept
    <3> QED BY <3>2, <3>3 DEF SyncIInv
  <2>2. CASE UNCHANGED vars
    BY <2>2, TypedStutter, SyncStutter DEF SyncIInv
  <2> QED BY <2>1, <2>2
<1> QED BY <1>1, <1>2, PTL DEF Spec

\* An image is refused only if one is stored that cannot be written again, or a
\* packet came in two parts, the client's file was deleted, there was garbage
\* behind a sum or there were digits behind a size: the counting of the two
\* sides never refuses one by itself, for no size of the image and no size of a
\* packet (network.c:354-372, Fremen network.c:271-290).
THEOREM RefusedReasons == Spec => []RefusedForAReason
<1>1. SyncIInv => RefusedForAReason
  BY DEF SyncIInv, InSync, Clean, Settled, RefusedForAReason
<1> QED BY <1>1, SyncInvariant, PTL

=============================================================================
