------------------------------ MODULE Transfer ------------------------------
(***************************************************************************)
(* An image on its way: the upload of NETWORK_sendSend into the 'F' case   *)
(* of NETWORK_checkMessage, and the download of its 'P' case into          *)
(* NETWORK_sendPhoto.  Both sides count bytes by themselves to know where  *)
(* the image ends, check an md5 sum after it, and never look at what       *)
(* read() returns.  The client's cleanup thread may delete its files, the  *)
(* client and the server may die, the server starts again.                 *)
(*                                                                         *)
(* A data packet is two halves, for read() may return the first alone: the *)
(* rest of the packet is then what the next read() begins with.  A message *)
(* is one element: an answer or a command finds the connection empty and   *)
(* is read whole, and where it does not, Reads says what is left of it.    *)
(*                                                                         *)
(* Neither side clears or terminates the mida[30] it copies the size of a  *)
(* header into.  What lies behind the digits is what an earlier header or  *)
(* any other use of the stack left there, and atoi reads on as long as it  *)
(* finds digits: a tail.                                                   *)
(***************************************************************************)
EXTENDS Integers, Sequences

CONSTANTS
    MAX_DATA_SIZE,      \* bytes of data in a packet
    Half,               \* bytes of data in its first half
    Sizes,              \* sizes of the images that are sent
    Tails,              \* digits that mida may hold behind those of a size
    Window,             \* halves that fit into a connection
    MaxCommands         \* bound: commands of one client

ASSUME SizesAssumption ==
    /\ MAX_DATA_SIZE \in Nat /\ Half \in 1..(MAX_DATA_SIZE - 1)
    /\ Sizes \subseteq Nat
    /\ Tails \subseteq [scale : Nat \ {0}, rest : Nat]
    /\ Window \in Nat /\ Window >= 2 /\ MaxCommands \in Nat

VARIABLES
    size,               \* the file that is sent: the bytes stat() gives
    superuser,          \* both programs may write any file
    file, copy,         \* on the client: the image to send, the one received
    image,              \* on the server: what is stored for the user
    srv,                \* where the thread is
    last,               \* the last message read into the thread's pkt
    bytesCount,         \* bytes the thread has counted
    filesize, md5sum,   \* what the thread parsed from the header
    pkt,                \* the two halves of data that pkt of the handler holds
    cli,                \* where the client is
    fd_file,            \* the client's open() of the image succeeded
    announced, sum,     \* what the client parsed from the header
    count_,             \* bytes the client has counted
    buf,                \* the two halves that pkt of the client holds
    toServer, toClient,
    told,               \* the verdict on the last upload: "none", "I", "R"
    heard,              \* and whether it came in a packet
    got,                \* the download was accepted
    commands, faults

serverVars == <<image, srv, last, bytesCount, filesize, md5sum, pkt>>
clientVars == <<file, copy, cli, fd_file, announced, sum, count_, buf, told,
                heard, got, commands>>
net == <<toServer, toClient>>
vars == <<size, superuser, serverVars, clientVars, net, faults>>

\* The content of a file: the size of the image it was made from, its bytes, and
\* whether they are those of the image.  A sum stands for what it was made of.
Content(n, bytes, ok) == [of |-> n, bytes |-> bytes, intact |-> ok]
None == Content(0, -1, FALSE)
Empty(n) == Content(n, 0, TRUE)
Image(n) == Content(n, n, TRUE)
Whole(f) == f.intact /\ f.bytes = f.of
Files == [of : Nat, bytes : Nat \cup {-1}, intact : BOOLEAN]

\* A half of chunk k of an image; a half of anything else is junk.
Chunk(n, k) == <<[of |-> n, chunk |-> k, half |-> 1],
                 [of |-> n, chunk |-> k, half |-> 2]>>
Junk == [of |-> 0, chunk |-> 0, half |-> 0]
Halves == [of : Nat, chunk : Nat, half : 0..2]
IsHalf(p) == p \in Halves

Msg(t, n, f) == [type |-> t, size |-> n, md5 |-> f]
Msgs == [type : {"F", "P", "N", "I", "R"}, size : Nat, md5 : Files]
Request == Msg("P", 0, None)
FileNotFound == Msg("N", 0, None)
ImageOK == Msg("I", 0, None)
ImageKO == Msg("R", 0, None)

TypeOK ==
    /\ size \in Sizes
    /\ superuser \in BOOLEAN
    /\ file \in BOOLEAN /\ copy \in Files /\ image \in Files
    /\ srv \in {"none", "read", "recv", "verdict", "send", "ack", "exit",
                "down"}
    /\ last \in Msgs
    /\ bytesCount \in Nat /\ filesize \in Nat /\ md5sum \in Files
    /\ srv = "recv" => bytesCount <= filesize
    /\ srv \in {"recv", "verdict"} => image.bytes <= filesize
    /\ srv = "send" => bytesCount <= image.bytes
    /\ pkt \in Halves \X Halves /\ buf \in Halves \X Halves
    /\ cli \in {"idle", "stat", "open", "sending", "verdict", "asked",
                "receiving", "received", "lost", "gone"}
    /\ fd_file \in BOOLEAN
    /\ announced \in Nat /\ sum \in Files /\ count_ \in Nat
    /\ cli = "sending" => count_ <= size
    /\ cli = "receiving" => count_ <= announced
    /\ cli \in {"receiving", "received"} => copy.bytes <= announced
    /\ toServer \in Seq(Halves \cup Msgs) /\ Len(toServer) <= Window + 1
    /\ toClient \in Seq(Halves \cup Msgs)
    /\ told \in {"none", "I", "R"} /\ heard \in BOOLEAN /\ got \in BOOLEAN
    /\ commands \in 0..MaxCommands
    /\ faults \subseteq {"short", "garbage", "mida", "clean", "kill", "crash"}

Init ==
    /\ size \in Sizes /\ superuser \in BOOLEAN
    /\ file = TRUE /\ copy = None /\ image = None
    /\ srv = "read" /\ last = Request /\ bytesCount = 0
    /\ filesize = 0 /\ md5sum = None
    /\ pkt = <<Junk, Junk>> /\ buf = <<Junk, Junk>>
    /\ cli = "idle" /\ fd_file = FALSE /\ count_ = 0
    /\ announced = 0 /\ sum = None
    /\ toServer = <<>> /\ toClient = <<>>
    /\ told = "none" /\ heard = FALSE /\ got = FALSE
    /\ commands = 0 /\ faults = {}

----------------------------------------------------------------------------
(* What both sides do with data packets.                                   *)

\* atoi of the digits of n and of the tail t that follows them.
Parsed(n, t) == n * t.scale + t.rest

\* The fault of a size that was read as another.
Misread(n, t) == IF Parsed(n, t) = n THEN faults ELSE faults \cup {"mida"}

\* A read() of n halves into a buffer, and what it leaves.
Took(b, n, q) == [buf |-> b, n |-> n, rest |-> q]

\* read() into the buffer b of a stream that begins with a half: it takes that
\* alone, or with it the next half or the beginning of a message.
ReadsHalf(b, q) ==
    LET rest == Tail(q)
    IN  {Took(<<Head(q), b[2]>>, 1, rest)}
        \cup IF rest = <<>> THEN {}
             ELSE IF IsHalf(Head(rest))
                  THEN {Took(<<Head(q), Head(rest)>>, 2, Tail(rest))}
                  ELSE {Took(<<Head(q), Junk>>, 2, <<Junk>> \o Tail(rest))}

\* A message is a packet; at the end of the connection nothing is read.
Reads(b, q, eof) ==
    IF q = <<>> THEN (IF eof THEN {Took(b, 0, q)} ELSE {})
    ELSE IF IsHalf(Head(q)) THEN ReadsHalf(b, q)
    ELSE {Took(<<Junk, Junk>>, 2, Tail(q))}

MutRest(total, n) == MAX_DATA_SIZE
MutRestDropped(total, n) ==
    IF total - n < MAX_DATA_SIZE THEN 0 ELSE MAX_DATA_SIZE
\* Bytes that the receiver writes of the packet after the first n bytes.
Rest(total, n) ==
    IF total - n < MAX_DATA_SIZE THEN total - n ELSE MAX_DATA_SIZE

\* The packet holds the bytes of the image that come after the first n.
Expected(image_, b, total, n) ==
    LET chunk == Chunk(image_, n \div MAX_DATA_SIZE + 1)
    IN  /\ Rest(total, n) > 0 => b[1] = chunk[1]
        /\ Rest(total, n) > Half => b[2] = chunk[2]

Extend(f, b, total, n) ==
    Content(f.of, f.bytes + Rest(total, n),
            f.intact /\ Expected(f.of, b, total, n))

MutIsLast(total, n) == total - n < 0
\* With n bytes counted the image is complete.
IsLast(total, n) == total - n <= 0

----------------------------------------------------------------------------
(* The thread of the server.                                               *)

Answer(m) == toClient' = IF cli = "gone" THEN toClient ELSE Append(toClient, m)

MutOpenUpload(m) ==
    /\ image' = Empty(m.size)
    /\ bytesCount' = 0
    /\ filesize' = m.size /\ md5sum' = m.md5
    /\ pkt' = <<Junk, Junk>>
    /\ srv' = "recv"
    /\ UNCHANGED <<toClient, faults>>

\* The mode 777 is decimal: it lets the owner read and not write, so that only
\* the superuser can open an image a second time.
OpenUpload(m) ==
    \/ /\ image = None \/ superuser
       /\ image' = Empty(m.size)
       /\ bytesCount' = 0
       /\ \E t \in Tails :
            filesize' = Parsed(m.size, t) /\ faults' = Misread(m.size, t)
       /\ md5sum' = m.md5
       /\ pkt' = <<Junk, Junk>>
       /\ srv' = "recv"
       /\ UNCHANGED toClient
    \/ /\ image # None /\ ~superuser
       /\ srv' = "exit"
       /\ Answer(ImageKO)
       /\ UNCHANGED <<image, bytesCount, filesize, md5sum, pkt, faults>>

ReadUpload ==
    /\ srv = "read" /\ toServer # <<>> /\ Head(toServer) \in Msgs
    /\ Head(toServer).type = "F"
    /\ toServer' = Tail(toServer)
    /\ last' = Head(toServer)
    /\ OpenUpload(Head(toServer))
    /\ UNCHANGED <<size, superuser, clientVars>>

\* The end of the connection: the thread processes its last packet again.
ReplayUpload ==
    /\ srv = "read" /\ toServer = <<>> /\ cli = "gone" /\ last.type = "F"
    /\ OpenUpload(last)
    /\ UNCHANGED <<size, superuser, last, clientVars, toServer>>

MutReceiveChunk ==
    /\ srv = "recv"
    /\ \E r \in Reads(pkt, toServer, cli = "gone") :
        /\ pkt' = r.buf
        /\ toServer' = r.rest
        /\ faults' = IF r.n = 1 THEN faults \cup {"short"} ELSE faults
        /\ image' = Extend(image, r.buf, filesize, bytesCount)
    /\ bytesCount' = bytesCount + MAX_DATA_SIZE
    /\ srv' = IF IsLast(filesize, bytesCount') THEN "read" ELSE "recv"
    /\ UNCHANGED <<size, superuser, last, filesize, md5sum, clientVars,
                   toClient>>

ReceiveChunk ==
    /\ srv = "recv"
    /\ \E r \in Reads(pkt, toServer, cli = "gone") :
        /\ pkt' = r.buf
        /\ toServer' = r.rest
        /\ faults' = IF r.n = 1 THEN faults \cup {"short"} ELSE faults
        /\ image' = Extend(image, r.buf, filesize, bytesCount)
    /\ bytesCount' = bytesCount + MAX_DATA_SIZE
    /\ srv' = IF IsLast(filesize, bytesCount') THEN "verdict" ELSE "recv"
    /\ UNCHANGED <<size, superuser, last, filesize, md5sum, clientVars,
                   toClient>>

\* The sum of what was stored against the sum of the header.  Neither string is
\* terminated: they may differ in what lies behind them.
Verdict ==
    /\ srv = "verdict"
    /\ \/ /\ image = md5sum
          /\ Answer(ImageOK)
          /\ srv' = "read"
          /\ UNCHANGED <<image, faults>>
       \/ /\ image' = None
          /\ Answer(ImageKO)
          /\ srv' = "exit"
          /\ faults' = IF image = md5sum THEN faults \cup {"garbage"}
                       ELSE faults
    /\ UNCHANGED <<size, superuser, last, bytesCount, filesize, md5sum, pkt,
                   clientVars, toServer>>

\* What a short read of the last packet left behind is taken for a packet of
\* any type: it is ignored, or ends the thread.
ReadOther ==
    /\ srv = "read"
    /\ toServer # <<>> /\ IsHalf(Head(toServer))
    /\ \E r \in Reads(pkt, toServer, FALSE) : toServer' = r.rest
    /\ last' = Request
    /\ srv' \in {"read", "exit"}
    /\ UNCHANGED <<size, superuser, image, bytesCount, filesize, md5sum, pkt,
                   clientVars, toClient, faults>>

\* A photo: not found, or the header with the size and the sum it has now.
ReadPhoto ==
    /\ srv = "read" /\ toServer # <<>> /\ Head(toServer) \in Msgs
    /\ Head(toServer).type = "P"
    /\ toServer' = Tail(toServer)
    /\ last' = Request
    /\ \/ /\ image = None
          /\ Answer(FileNotFound)
          /\ srv' = "exit"
          /\ UNCHANGED bytesCount
       \/ /\ image # None
          /\ Answer(Msg("F", image.bytes, image))
          /\ srv' = "send"
          /\ bytesCount' = 0
    /\ UNCHANGED <<size, superuser, image, filesize, md5sum, pkt, clientVars,
                   faults>>

\* While more than a packet is left a full one is sent, then the last.
SendChunk ==
    /\ srv = "send" /\ Len(toClient) < Window
    /\ toClient' = IF cli = "gone" THEN toClient
                   ELSE toClient
                        \o Chunk(image.of, bytesCount \div MAX_DATA_SIZE + 1)
    /\ bytesCount' = bytesCount + MAX_DATA_SIZE
    /\ srv' = IF image.bytes - bytesCount > MAX_DATA_SIZE THEN "send"
              ELSE "ack"
    /\ UNCHANGED <<size, superuser, image, last, filesize, md5sum, pkt,
                   clientVars, toServer, faults>>

\* When the client is gone new_pkt is whatever it was.
ReadAck ==
    /\ srv = "ack"
    /\ \/ /\ toServer # <<>>
          /\ toServer' = Tail(toServer)
          /\ srv' = IF Head(toServer) = ImageOK THEN "read" ELSE "exit"
       \/ /\ toServer = <<>> /\ cli = "gone"
          /\ srv' \in {"read", "exit"}
          /\ UNCHANGED toServer
    /\ UNCHANGED <<size, superuser, image, last, bytesCount, filesize, md5sum,
                   pkt, clientVars, toClient, faults>>

----------------------------------------------------------------------------
(* The client.                                                             *)

ClientStep(c) == cli' = c

\* A connection that is full stops the writer; what is written to a server that
\* is gone is lost.
Tell(seq) ==
    /\ Len(toServer) < Window
    /\ toServer' =
           IF srv \in {"none", "down"} THEN toServer ELSE toServer \o seq

\* The server is gone, and what it had written is consumed.
ServerGone == srv \in {"none", "down"} /\ toClient = <<>>

\* access() and stat() find the file.
TypeSend ==
    /\ cli = "idle" /\ commands < MaxCommands /\ file
    /\ ClientStep("stat")
    /\ size' \in Sizes
    /\ commands' = commands + 1
    /\ UNCHANGED <<superuser, serverVars, file, copy, fd_file, announced, sum,
                   count_, buf, told, heard, got, net, faults>>

\* The sum is computed after the size was taken; of a file that is gone by
\* then it is no sum.
SendHeader ==
    /\ cli = "stat"
    /\ ClientStep("open")
    /\ Tell(<<Msg("F", size, IF file THEN Image(size) ELSE None)>>)
    /\ UNCHANGED <<size, superuser, serverVars, file, copy, fd_file, announced,
                   sum, count_, buf, told, heard, got, commands, toClient,
                   faults>>

OpenFile ==
    /\ cli = "open"
    /\ ClientStep("sending")
    /\ fd_file' = file
    /\ count_' = 0
    /\ UNCHANGED <<size, superuser, serverVars, file, copy, announced, sum, buf,
                   told, heard, got, commands, net, faults>>

\* Without the file read() returns -1 and the count goes down instead of up,
\* which leaves it where it was as far as the condition goes.
WriteChunk ==
    /\ cli = "sending"
    /\ Tell(IF fd_file THEN Chunk(size, count_ \div MAX_DATA_SIZE + 1)
            ELSE <<Junk, Junk>>)
    /\ \/ /\ size - count_ > MAX_DATA_SIZE
          /\ count_' = IF fd_file THEN count_ + MAX_DATA_SIZE ELSE count_
          /\ UNCHANGED cli
       \/ /\ size - count_ <= MAX_DATA_SIZE
          /\ ClientStep("verdict")
          /\ UNCHANGED count_
    /\ UNCHANGED <<size, superuser, serverVars, file, copy, fd_file, announced,
                   sum, buf, told, heard, got, commands, toClient, faults>>

\* The verdict is the type of new_pkt.  At the end of the connection nothing is
\* read into it, and it is whatever the stack held: the type of a success, or
\* of anything else.  A read() that fails leaves the client without a verdict.
ReadVerdict ==
    /\ cli = "verdict"
    /\ ClientStep("idle")
    /\ \/ /\ toClient # <<>>
          /\ \E r \in Reads(buf, toClient, FALSE) : toClient' = r.rest
          /\ told' = IF Head(toClient) = ImageOK THEN "I" ELSE "R"
          /\ heard' = TRUE
       \/ /\ ServerGone
          /\ told' \in {"I", "R"} /\ heard' = FALSE
          /\ UNCHANGED toClient
       \/ ServerGone /\ UNCHANGED <<told, heard, toClient>>
    /\ UNCHANGED <<size, superuser, serverVars, file, copy, fd_file, announced,
                   sum, count_, buf, got, commands, toServer, faults>>

TypePhoto ==
    /\ cli = "idle" /\ commands < MaxCommands /\ srv \notin {"none", "down"}
    /\ ClientStep("asked")
    /\ commands' = commands + 1
    /\ got' = FALSE
    /\ Tell(<<Request>>)
    /\ UNCHANGED <<size, superuser, serverVars, file, copy, fd_file, announced,
                   sum, count_, buf, told, heard, toClient, faults>>

\* As on the server: a copy that exists can be opened by the superuser only,
\* and an image that is refused is left in the connection.
ReadHeader ==
    /\ cli = "asked" /\ toClient # <<>>
    /\ toClient' = Tail(toClient)
    /\ LET m == Head(toClient)
           header == m \in Msgs /\ m.type = "F"
       IN  \/ /\ m = FileNotFound
              /\ ClientStep("idle")
              /\ UNCHANGED <<copy, announced, sum, count_, buf, toServer,
                             faults>>
           \/ /\ header /\ (copy = None \/ superuser)
              /\ ClientStep("receiving")
              /\ copy' = Empty(m.md5.of)
              /\ \E t \in Tails :
                   /\ announced' = Parsed(m.size, t)
                   /\ faults' = Misread(m.size, t)
              /\ sum' = m.md5
              /\ count_' = 0
              /\ buf' = <<Junk, Junk>>
              /\ UNCHANGED toServer
           \/ /\ header /\ copy # None /\ ~superuser
              /\ ClientStep("idle")
              /\ Tell(<<ImageKO>>)
              /\ UNCHANGED <<copy, announced, sum, count_, buf, faults>>
           \/ /\ ~header /\ m # FileNotFound
              /\ ClientStep("lost")
              /\ UNCHANGED <<copy, announced, sum, count_, buf, toServer,
                             faults>>
    /\ UNCHANGED <<size, superuser, serverVars, file, fd_file, told, heard, got,
                   commands>>

\* What is written to a copy that was deleted meanwhile is gone with it.
ReadChunk ==
    /\ cli = "receiving"
    /\ \E r \in Reads(buf, toClient, ServerGone) :
        /\ buf' = r.buf
        /\ toClient' = r.rest
        /\ faults' = IF r.n = 1 THEN faults \cup {"short"} ELSE faults
        /\ copy' = IF copy = None THEN None
                   ELSE Extend(copy, r.buf, announced, count_)
    /\ count_' = count_ + MAX_DATA_SIZE
    /\ ClientStep(IF IsLast(announced, count_')
                  THEN "received" ELSE "receiving")
    /\ UNCHANGED <<size, superuser, serverVars, file, fd_file, announced, sum,
                   told, heard, got, commands, toServer>>

MutCheckCopy ==
    /\ cli = "received"
    /\ ClientStep("idle")
    /\ got' = TRUE
    /\ Tell(<<ImageOK>>)
    /\ UNCHANGED <<size, superuser, serverVars, file, copy, fd_file, announced,
                   sum, count_, buf, told, heard, commands, toClient, faults>>

\* The sum of the copy against the sum of the header, which the server computed
\* of what it has on disk.
CheckCopy ==
    /\ cli = "received"
    /\ ClientStep("idle")
    /\ LET matches == copy = Content(sum.of, sum.bytes, TRUE)
       IN  \/ /\ matches
              /\ Tell(<<ImageOK>>)
              /\ got' = TRUE
              /\ UNCHANGED <<copy, faults>>
           \/ /\ Tell(<<ImageKO>>)
              /\ copy' = None
              /\ faults' = IF matches THEN faults \cup {"garbage"} ELSE faults
              /\ UNCHANGED got
    /\ UNCHANGED <<size, superuser, serverVars, file, fd_file, announced, sum,
                   count_, buf, told, heard, commands, toClient>>

\* The end of the connection leaves the client's own request in pkt, which is
\* parsed for a header.
NoHeader ==
    /\ cli = "asked" /\ ServerGone
    /\ ClientStep("lost")
    /\ UNCHANGED <<size, superuser, serverVars, file, copy, fd_file, announced,
                   sum, count_, buf, told, heard, got, commands, net, faults>>

\* THREAD_localFileCleanUp, at any time: the semaphore lets it run while a
\* command does.
CleanUp ==
    /\ cli # "gone" /\ (file \/ copy # None)
    /\ file' = FALSE /\ copy' = None
    /\ faults' = faults \cup {"clean"}
    /\ UNCHANGED <<size, superuser, serverVars, cli, fd_file, announced, sum,
                   count_, buf, told, heard, got, commands, net>>

----------------------------------------------------------------------------
(* The processes.                                                          *)

\* Harkonen, SIGINT, or SIGPIPE for writing to a server that is gone.
Kill ==
    /\ cli # "gone"
    /\ ClientStep("gone")
    /\ toClient' = <<>>
    /\ faults' = faults \cup {"kill"}
    /\ UNCHANGED <<size, superuser, serverVars, file, copy, fd_file, announced,
                   sum, count_, buf, told, heard, got, commands, toServer>>

\* The server ends, by whatever cause; what is on disk stays.
Crash ==
    /\ srv # "down"
    /\ srv' = "down"
    /\ last' = Request
    /\ bytesCount' = 0 /\ filesize' = 0 /\ md5sum' = None
    /\ pkt' = <<Junk, Junk>>
    /\ toServer' = <<>>
    /\ faults' = faults \cup {"crash"}
    /\ UNCHANGED <<size, superuser, image, clientVars, toClient>>

\* The server is started again, and the user with a new Fremen.
Restart ==
    /\ srv = "down"
    /\ srv' = "none"
    /\ UNCHANGED <<size, superuser, image, last, bytesCount, filesize, md5sum,
                   pkt, clientVars, net, faults>>

Connect ==
    /\ srv = "none" /\ cli = "gone"
    /\ srv' = "read"
    /\ ClientStep("idle")
    /\ fd_file' = FALSE /\ count_' = 0
    /\ announced' = 0 /\ sum' = None
    /\ buf' = <<Junk, Junk>>
    /\ UNCHANGED <<size, superuser, image, last, bytesCount, filesize, md5sum,
                   pkt, file, copy, told, heard, got, commands, net, faults>>

----------------------------------------------------------------------------
ThreadSteps ==
    \/ ReadUpload \/ ReplayUpload \/ ReceiveChunk \/ Verdict
    \/ ReadPhoto \/ SendChunk \/ ReadAck \/ ReadOther

ClientSteps ==
    \/ SendHeader \/ OpenFile \/ WriteChunk \/ ReadVerdict
    \/ ReadHeader \/ ReadChunk \/ CheckCopy \/ NoHeader

Next ==
    \/ ThreadSteps \/ ClientSteps \/ TypeSend \/ TypePhoto
    \/ CleanUp \/ Kill \/ Crash \/ Restart \/ Connect

\* A thread and a client that can go on do; nothing is assumed of people and
\* of faults.
Spec == Init /\ [][Next]_vars /\ WF_vars(ThreadSteps) /\ WF_vars(ClientSteps)

----------------------------------------------------------------------------
(* Properties.                                                             *)

\* What a packet told the client is stored stays stored, over replayed headers,
\* later uploads, misread sizes, crashes and restarts, because the mode of the
\* file keeps everybody but the superuser from opening it again (network.c:335,
\* :338, :378).
AcknowledgedStays ==
    told = "I" /\ heard /\ ~superuser => Whole(image)

\* An image is refused for a reason: one is stored already that cannot be
\* written again, a packet came in two parts, the client's file was deleted,
\* there is garbage behind a sum or there are digits behind a size; the two
\* sides, each of which counts by itself, count the same packets for every size
\* that is read as it was sent (network.c:354-360, Fremen network.c:274-283).
RefusedForAReason ==
    told = "R" /\ heard =>
        \/ image # None /\ ~superuser
        \/ faults \cap {"short", "clean", "garbage", "mida"} # {}

\* Outside of an upload the image is whole or not there, unless the server
\* died; no short read, no misread size, no deletion and no end of the client
\* leaves a part of an image that others would be served (network.c:372).
TornOnlyByCrash ==
    srv \notin {"recv", "verdict"} /\ image # None /\ ~Whole(image)
        => "crash" \in faults

\* A photo that the client keeps is the one that is stored, to the last byte,
\* and the one that was sent, unless the server died in the upload (Fremen
\* network.c:400).
DownloadTrue ==
    got /\ copy # None => /\ copy.intact
                          /\ Whole(copy) \/ "crash" \in faults

\* The thread has read all there is of the image and expects more.
Overreads ==
    /\ srv = "recv" /\ bytesCount > 0
    /\ size <= bytesCount /\ bytesCount < filesize

\* An upload comes to its end, while its thread listens, unless something
\* happens to the file, the packets or the processes.  A size that was misread
\* is no such excuse: it leaves one state in which both sides may wait, the
\* thread that expects more packets than the image has (Fremen
\* network.c:271-290, network.c:346-361).
UploadEnds ==
    cli \in {"stat", "open", "sending", "verdict"}
        ~> \/ cli \in {"idle", "gone"} \/ srv = "exit"
           \/ Overreads \/ faults \ {"mida"} # {}
=============================================================================
