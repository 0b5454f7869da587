------------------------------ MODULE Atreides ------------------------------
(***************************************************************************)
(* The Atreides server and its Fremen clients: the accept loop's dedicated *)
(* thread for every connection (thread.c), the handler it calls on each    *)
(* packet (NETWORK_checkMessage), the login (login.c) over the registry of *)
(* Storage, the semaphore that serialises the threads, and the clients'    *)
(* side of each exchange (Fremen/src/network.c).  Clients are interrupted  *)
(* or killed, the server crashes, is stopped and restarts.                 *)
(*                                                                         *)
(* A session is one connection of one client.  A packet is its type letter *)
(* and the one argument that matters: the user for 'C', an identifier for  *)
(* 'O' and 'P', 1 for the 'F' header of a photo that exists, and for the   *)
(* first page of a search's answer, which says how many users there are,   *)
(* the packets that its reader takes before it returns (0 for other pages).*)
(***************************************************************************)
EXTENDS Storage, FiniteSets

CONSTANTS
    Sessions,
    NoUser,             \* no user typed yet
    Typed,              \* the users that people log in as
    Residues,           \* the users a second parse of a login may yield
    Leading,            \* the number that a user's login begins with, or 0
    Answers,            \* what a search may be answered: the packets that are
                        \* sent, and those that the client reads
    Backlog,            \* people type with at most so many packets unread
    PhotoIds,           \* the identifiers that people ask a photo of
    Chunks,             \* data packets of every image
    Superuser,          \* TRUE if the server may write a file it cannot own
    Commands,           \* commands people type: "search", "send", "photo"
    Faults              \* "kill", "interrupt", "crash", "shutdown"

ASSUME UsersAssumption ==
    /\ Typed \subseteq Users
    /\ Residues \subseteq Users
    /\ NoUser \notin Users
ASSUME LeadingAssumption == Leading \in [Users -> Int]
\* Search computes these pairs from the list.  A client returns early from an
\* answer of several pages, or waits for a page that does not come.
ASSUME AnswersAssumption ==
    /\ Answers \subseteq [pages : Nat \ {0}, reads : Nat \ {0}]
    /\ \A a \in Answers : a.reads <= a.pages + 1
ASSUME BacklogAssumption == Backlog \in Nat
ASSUME ChunksAssumption == Chunks \in Nat \ {0}
ASSUME PhotoIdsAssumption == PhotoIds \subseteq Nat
ASSUME SuperuserIsBool == Superuser \in BOOLEAN

VARIABLES
    up,                 \* the server process runs
    sem_message,        \* the value of the System V semaphore
    imgs,               \* the identifiers with an image in imgs/
    pc,                 \* where each thread is in THREAD_userThread
    pkt,                \* the thread's local pkt
    u,                  \* the identifier in the thread's local u, 0 if unset
    login,              \* the user LOGIN_loginOK parsed
    left,               \* data packets still to read or write for an image,
                        \* or pages of a search still to write
    out,                \* the packet the handler is about to write
    ret,                \* the result of the handler
    toServer, toClient, \* the two directions of each connection
    cli,                \* where each client is in its command
    user,               \* what it typed at login (Fremen's user)
    usr_id,             \* the identifier it was told, -1 if none
    todo,               \* packets it still has to write or read
    answered,           \* history: the sessions whose login got a reply
    early,              \* history: those sent more pages than they read
    late                \* history: those sent fewer pages than they read

serverVars == <<up, sem_message, imgs>>
threadVars == <<pc, pkt, u, login, left, out, ret>>
clientVars == <<cli, user, usr_id, todo>>
net == <<toServer, toClient>>
history == <<answered, early, late>>
vars == <<storageVars, serverVars, threadVars, clientVars, net, history>>

Pkt(t, a) == [type |-> t, arg |-> a]
NoPkt == Pkt("0", 0)
Packets ==
    [type : {"C"}, arg : Users] \cup
    [type : {"0", "O", "S", "L", "F", "D", "I", "R", "P", "Q"}, arg : Nat]

Labels == {"none", "read", "wait", "check", "register", "reply", "send",
           "recv", "spoilt", "ack", "pages", "finish", "exit", "dead"}
\* A thread at one of these labels has passed SEM_wait and not SEM_signal; a
\* thread at "exit" has left the loop by the break before SEM_signal.
Holding == {"check", "register", "reply", "send", "recv", "spoilt", "ack",
            "pages", "finish", "exit"}
Alive == Labels \ {"none", "dead"}

Steps == {"off", "conn", "login", "idle", "search", "more", "upload",
          "verdict", "photo", "download", "spoilt", "lost", "gone"}
\* connected = 1 in the client: a reply to its login was read.
Connected == Steps \ {"off", "conn", "login", "gone"}
Waiting == {"login", "search", "more", "verdict", "photo", "download",
            "spoilt"}

ServerTypeOK ==
    /\ up \in BOOLEAN
    /\ sem_message \in {0, 1}
    /\ imgs \subseteq Nat

ThreadTypeOK ==
    /\ pc \in [Sessions -> Labels]
    /\ pkt \in [Sessions -> Packets]
    /\ u \in [Sessions -> Nat]
    /\ login \in [Sessions -> Users \cup {NoUser}]
    /\ left \in [Sessions -> Nat]
    /\ out \in [Sessions -> Packets]
    /\ ret \in [Sessions -> Int]

ClientTypeOK ==
    /\ cli \in [Sessions -> Steps]
    /\ user \in [Sessions -> Users \cup {NoUser}]
    /\ usr_id \in [Sessions -> Int]
    /\ todo \in [Sessions -> Nat]

NetTypeOK ==
    /\ toServer \in [Sessions -> Seq(Packets)]
    /\ toClient \in [Sessions -> Seq(Packets)]

HistoryTypeOK ==
    /\ answered \subseteq Sessions
    /\ early \subseteq Sessions
    /\ late \subseteq Sessions

TypeOK ==
    /\ StorageTypeOK /\ ServerTypeOK /\ ThreadTypeOK
    /\ ClientTypeOK /\ NetTypeOK /\ HistoryTypeOK

Init ==
    /\ StorageInit
    /\ up = TRUE
    /\ sem_message = 1
    /\ imgs = {}
    /\ pc = [s \in Sessions |-> "none"]
    /\ pkt = [s \in Sessions |-> NoPkt]
    /\ u = [s \in Sessions |-> 0]
    /\ login = [s \in Sessions |-> NoUser]
    /\ left = [s \in Sessions |-> 0]
    /\ out = [s \in Sessions |-> NoPkt]
    /\ ret = [s \in Sessions |-> 0]
    /\ toServer = [s \in Sessions |-> <<>>]
    /\ toClient = [s \in Sessions |-> <<>>]
    /\ cli = [s \in Sessions |-> "off"]
    /\ user = [s \in Sessions |-> NoUser]
    /\ usr_id = [s \in Sessions |-> -1]
    /\ todo = [s \in Sessions |-> 0]
    /\ answered = {} /\ early = {} /\ late = {}

----------------------------------------------------------------------------
(* The two directions of a connection.                                     *)

\* What is written to a peer that is gone is lost.
ClientWrites(s, p) ==
    toServer' = [toServer EXCEPT ![s] =
                    IF pc[s] = "dead" THEN @ ELSE Append(@, p)]
ServerTakes(s) == toServer' = [toServer EXCEPT ![s] = Tail(@)]
ServerWrites(s, p) ==
    toClient' = [toClient EXCEPT ![s] =
                    IF cli[s] = "gone" THEN @ ELSE Append(@, p)]
\* read() returns 0, and leaves its buffer as it was, once the peer is gone
\* and what it had written is consumed.
ServerEof(s) == toServer[s] = <<>> /\ cli[s] = "gone"
ClientEof(s) == toClient[s] = <<>> /\ pc[s] = "dead"

----------------------------------------------------------------------------
(* The dedicated thread of a session.                                      *)

ThreadReads(s) ==
    /\ pc[s] = "read"
    /\ \/ /\ toServer[s] # <<>>
          /\ pkt' = [pkt EXCEPT ![s] = Head(toServer[s])]
          /\ ServerTakes(s)
       \/ ServerEof(s) /\ UNCHANGED <<pkt, toServer>>
    /\ pc' = [pc EXCEPT ![s] = "wait"]
    /\ UNCHANGED <<history, storageVars, serverVars, u, login, left, out, ret,
                   clientVars, toClient>>

MutSEM_wait(s) ==
    /\ pc[s] = "wait"
    /\ sem_message' = IF sem_message > 0 THEN sem_message - 1 ELSE 0
    /\ pc' = [pc EXCEPT ![s] = "check"]
    /\ UNCHANGED <<history, storageVars, up, imgs, pkt, u, login, left, out,
                   ret, clientVars, net>>

SEM_wait(s) ==
    /\ pc[s] = "wait"
    /\ sem_message > 0
    /\ sem_message' = sem_message - 1
    /\ pc' = [pc EXCEPT ![s] = "check"]
    /\ UNCHANGED <<history, storageVars, up, imgs, pkt, u, login, left, out,
                   ret, clientVars, net>>

\* The handler has decided: it writes p and returns r.
Decide(s, p, r) ==
    /\ out' = [out EXCEPT ![s] = p]
    /\ ret' = [ret EXCEPT ![s] = r]
    /\ pc' = [pc EXCEPT ![s] = "reply"]

Return(s, r) ==
    /\ ret' = [ret EXCEPT ![s] = r]
    /\ pc' = [pc EXCEPT ![s] = "finish"]
    /\ UNCHANGED out

\* LOGIN_loginOK parses into the uninitialised tok, which on a fresh thread is
\* zero: the first parse is exact.  A second one, of a packet replayed after
\* the end of the connection, is mixed with the residue of the first.
Parses(s) == {pkt[s].arg} \cup (IF u[s] # 0 THEN Residues ELSE {})

MutLoginOK(s) ==
    /\ pc[s] = "check" /\ pkt[s].type = "C"
    /\ \E usr \in Parses(s) :
        /\ STORAGE_addUser(usr)
        /\ login' = [login EXCEPT ![s] = usr]
        /\ ret' = [ret EXCEPT ![s] = last_id_assigned']
        /\ pc' = [pc EXCEPT ![s] = "register"]
    /\ UNCHANGED <<history, serverVars, pkt, u, left, out, clientVars, net>>

LOGIN_loginOK(s) ==
    /\ pc[s] = "check" /\ pkt[s].type = "C"
    /\ \E usr \in Parses(s) :
        \/ /\ STORAGE_getID(usr) >= 0
           /\ Decide(s, Pkt("O", STORAGE_getID(usr)), STORAGE_getID(usr))
           /\ UNCHANGED <<storageVars, login>>
        \/ /\ STORAGE_getID(usr) < 0
           /\ STORAGE_addUser(usr)
           /\ login' = [login EXCEPT ![s] = usr]
           /\ ret' = [ret EXCEPT ![s] = last_id_assigned']
           /\ pc' = [pc EXCEPT ![s] = "register"]
           /\ UNCHANGED out
    /\ UNCHANGED <<history, serverVars, pkt, u, left, clientVars, net>>

\* The result of registering is printed, never returned.
RegisterUser(s) ==
    /\ pc[s] = "register"
    /\ STORAGE_registerUser(login[s], ret[s])
    /\ Decide(s, Pkt("O", ret[s]), ret[s])
    /\ login' = [login EXCEPT ![s] = NoUser]
    /\ UNCHANGED <<history, serverVars, pkt, u, left, clientVars, net>>

\* The list of the zipcode is looked up and cut into pages, of which the first
\* is written; Search has the arithmetic.
CheckSearch(s) ==
    /\ pc[s] = "check" /\ pkt[s].type = "S"
    /\ \E a \in Answers :
        /\ Decide(s, Pkt("L", a.reads), 1)
        /\ left' = [left EXCEPT ![s] = a.pages - 1]
        /\ early' = early \cup {t \in {s} : a.reads < a.pages}
        /\ late' = late \cup {t \in {s} : a.reads > a.pages}
    /\ UNCHANGED <<answered, storageVars, serverVars, pkt, u, login,
                   clientVars, net>>

\* Another page of the answer.
SendPage(s) ==
    /\ pc[s] = "pages"
    /\ ServerWrites(s, Pkt("L", 0))
    /\ left' = [left EXCEPT ![s] = @ - 1]
    /\ pc' = [pc EXCEPT ![s] = IF left[s] > 1 THEN "pages" ELSE "finish"]
    /\ UNCHANGED <<history, storageVars, serverVars, pkt, u, login, out, ret,
                   clientVars, toServer>>

\* The mode 777 of open() is decimal and gives the owner no write bit: unless
\* the server is root it can create an image and never open it again.
CheckSend(s) ==
    /\ pc[s] = "check" /\ pkt[s].type = "F"
    /\ \/ /\ u[s] \in imgs /\ ~Superuser
          /\ Decide(s, Pkt("R", 0), -1)
          /\ UNCHANGED <<imgs, left>>
       \/ /\ u[s] \notin imgs \/ Superuser
          /\ imgs' = imgs \cup {u[s]}
          /\ left' = [left EXCEPT ![s] = Chunks]
          /\ pc' = [pc EXCEPT ![s] = "recv"]
          /\ UNCHANGED <<out, ret>>
    /\ UNCHANGED <<history, storageVars, up, sem_message, pkt, u, login,
                   clientVars, net>>

\* One packet of the image; at the end of the connection read() leaves the
\* packet before in pkt.  The md5 of the file agrees with the announced one
\* only if every packet read was one of the image's.
ReceiveChunk(s) ==
    /\ pc[s] \in {"recv", "spoilt"}
    /\ \/ toServer[s] # <<>> /\ ServerTakes(s)
       \/ ServerEof(s) /\ UNCHANGED toServer
    /\ left' = [left EXCEPT ![s] = @ - 1]
    /\ LET intact == /\ pc[s] = "recv"
                     /\ toServer[s] # <<>> /\ Head(toServer[s]).type = "D"
       IN  \/ /\ left[s] > 1
              /\ pc' = [pc EXCEPT ![s] = IF intact THEN "recv" ELSE "spoilt"]
              /\ UNCHANGED <<out, ret, imgs>>
           \/ /\ left[s] = 1 /\ intact
              /\ Decide(s, Pkt("I", 0), 1)
              /\ UNCHANGED imgs
           \/ /\ left[s] = 1 /\ ~intact
              /\ imgs' = imgs \ {u[s]}
              /\ Decide(s, Pkt("R", 0), -1)
    /\ UNCHANGED <<history, storageVars, up, sem_message, pkt, u, login,
                   clientVars, toClient>>

\* Both answers to 'P' have type 'F': the header of the image, or the text
\* FILE NOT FOUND.
CheckPhoto(s) ==
    /\ pc[s] = "check" /\ pkt[s].type = "P"
    /\ \/ /\ pkt[s].arg \in imgs
          /\ Decide(s, Pkt("F", 1), 0)
          /\ left' = [left EXCEPT ![s] = Chunks]
       \/ /\ pkt[s].arg \notin imgs
          /\ Decide(s, Pkt("F", 0), -1)
          /\ UNCHANGED left
    /\ UNCHANGED <<history, storageVars, serverVars, pkt, u, login,
                   clientVars, net>>

MutSendChunk(s) ==
    /\ pc[s] = "send"
    /\ ServerWrites(s, Pkt("D", 0))
    /\ left' = [left EXCEPT ![s] = @ - 1]
    /\ pc' = [pc EXCEPT ![s] = IF left[s] > 0 THEN "send" ELSE "ack"]
    /\ UNCHANGED <<history, storageVars, serverVars, pkt, u, login, out, ret,
                   clientVars, toServer>>

SendChunk(s) ==
    /\ pc[s] = "send"
    /\ ServerWrites(s, Pkt("D", 0))
    /\ left' = [left EXCEPT ![s] = @ - 1]
    /\ pc' = [pc EXCEPT ![s] = IF left[s] > 1 THEN "send" ELSE "ack"]
    /\ UNCHANGED <<history, storageVars, serverVars, pkt, u, login, out, ret,
                   clientVars, toServer>>

\* new_pkt is uninitialised: when the client is gone its type is anything.
ReadAck(s) ==
    /\ pc[s] = "ack"
    /\ \/ /\ toServer[s] # <<>>
          /\ ServerTakes(s)
          /\ Return(s, IF Head(toServer[s]).type = "I" THEN 1 ELSE -1)
       \/ /\ ServerEof(s)
          /\ \E r \in {1, -1} : Return(s, r)
          /\ UNCHANGED toServer
    /\ UNCHANGED <<history, storageVars, serverVars, pkt, u, login, left,
                   clientVars, toClient>>

CheckQuit(s) ==
    /\ pc[s] = "check" /\ pkt[s].type = "Q"
    /\ Return(s, -1)
    /\ UNCHANGED <<history, storageVars, serverVars, pkt, u, login, left,
                   clientVars, net>>

\* No case of the switch: also the zero packet of a thread whose client died
\* before it sent one.
CheckOther(s) ==
    /\ pc[s] = "check" /\ pkt[s].type \notin {"C", "S", "F", "P", "Q"}
    /\ Return(s, 1)
    /\ UNCHANGED <<history, storageVars, serverVars, pkt, u, login, left,
                   clientVars, net>>

\* What the handler does once it has written its answer.
After(s) ==
    IF out[s] = Pkt("F", 1) THEN "send"
    ELSE IF out[s].type = "L" /\ left[s] > 0 THEN "pages" ELSE "finish"

\* The handler's write().
Reply(s) ==
    /\ pc[s] = "reply"
    /\ ServerWrites(s, out[s])
    /\ pc' = [pc EXCEPT ![s] = After(s)]
    /\ out' = [out EXCEPT ![s] = NoPkt]
    /\ UNCHANGED <<history, storageVars, serverVars, pkt, u, login, left, ret,
                   clientVars, toServer>>

MutFinishNoSignal(s) ==
    /\ pc[s] = "finish"
    /\ \/ /\ ret[s] < 0
          /\ pc' = [pc EXCEPT ![s] = "exit"]
          /\ UNCHANGED u
       \/ /\ ret[s] >= 0
          /\ u' = [u EXCEPT ![s] = IF pkt[s].type = "C" THEN ret[s] ELSE @]
          /\ pc' = [pc EXCEPT ![s] = "read"]
    /\ ret' = [ret EXCEPT ![s] = 0]
    /\ UNCHANGED <<history, storageVars, serverVars, pkt, login, left, out,
                   clientVars, net>>

MutFinishU(s) ==
    /\ pc[s] = "finish"
    /\ \/ /\ ret[s] < 0
          /\ pc' = [pc EXCEPT ![s] = "exit"]
          /\ UNCHANGED <<sem_message, u>>
       \/ /\ ret[s] >= 0
          /\ u' = [u EXCEPT ![s] = ret[s]]
          /\ sem_message' = sem_message + 1
          /\ pc' = [pc EXCEPT ![s] = "read"]
    /\ ret' = [ret EXCEPT ![s] = 0]
    /\ UNCHANGED <<history, storageVars, up, imgs, pkt, login, left, out,
                   clientVars, net>>

\* Back in the loop of the thread.  The break of a negative result leaves the
\* semaphore taken.
Finish(s) ==
    /\ pc[s] = "finish"
    /\ \/ /\ ret[s] < 0
          /\ pc' = [pc EXCEPT ![s] = "exit"]
          /\ UNCHANGED <<sem_message, u>>
       \/ /\ ret[s] >= 0
          /\ u' = [u EXCEPT ![s] = IF pkt[s].type = "C" THEN ret[s] ELSE @]
          /\ sem_message' = sem_message + 1
          /\ pc' = [pc EXCEPT ![s] = "read"]
    /\ ret' = [ret EXCEPT ![s] = 0]
    /\ UNCHANGED <<history, storageVars, up, imgs, pkt, login, left, out,
                   clientVars, net>>

----------------------------------------------------------------------------
(* A Fremen: it types one command at a time and answers to the server.     *)

ClientStep(s, step) == cli' = [cli EXCEPT ![s] = step]
\* The client takes the next packet of the server.
Takes(s) == toClient' = [toClient EXCEPT ![s] = Tail(@)]
Next1(s) == IF toClient[s] = <<>> THEN NoPkt ELSE Head(toClient[s])

\* connect() succeeds; the accept loop creates the dedicated thread.
Connect(s, usr) ==
    /\ up /\ cli[s] = "off"
    /\ ClientStep(s, "conn")
    /\ user' = [user EXCEPT ![s] = usr]
    /\ pc' = [pc EXCEPT ![s] = "read"]
    /\ UNCHANGED <<history, storageVars, serverVars, pkt, u, login, left, out,
                   ret, usr_id, todo, net>>

SendLogin(s) ==
    /\ cli[s] = "conn"
    /\ ClientStep(s, "login")
    /\ ClientWrites(s, Pkt("C", user[s]))
    /\ UNCHANGED <<history, storageVars, serverVars, threadVars, user, usr_id,
                   todo, toClient>>

\* Whatever arrives that is not the text ERROR connects the client, the end of
\* the connection too; only a positive number becomes its identifier.  At the
\* end of the connection pkt still holds what the client sent, and atoi reads
\* the number that its login begins with (a negative one ends it: LoginFails).
LoginReply(s) ==
    /\ cli[s] = "login"
    /\ ClientStep(s, "idle")
    /\ \/ /\ toClient[s] # <<>>
          /\ usr_id' = [usr_id EXCEPT ![s] =
                LET p == Head(toClient[s])
                IN  IF p.type = "O" /\ p.arg > 0 THEN p.arg ELSE @]
          /\ Takes(s)
          /\ answered' = answered \cup {s}
       \/ /\ ClientEof(s) /\ Leading[user[s]] >= 0
          /\ usr_id' = [usr_id EXCEPT ![s] =
                IF Leading[user[s]] > 0 THEN Leading[user[s]] ELSE @]
          /\ UNCHANGED <<toClient, answered>>
    /\ UNCHANGED <<early, late, storageVars, serverVars, threadVars, user,
                   todo, toServer>>

\* A person waits for the prompt, and for what is under way but for Backlog.
AtPrompt(s) == cli[s] = "idle" /\ Len(toServer[s]) + Len(toClient[s]) <= Backlog

TypeSearch(s) ==
    /\ AtPrompt(s) /\ "search" \in Commands
    /\ ClientStep(s, "search")
    /\ ClientWrites(s, Pkt("S", 0))
    /\ UNCHANGED <<history, storageVars, serverVars, threadVars, user, usr_id,
                   todo, toClient>>

\* A client that takes a packet for one of another type parses garbage.  A page
\* that is left over from an earlier answer has no number of users: by what its
\* first login begins with the search is over, or the client parses garbage too.
\* At the end of the connection read() fails, and the command returns, or
\* leaves new_packet uninitialised.
SearchReply(s) ==
    /\ cli[s] = "search"
    /\ \/ /\ toClient[s] # <<>> /\ Takes(s)
          /\ LET p == Next1(s)
             IN  \/ /\ p.type = "L" /\ p.arg > 1
                    /\ ClientStep(s, "more")
                    /\ todo' = [todo EXCEPT ![s] = p.arg - 1]
                 \/ /\ p.type = "L" /\ p.arg <= 1
                    /\ ClientStep(s, "idle")
                    /\ UNCHANGED todo
                 \/ /\ p.type # "L" \/ p.arg = 0
                    /\ ClientStep(s, "lost")
                    /\ UNCHANGED todo
       \/ /\ ClientEof(s) /\ UNCHANGED <<toClient, todo>>
          /\ \E step \in {"idle", "lost"} : ClientStep(s, step)
    /\ UNCHANGED <<history, storageVars, serverVars, threadVars, user, usr_id,
                   toServer>>

\* Another page.  At the end of the connection the client parses the page before
\* once more.
SearchMore(s) ==
    /\ cli[s] = "more"
    /\ \/ /\ toClient[s] # <<>> /\ Takes(s)
          /\ \/ /\ Next1(s) = Pkt("L", 0)
                /\ todo' = [todo EXCEPT ![s] = @ - 1]
                /\ ClientStep(s, IF todo[s] > 1 THEN "more" ELSE "idle")
             \/ /\ Next1(s) # Pkt("L", 0)
                /\ ClientStep(s, "lost")
                /\ UNCHANGED todo
       \/ /\ ClientEof(s) /\ UNCHANGED <<toClient, todo>>
          /\ \E step \in {"idle", "lost"} : ClientStep(s, step)
    /\ UNCHANGED <<history, storageVars, serverVars, threadVars, user, usr_id,
                   toServer>>

TypeSend(s) ==
    /\ AtPrompt(s) /\ "send" \in Commands
    /\ ClientStep(s, "upload")
    /\ todo' = [todo EXCEPT ![s] = Chunks]
    /\ ClientWrites(s, Pkt("F", 0))
    /\ UNCHANGED <<history, storageVars, serverVars, threadVars, user, usr_id,
                   toClient>>

WriteChunk(s) ==
    /\ cli[s] = "upload"
    /\ ClientWrites(s, Pkt("D", 0))
    /\ todo' = [todo EXCEPT ![s] = @ - 1]
    /\ ClientStep(s, IF todo[s] > 1 THEN "upload" ELSE "verdict")
    /\ UNCHANGED <<history, storageVars, serverVars, threadVars, user, usr_id,
                   toClient>>

\* 'I' or not, the command ends.
SendVerdict(s) ==
    /\ cli[s] = "verdict"
    /\ \/ toClient[s] # <<>> /\ Takes(s)
       \/ ClientEof(s) /\ UNCHANGED toClient
    /\ ClientStep(s, "idle")
    /\ UNCHANGED <<history, storageVars, serverVars, threadVars, user, usr_id,
                   todo, toServer>>

TypePhoto(s, id) ==
    /\ AtPrompt(s) /\ "photo" \in Commands
    /\ ClientStep(s, "photo")
    /\ ClientWrites(s, Pkt("P", id))
    /\ UNCHANGED <<history, storageVars, serverVars, threadVars, user, usr_id,
                   todo, toClient>>

\* When the local file cannot be opened the client refuses the image, and
\* leaves unread the packets that follow the header.
PhotoReply(s) ==
    /\ cli[s] = "photo"
    /\ \/ toClient[s] # <<>> /\ Takes(s)
       \/ ClientEof(s) /\ UNCHANGED toClient
    /\ \/ /\ Next1(s) = Pkt("F", 0)
          /\ ClientStep(s, "idle")
          /\ UNCHANGED <<toServer, todo>>
       \/ /\ Next1(s) = Pkt("F", 1)
          /\ ClientStep(s, "download")
          /\ todo' = [todo EXCEPT ![s] = Chunks]
          /\ UNCHANGED toServer
       \/ /\ Next1(s) = Pkt("F", 1)
          /\ ClientStep(s, "idle")
          /\ ClientWrites(s, Pkt("R", 0))
          /\ UNCHANGED todo
       \/ /\ Next1(s).type # "F"
          /\ ClientStep(s, "lost")
          /\ UNCHANGED <<toServer, todo>>
    /\ UNCHANGED <<history, storageVars, serverVars, threadVars, user, usr_id>>

MutReadChunk(s) ==
    /\ cli[s] \in {"download", "spoilt"}
    /\ toClient[s] # <<>> /\ Takes(s)
    /\ todo' = [todo EXCEPT ![s] = @ - 1]
    /\ ClientStep(s, "idle")
    /\ ClientWrites(s, Pkt("I", 0))
    /\ UNCHANGED <<history, storageVars, serverVars, threadVars, user, usr_id>>

ReadChunk(s) ==
    /\ cli[s] \in {"download", "spoilt"}
    /\ \/ toClient[s] # <<>> /\ Takes(s)
       \/ ClientEof(s) /\ UNCHANGED toClient
    /\ todo' = [todo EXCEPT ![s] = @ - 1]
    /\ LET intact == cli[s] = "download" /\ Next1(s).type = "D"
       IN  \/ /\ todo[s] > 1
              /\ ClientStep(s, IF intact THEN "download" ELSE "spoilt")
              /\ UNCHANGED toServer
           \/ /\ todo[s] = 1
              /\ ClientStep(s, "idle")
              /\ ClientWrites(s, Pkt(IF intact THEN "I" ELSE "R", 0))
    /\ UNCHANGED <<history, storageVars, serverVars, threadVars, user, usr_id>>

Leaves(s) ==
    /\ ClientStep(s, "gone")
    /\ toClient' = [toClient EXCEPT ![s] = <<>>]
    /\ todo' = [todo EXCEPT ![s] = 0]
    /\ UNCHANGED <<history, storageVars, serverVars, threadVars, user, usr_id>>

\* When the server died with the login unread, the connection is reset and
\* read() fails: the client ends itself, and being unconnected says nothing.
LoginFails(s) ==
    /\ cli[s] = "login" /\ ClientEof(s)
    /\ Leaves(s)
    /\ UNCHANGED toServer

\* exitFremen on SIGINT, which logout raises: a connected client says 'Q'.
Interrupt(s) ==
    /\ "interrupt" \in Faults
    /\ cli[s] \notin {"off", "gone"}
    /\ Leaves(s)
    /\ IF cli[s] \in Connected
       THEN ClientWrites(s, Pkt("Q", 0))
       ELSE UNCHANGED toServer

\* SIGKILL, which is what Harkonen sends, at any time; or SIGPIPE, for writing
\* to a connection whose server is gone.
Kill(s) ==
    /\ cli[s] \notin {"off", "gone"}
    /\ "kill" \in Faults \/ (pc[s] = "dead" /\ cli[s] \in Connected)
    /\ Leaves(s)
    /\ UNCHANGED toServer

----------------------------------------------------------------------------
(* The server process.                                                     *)

\* Every thread ends with the process, and every connection; SEM_UNDO gives
\* back what the process took from the semaphore.
Die ==
    /\ up
    /\ up' = FALSE
    /\ sem_message' = 1
    /\ STORAGE_deleteDatabase
    /\ pc' = [s \in Sessions |-> IF pc[s] = "none" THEN "none" ELSE "dead"]
    /\ pkt' = [s \in Sessions |-> NoPkt]
    /\ u' = [s \in Sessions |-> 0]
    /\ login' = [s \in Sessions |-> NoUser]
    /\ left' = [s \in Sessions |-> 0]
    /\ out' = [s \in Sessions |-> NoPkt]
    /\ ret' = [s \in Sessions |-> 0]
    /\ toServer' = [s \in Sessions |-> <<>>]
    /\ UNCHANGED <<history, imgs, clientVars>>

\* SIGPIPE has its default action: writing to a client that is gone may end
\* the whole process, or pass unnoticed the first time.
Sigpipe(s) ==
    /\ pc[s] \in {"reply", "send", "pages"} /\ cli[s] = "gone"
    /\ Die
    /\ UNCHANGED toClient

Crash ==
    /\ "crash" \in Faults
    /\ Die
    /\ UNCHANGED toClient

\* SIGINT: a 'Q' to every connection the process ever accepted, then the end.
\* A client that is gone may end the broadcast, and the process, before it
\* reaches the others.
exitAtreides ==
    /\ "shutdown" \in Faults
    /\ Die
    /\ \E told \in SUBSET {s \in Sessions : pc[s] \in Alive} :
        /\ \A s \in Sessions \ told :
              pc[s] \in Alive
                => \E t \in Sessions \ told : pc[t] \in Alive /\ cli[t] = "gone"
        /\ toClient' = [s \in Sessions |->
              IF s \in told /\ cli[s] # "gone"
              THEN Append(toClient[s], Pkt("Q", 0)) ELSE toClient[s]]

\* main() again.
Restart ==
    /\ ~up
    /\ up' = TRUE
    /\ sem_message' = 1
    /\ STORAGE_loadDatabase
    /\ UNCHANGED <<history, imgs, threadVars, clientVars, net>>

----------------------------------------------------------------------------
ThreadStep(s) ==
    \/ ThreadReads(s) \/ LOGIN_loginOK(s) \/ RegisterUser(s)
    \/ CheckSearch(s) \/ SendPage(s) \/ CheckSend(s) \/ ReceiveChunk(s)
    \/ CheckPhoto(s) \/ SendChunk(s) \/ ReadAck(s)
    \/ CheckQuit(s) \/ CheckOther(s) \/ Reply(s) \/ Finish(s)

\* What a client does without being told.
FremenStep(s) ==
    \/ SendLogin(s) \/ LoginReply(s) \/ LoginFails(s) \/ SearchReply(s)
    \/ SearchMore(s) \/ WriteChunk(s) \/ SendVerdict(s) \/ PhotoReply(s)
    \/ ReadChunk(s)

PersonStep(s) ==
    \/ \E usr \in Typed : Connect(s, usr)
    \/ TypeSearch(s) \/ TypeSend(s) \/ \E id \in PhotoIds : TypePhoto(s, id)
    \/ Interrupt(s) \/ Kill(s)

SessionStep(s) ==
    ThreadStep(s) \/ SEM_wait(s) \/ FremenStep(s) \/ PersonStep(s) \/ Sigpipe(s)

Next ==
    \/ \E s \in Sessions : SessionStep(s)
    \/ Crash \/ exitAtreides \/ Restart

Spec == Init /\ [][Next]_vars

\* A thread and a client that can go on do; the semaphore grants the processes
\* of its queue in turn.
Fairness ==
    \A s \in Sessions :
        /\ WF_vars(ThreadStep(s))
        /\ SF_vars(SEM_wait(s))
        /\ WF_vars(FremenStep(s))

FairSpec == Spec /\ Fairness
----------------------------------------------------------------------------
(* Properties.                                                             *)

Holders == {s \in Sessions : pc[s] \in Holding}

\* At most one thread at a time is between SEM_wait and SEM_signal, counting
\* the threads that left with the semaphore taken; and while one is, and only
\* then, the semaphore is 0 (thread.c:20-42).
MutualExclusion ==
    /\ \A s, t \in Holders : s = t
    /\ sem_message = 0 <=> Holders # {}

\* In the register file a user has one line and an identifier one user, over
\* crashes between the counter and the file, restarts and replayed logins
\* (storage.c:57 "get an id of a specific user").
RegistryConsistent ==
    \A i, j \in DOMAIN usr_reg :
        \/ usr_reg[i].user = usr_reg[j].user
        \/ usr_reg[i].id = usr_reg[j].id
        => i = j

\* What the clients are told agrees, from one connection to another and from
\* one run of the server to the next: two sessions whose login was answered
\* have the same identifier exactly when they logged in as the same user
\* (login.c:5 "If it was already registered it returns its id.").
IdentifiersStable ==
    \A s, t \in answered :
        usr_id[s] > 0 /\ usr_id[t] > 0
            => (user[s] = user[t] <=> usr_id[s] = usr_id[t])

\* The command a client is in and what its thread does agree, until the client
\* returns early from the pages of a search (Fremen/src/network.c:165).  Between
\* two commands the connection is empty and the thread listens, or will not
\* listen again; and a client takes a packet for another only after it refused
\* an image its thread is still sending, or when its thread is at its end.
InStep ==
    \A s \in Sessions \ early :
        /\ cli[s] = "idle" /\ pc[s] = "read"
              => toServer[s] = <<>> /\ toClient[s] = <<>>
        /\ cli[s] = "lost"
              => \/ pc[s] \in {"exit", "dead"}
                 \/ pc[s] \in {"send", "ack", "finish"} /\ pkt[s].type = "P"

\* An image is created under the identifier that the client who sends it was
\* told at login: the thread's u and the client's usr_id never part while the
\* client lives (thread.c:24-25, network.c:327).
Attributed ==
    [][\A id \in imgs' \ imgs :
          \E s \in Sessions : /\ pc[s] = "check" /\ pc'[s] = "recv"
                              /\ usr_id[s] = id]_vars

\* Identifiers as UserDirectory promises them, read from the register file.
Lines == {usr_reg[i] : i \in DOMAIN usr_reg}
Directory == INSTANCE UserDirectory WITH
    ids <- LoadedMap(usr_reg), who <- user,
    told <- [s \in Sessions |-> IF s \in answered THEN usr_id[s] ELSE -1]

\* Every step of the server and its clients is a step of the directory or
\* none: a client is told only an identifier that is on disk.
ImplementsDirectory == Directory!Spec

\* The threads use the registry in the order that Storage allows and HashMap
\* implements, over crashes and restarts: a user is added only once it is known
\* to be new, and registered with the identifier it was just given
\* (login.c:22-27).
ObeysStorage == StorageSpec

\* A thread has left its loop with the semaphore taken (thread.c:23).
Leaked == \E s \in Sessions : pc[s] = "exit"

\* A client that took the pages of an earlier search for the header of an image
\* never tells its thread whether it has the image.
Garbled == \E s \in early : cli[s] = "lost" /\ pc[s] = "ack"

\* A client that waits for an answer gets it, unless a thread leaves with the
\* semaphore or waits with it for a client that is lost, the server goes down,
\* or the answer to a search has no page that the client will wait for
\* (Fremen/src/network.c:165-168).
Answered ==
    \A s \in Sessions :
        cli[s] \in Waiting
            ~> (cli[s] \notin Waiting \/ Leaked \/ Garbled \/ s \in late \/ ~up)

\* The comment of network.c:96-102: who connects gets a message of
\* confirmation, or one of error.
LoginAnswered ==
    \A s \in Sessions : cli[s] = "login" ~> cli[s] # "login"

\* The comments of thread.c:15-21 and storage.c:86: a thread reads a packet of
\* its client and processes it, and new users are registered; so the register
\* file holds nobody but users that some client typed.
OnlyTypedUsers ==
    \A i \in DOMAIN usr_reg : \E s \in Sessions : user[s] = usr_reg[i].user

----------------------------------------------------------------------------
(* The inductive invariant behind the safety properties.                   *)

\* Why the locals that are counted down stay natural numbers, and the user
\* that is about to be registered is one.
LocalsReady ==
    \A s \in Sessions :
        /\ pc[s] \in {"recv", "spoilt", "send", "pages"} => left[s] >= 1
        /\ pc[s] = "reply" /\ out[s] = Pkt("F", 1) => left[s] >= 1
        /\ cli[s] \in {"more", "upload", "download", "spoilt"} => todo[s] >= 1
        /\ pc[s] = "register" => login[s] \in Users /\ ret[s] = last_id_assigned
        /\ cli[s] # "off" => user[s] \in Users

\* No thread runs without the process, and none without a connection.
Phases ==
    \A s \in Sessions :
        /\ ~up => pc[s] \in {"none", "dead"}
        /\ cli[s] = "off" => pc[s] = "none"

Registering == {s \in Sessions : pc[s] = "register"}

\* Memory and disk: while the server runs, its map holds the users of the file
\* and the user being registered, who is not in the file yet.
MemoryCoversFile ==
    /\ \A i, j \in DOMAIN usr_reg : usr_reg[i].user = usr_reg[j].user => i = j
    /\ up => \A i \in DOMAIN usr_reg : usr_reg[i].user \in DOMAIN map
    /\ \A s \in Registering :
          /\ login[s] \in DOMAIN map
          /\ \A i \in DOMAIN usr_reg : usr_reg[i].user # login[s]

\* When registering cannot fail, line i holds identifier i, and the counter is
\* the number of lines but for the user being registered.
CounterMatchesFile ==
    ~RegisterMayFail =>
        /\ \A i \in DOMAIN usr_reg : usr_reg[i].id = i
        /\ up => last_id_assigned =
                    Len(usr_reg) + (IF Registering = {} THEN 0 ELSE 1)

IInv == /\ TypeOK /\ LocalsReady /\ Phases
        /\ MutualExclusion
        /\ MemoryCoversFile /\ CounterMatchesFile
=============================================================================
