----------------------------- MODULE AcceptLoop -----------------------------
(***************************************************************************)
(* The main thread of Atreides: the loop that accepts clients and gives    *)
(* each one a thread (Atreides.c:54-70), and exitAtreides, the handler of  *)
(* SIGINT that interrupts it anywhere.  A thread is here what it does with *)
(* the argument that all threads share, the semaphore that the shutdown    *)
(* removes, and the map that it frees.                                     *)
(*                                                                         *)
(* The n-th client that connects has the n-th descriptor; none is ever     *)
(* closed.  The n-th thread is the one created for the n-th accept().      *)
(***************************************************************************)
EXTENDS Integers, Sequences, FiniteSets

CONSTANTS
    Clients,            \* clients that connect
    Descriptors,        \* descriptors left for clients
    MaxThreads          \* bound: threads created

ASSUME BoundsAssumption ==
    Clients \in Nat /\ Descriptors \in Nat /\ MaxThreads \in Nat

VARIABLES
    main,               \* where the main thread is
    arrived,            \* clients in the queue of listen(), or accepted
    accepted,           \* clients that accept() has returned
    arg,                \* arg.clientFD, shared with the threads
    ids, connected_fds, \* the arrays, up to the last entry written
    total_threads,
    threads,            \* per thread: where it is, its copy of arg.clientFD,
                        \* and if its semaphore is one made after the removal
    sem,                \* value of the semaphore, or Removed
    map,                \* "loaded" or "free"
    told,               \* descriptors that got the 'Q' of the broadcast
    inHeap              \* SIGINT came in the middle of realloc()

vars == <<main, arrived, accepted, arg, ids, connected_fds, total_threads,
          threads, sem, map, told, inHeap>>

Threads == 1..MaxThreads
Error == -1
NotYet == 0
Removed == -1
Fds == {Error, NotYet} \cup 1..Clients

Looping == {"accept", "create", "store", "resize"}
Exiting == {"broadcast", "free", "stop", "semaphore", "cancel"}
Over == {"exit", "abort", "killed"}
Running == main \notin Over

Handling(t) == threads[t].pc = "handle"

TypeOK ==
    /\ main \in Looping \cup Exiting \cup Over
    /\ accepted \in 0..arrived /\ arrived \in 0..Clients
    /\ arg \in Fds
    /\ ids \in Seq(Threads) /\ Len(ids) = total_threads
    /\ connected_fds \in Seq(Fds \ {NotYet})
    /\ Len(connected_fds) = total_threads
    /\ total_threads \in 0..MaxThreads
    /\ threads \in [Threads ->
           [pc : {"none", "start", "copy", "read", "wait", "handle", "gone"},
            fd : Fds, late : BOOLEAN]]
    /\ \A t \in Threads :
           threads[t].fd = NotYet <=>
               threads[t].pc \in {"none", "start", "copy"}
    /\ sem \in {0, 1, Removed}
    /\ map \in {"loaded", "free"}
    /\ told \subseteq Fds
    /\ inHeap \in BOOLEAN

\* The semaphore is 1, the socket listens and the map is loaded (33-52).
Init ==
    /\ main = "accept"
    /\ arrived = 0 /\ accepted = 0
    /\ arg = NotYet
    /\ ids = <<>> /\ connected_fds = <<>> /\ total_threads = 0
    /\ threads = [t \in Threads |->
                     [pc |-> "none", fd |-> NotYet, late |-> FALSE]]
    /\ sem = 1 /\ map = "loaded"
    /\ told = {} /\ inHeap = FALSE

----------------------------------------------------------------------------
(* The heap of the C library.                                              *)

PthreadSize == 8

\* Entries that fit into the block that malloc() or realloc() returns for n
\* entries of some size: glibc has blocks of 24 bytes and each 16 more.
Usable(n, entry) ==
    LET blocks == (n * entry + 8 + 15) \div 16
    IN  ((IF blocks < 2 THEN 2 ELSE blocks) * 16 - 8) \div entry

\* The arrays hold one entry when the loop begins, and as many as they had
\* entries after each turn.
Capacity(n) == IF n = 0 THEN 1 ELSE n

----------------------------------------------------------------------------
(* The loop.                                                               *)

MutAccept ==
    /\ main = "accept" /\ total_threads < MaxThreads
    /\ accepted < Descriptors /\ accepted < arrived
    /\ accepted' = accepted + 1
    /\ arg' = IF arg = NotYet THEN accepted + 1 ELSE arg
    /\ main' = "create"
    /\ UNCHANGED <<arrived, ids, connected_fds, total_threads, threads, sem,
                   map, told, inHeap>>

\* accept() takes a descriptor before it waits: without one it fails at once,
\* and nothing looks at the -1.
Accept ==
    /\ main = "accept" /\ total_threads < MaxThreads
    /\ \/ /\ accepted < Descriptors /\ accepted < arrived
          /\ accepted' = accepted + 1
          /\ arg' = accepted + 1
       \/ /\ accepted = Descriptors
          /\ arg' = Error
          /\ UNCHANGED accepted
    /\ main' = "create"
    /\ UNCHANGED <<arrived, ids, connected_fds, total_threads, threads, sem,
                   map, told, inHeap>>

Create ==
    /\ main = "create"
    /\ threads' = [threads EXCEPT ![total_threads + 1].pc = "start"]
    /\ main' = "store"
    /\ UNCHANGED <<arrived, accepted, arg, ids, connected_fds, total_threads,
                   sem, map, told, inHeap>>

MutStore ==
    /\ main = "store"
    /\ ids' = Append(ids, total_threads + 1)
    /\ connected_fds' = Append(connected_fds, arg)
    /\ UNCHANGED total_threads
    /\ main' = "resize"
    /\ UNCHANGED <<arrived, accepted, arg, threads, sem, map, told, inHeap>>

\* Entry id is written into arrays of id entries.
Store ==
    /\ main = "store"
    /\ ids' = Append(ids, total_threads + 1)
    /\ connected_fds' = Append(connected_fds, arg)
    /\ total_threads' = total_threads + 1
    /\ main' = "resize"
    /\ UNCHANGED <<arrived, accepted, arg, threads, sem, map, told, inHeap>>

MutResize ==
    /\ main = "resize"
    /\ \/ main' = "accept"
       \/ /\ total_threads + 1 >
                 Usable(Capacity(total_threads - 1), PthreadSize)
          /\ main' = "abort"
    /\ UNCHANGED <<arrived, accepted, arg, ids, connected_fds, total_threads,
                   threads, sem, map, told, inHeap>>

\* An entry beyond the block has overwritten the size of the next one, which
\* realloc() of glibc looks at; another allocator may go on.
Resize ==
    /\ main = "resize"
    /\ \/ main' = "accept"
       \/ /\ total_threads > Usable(Capacity(total_threads - 1), PthreadSize)
          /\ main' = "abort"
    /\ UNCHANGED <<arrived, accepted, arg, ids, connected_fds, total_threads,
                   threads, sem, map, told, inHeap>>

----------------------------------------------------------------------------
(* exitAtreides.                                                           *)

\* The handler runs in the place of the loop, and inside of realloc() when
\* that is where the loop was.
Interrupt ==
    /\ main \in Looping
    /\ main' = "broadcast"
    /\ inHeap' \in {FALSE, main = "resize"}
    /\ UNCHANGED <<arrived, accepted, arg, ids, connected_fds, total_threads,
                   threads, sem, map, told>>

MutBroadcast ==
    /\ main = "broadcast"
    /\ told' = {connected_fds[i] : i \in 1..(total_threads - 2)}
    /\ main' = "free"
    /\ UNCHANGED <<arrived, accepted, arg, ids, connected_fds, total_threads,
                   threads, sem, map, inHeap>>

\* A client that is gone kills the server (SIGPIPE).
NETWORK_broadcastLogout ==
    /\ main = "broadcast"
    /\ \E n \in 0..total_threads :
        /\ told' = {connected_fds[i] : i \in 1..n}
        /\ main' = IF n = total_threads THEN "free" ELSE "killed"
    /\ UNCHANGED <<arrived, accepted, arg, ids, connected_fds, total_threads,
                   threads, sem, map, inHeap>>

MutDeleteDatabase ==
    /\ main = "free" /\ ~inHeap /\ sem = 1
    /\ map' = "free"
    /\ main' = "stop"
    /\ UNCHANGED <<arrived, accepted, arg, ids, connected_fds, total_threads,
                   threads, sem, told, inHeap>>

\* free() waits for ever for the heap that realloc() had locked.
STORAGE_deleteDatabase ==
    /\ main = "free" /\ ~inHeap
    /\ map' = "free"
    /\ main' = "stop"
    /\ UNCHANGED <<arrived, accepted, arg, ids, connected_fds, total_threads,
                   threads, sem, told, inHeap>>

NETWORK_stopAtreides ==
    /\ main = "stop"
    /\ main' = "semaphore"
    /\ UNCHANGED <<arrived, accepted, arg, ids, connected_fds, total_threads,
                   threads, sem, map, told, inHeap>>

SEM_destructor ==
    /\ main = "semaphore"
    /\ sem' = Removed
    /\ main' = "cancel"
    /\ UNCHANGED <<arrived, accepted, arg, ids, connected_fds, total_threads,
                   threads, map, told, inHeap>>

\* The threads of the array are cancelled, and exit() ends them all.
THREAD_deleteThreads ==
    /\ main = "cancel"
    /\ main' = "exit"
    /\ threads' = [t \in Threads |->
                     IF \E i \in DOMAIN ids : ids[i] = t
                     THEN [threads[t] EXCEPT !.pc = "gone", !.fd = Error]
                     ELSE threads[t]]
    /\ UNCHANGED <<arrived, accepted, arg, ids, connected_fds, total_threads,
                   sem, map, told, inHeap>>

----------------------------------------------------------------------------
(* The threads.                                                            *)

Goes(t, pc) == threads' = [threads EXCEPT ![t].pc = pc]

MutConstructor(t) ==
    /\ Running /\ threads[t].pc = "start"
    /\ threads' = [threads EXCEPT ![t].pc = "copy", ![t].late = sem = Removed]
    /\ sem' = IF sem = Removed THEN sem ELSE 1
    /\ UNCHANGED <<main, arrived, accepted, arg, ids, connected_fds,
                   total_threads, map, told, inHeap>>

MutConstructorWaits(t) ==
    /\ Running /\ threads[t].pc = "start" /\ sem # 0
    /\ threads' = [threads EXCEPT ![t].pc = "copy", ![t].late = sem = Removed]
    /\ UNCHANGED <<main, arrived, accepted, arg, ids, connected_fds,
                   total_threads, sem, map, told, inHeap>>

\* After the removal semget() makes a new semaphore, of value 0.
SEM_constructor_with_name(t) ==
    /\ Running /\ threads[t].pc = "start"
    /\ threads' = [threads EXCEPT ![t].pc = "copy", ![t].late = sem = Removed]
    /\ UNCHANGED <<main, arrived, accepted, arg, ids, connected_fds,
                   total_threads, sem, map, told, inHeap>>

CopyArg(t) ==
    /\ Running /\ threads[t].pc = "copy"
    /\ threads' = [threads EXCEPT ![t].pc = "read", ![t].fd = arg]
    /\ UNCHANGED <<main, arrived, accepted, arg, ids, connected_fds,
                   total_threads, sem, map, told, inHeap>>

\* A packet, or the end of the connection; reading from -1 is an error, over
\* and over.
Read(t) ==
    /\ Running /\ threads[t].pc = "read" /\ threads[t].fd # Error
    /\ Goes(t, "wait")
    /\ UNCHANGED <<main, arrived, accepted, arg, ids, connected_fds,
                   total_threads, sem, map, told, inHeap>>

\* On a semaphore that was removed semop() fails, which nothing looks at; the
\* new one stays 0.
SEM_wait(t) ==
    /\ Running /\ threads[t].pc = "wait" /\ ~threads[t].late
    /\ \/ sem = 1 /\ sem' = 0
       \/ sem = Removed /\ UNCHANGED sem
    /\ Goes(t, "handle")
    /\ UNCHANGED <<main, arrived, accepted, arg, ids, connected_fds,
                   total_threads, map, told, inHeap>>

\* A negative result leaves with the semaphore.
Finish(t) ==
    /\ Running /\ Handling(t)
    /\ \/ Goes(t, "read") /\ sem' = IF sem = Removed THEN sem ELSE 1
       \/ Goes(t, "gone") /\ UNCHANGED sem
    /\ UNCHANGED <<main, arrived, accepted, arg, ids, connected_fds,
                   total_threads, map, told, inHeap>>

\* A login or a search in a map that was freed may end the process.
UseFreed(t) ==
    /\ Running /\ Handling(t) /\ map = "free"
    /\ main' = "killed"
    /\ UNCHANGED <<arrived, accepted, arg, ids, connected_fds, total_threads,
                   threads, sem, map, told, inHeap>>

----------------------------------------------------------------------------
Connect ==
    /\ main \in Looping /\ arrived < Clients
    /\ arrived' = arrived + 1
    /\ UNCHANGED <<main, accepted, arg, ids, connected_fds, total_threads,
                   threads, sem, map, told, inHeap>>

MainSteps ==
    \/ Accept \/ Create \/ Store \/ Resize
    \/ NETWORK_broadcastLogout \/ STORAGE_deleteDatabase
    \/ NETWORK_stopAtreides \/ SEM_destructor \/ THREAD_deleteThreads

ThreadSteps(t) ==
    \/ SEM_constructor_with_name(t) \/ CopyArg(t) \/ Read(t) \/ SEM_wait(t)
    \/ Finish(t) \/ UseFreed(t)

Next ==
    \/ MainSteps \/ Interrupt \/ Connect
    \/ \E t \in Threads : ThreadSteps(t)

\* The scheduler lets every thread run; packets come when clients like.
Spec ==
    /\ Init /\ [][Next]_vars
    /\ WF_vars(MainSteps)
    /\ \A t \in Threads :
           WF_vars(SEM_constructor_with_name(t)) /\ WF_vars(CopyArg(t))

----------------------------------------------------------------------------
(* Properties.                                                             *)

Serves(t, c) == threads[t].fd = c /\ threads[t].pc # "gone"

\* "Dedicated server for a client" (thread.c:3): no two threads serve one.
DedicatedServer ==
    \A t, u \in Threads : t # u => ~ \E c \in 1..Clients :
        Serves(t, c) /\ Serves(u, c)

\* A thread never serves a client that came before its own: what it copies from
\* the shared argument is its own client or a later one, so that a client whose
\* argument was overwritten is the only one that goes without (Atreides.c:58-61,
\* thread.c:12).
ServesOwnOrLater ==
    \A t \in Threads :
        threads[t].fd \in 1..Clients => threads[t].fd >= t

\* The newest client gets a thread that reads from it, unless the argument is
\* overwritten or the server ends: neither a lost semaphore nor a handler keeps
\* a new thread from its connection (Atreides.c:60, thread.c:9-16).
NewestServed ==
    \A c \in 1..Clients :
        arg = c ~> \/ \E t \in Threads : threads[t].fd = c
                   \/ arg # c \/ main \notin Looping

\* The clients that a complete broadcast does not reach are at most the one
\* that was being set up when SIGINT came, and it had not been counted
\* (Atreides.c:14, :60-65).
ToldAtExit ==
    main \in Exiting \ {"broadcast"} =>
        \A c \in 1..accepted : c \in told \/ (c = accepted /\ c > total_threads)

\* The entry that each turn of the loop writes beyond the end of its array is
\* harmless for the first three clients: the blocks of the heap have room for it
\* (Atreides.c:51, :62-67).
FirstThreeSafe == main = "abort" => total_threads > 3

\* One handler at a time, whatever the loop and the shutdown do, until the
\* semaphore is removed; from then on threads of the shutdown may be in handlers
\* together (Atreides.c:17, thread.c:20).
ExclusiveUntilRemoved ==
    \A t, u \in Threads :
        t # u /\ Handling(t) /\ Handling(u) => sem = Removed

\* The shutdown ends the process, with threads in handlers and with the
\* semaphore lost, unless SIGINT came while the heap was locked
\* (Atreides.c:12-21).
ExitEnds == main = "broadcast" /\ ~inHeap ~> ~Running
=============================================================================
