-------------------------- MODULE AcceptLoopProofs --------------------------
(***************************************************************************)
(* Proofs about AcceptLoop, for any number of clients, of descriptors and  *)
(* of threads, and SIGINT at any step.                                     *)
(***************************************************************************)
EXTENDS AcceptLoop, TLAPS

\* The loop knows its place: how many clients were accepted, threads created
\* and entries written.  Once accept() has failed it fails for ever.
LoopCounts ==
    /\ main \in {"create", "store"} => total_threads < MaxThreads
    /\ main \in {"create", "store"} => arg # NotYet
    /\ \A t \in Threads :
          threads[t].pc # "none" =>
              t <= total_threads + (IF main \in {"accept", "create", "resize"}
                                    THEN 0 ELSE 1)
    /\ accepted <= total_threads + 1
    /\ main \in {"accept", "resize"} => accepted <= total_threads
    /\ main = "resize" => total_threads > 0
    /\ arg # Error =>
          /\ arg = accepted
          /\ \A t \in Threads : threads[t].pc # "none" => t <= accepted
          /\ main \in {"accept", "resize"} => accepted = total_threads
          /\ main \in {"create", "store"} => accepted = total_threads + 1
          /\ total_threads <= accepted
    /\ arg = Error => accepted = Descriptors /\ accepted <= total_threads
    /\ arg = NotYet => \A t \in Threads : threads[t].pc = "none"
    /\ \A c \in 1..accepted : c <= total_threads => connected_fds[c] = c
    /\ \A i \in DOMAIN ids : ids[i] <= total_threads

\* Threads in handlers hold the semaphore as long as there is one, and a thread
\* that came after the removal is in none.
Guarded ==
    /\ ExclusiveUntilRemoved
    /\ \A t \in Threads : Handling(t) => sem \in {0, Removed}
    /\ \A t \in Threads : threads[t].late => sem = Removed /\ ~Handling(t)

LoopIInv ==
    /\ TypeOK /\ LoopCounts /\ Guarded
    /\ ServesOwnOrLater /\ ToldAtExit /\ FirstThreeSafe

----------------------------------------------------------------------------
ThreadStates ==
    [pc : {"none", "start", "copy", "read", "wait", "handle", "gone"},
     fd : Fds, late : BOOLEAN]

\* An entry written at the end of an array leaves the others alone.
LEMMA AppendEntry ==
    ASSUME NEW S, NEW s \in Seq(S), NEW e \in S
    PROVE  /\ Append(s, e) \in Seq(S)
           /\ Len(Append(s, e)) = Len(s) + 1
           /\ DOMAIN Append(s, e) = 1..(Len(s) + 1)
           /\ \A i \in 1..Len(s) : Append(s, e)[i] = s[i]
           /\ Append(s, e)[Len(s) + 1] = e
  OBVIOUS

\* Every step keeps the types.
LEMMA LoopTypes ==
    ASSUME TypeOK, LoopCounts, Next
    PROVE  TypeOK'
<1> USE BoundsAssumption
    DEF TypeOK, LoopCounts, Looping, Exiting, Over, Fds, Error, NotYet, Removed,
           Threads
<1>ty. \A t \in Threads : /\ threads[t] \in ThreadStates
                          /\ DOMAIN threads = Threads
  BY DEF ThreadStates
<1>1. CASE Accept
  BY <1>1 DEF Accept
<1>2. CASE Create
  <2>1. /\ total_threads + 1 \in Threads
        /\ threads[total_threads + 1].pc = "none"
    BY <1>2 DEF Create
  <2>2. threads' \in [Threads -> ThreadStates]
    BY <1>2, <1>ty, <2>1 DEF Create, ThreadStates
  <2>3. \A t \in Threads :
          threads'[t].fd = NotYet <=> threads'[t].pc \in {"none", "start", "copy"}
    BY <1>2, <2>1 DEF Create
  <2> QED BY <1>2, <2>2, <2>3 DEF Create, ThreadStates
<1>3. CASE Store
  BY <1>3 DEF Store
<1>4. CASE Resize
  BY <1>4 DEF Resize
<1>5. CASE NETWORK_broadcastLogout
  BY <1>5 DEF NETWORK_broadcastLogout
<1>6. CASE STORAGE_deleteDatabase
  BY <1>6 DEF STORAGE_deleteDatabase
<1>7. CASE NETWORK_stopAtreides
  BY <1>7 DEF NETWORK_stopAtreides
<1>8. CASE SEM_destructor
  BY <1>8 DEF SEM_destructor
<1>9. CASE THREAD_deleteThreads
  <2>1. \A t \in Threads : [threads[t] EXCEPT !.pc = "gone", !.fd = Error]
                            \in ThreadStates
    <3>1. ASSUME NEW r \in ThreadStates
          PROVE  [r EXCEPT !.pc = "gone", !.fd = Error] \in ThreadStates
      BY Error \in Fds DEF ThreadStates
    <3> QED BY <1>ty, <3>1
  <2>2. threads' \in [Threads -> ThreadStates]
    BY <1>9, <1>ty, <2>1 DEF THREAD_deleteThreads
  <2>3. \A t \in Threads :
          \/ threads'[t] = threads[t]
          \/ threads'[t].pc = "gone" /\ threads'[t].fd = Error
    BY <1>9, <1>ty DEF THREAD_deleteThreads, ThreadStates
  <2>4. \A t \in Threads :
          threads'[t].fd = NotYet <=> threads'[t].pc \in {"none", "start", "copy"}
    BY <2>3
  <2> QED BY <1>9, <2>2, <2>4 DEF THREAD_deleteThreads, ThreadStates
<1>10. CASE Interrupt
  BY <1>10 DEF Interrupt
<1>11. CASE Connect
  BY <1>11 DEF Connect
<1>12. ASSUME NEW t \in Threads, SEM_constructor_with_name(t) PROVE TypeOK'
  <2>1. threads' \in [Threads -> ThreadStates]
    <3>1. /\ threads[t].fd \in Fds
          /\ (sem = Removed) \in BOOLEAN
      BY <1>ty DEF ThreadStates
    <3>2. [threads[t] EXCEPT !.pc = "copy", !.late = (sem = Removed)]
            \in ThreadStates
      BY <1>ty, <3>1 DEF ThreadStates
    <3>3. threads' = [threads EXCEPT ![t] =
                        [@ EXCEPT !.pc = "copy", !.late = (sem = Removed)]]
      BY <1>12, <1>ty DEF SEM_constructor_with_name, ThreadStates
    <3> QED BY <3>2, <3>3, <1>ty
  <2>2. \A v \in Threads :
          threads'[v].fd = NotYet <=> threads'[v].pc \in {"none", "start", "copy"}
    BY <1>12 DEF SEM_constructor_with_name
  <2> QED BY <1>12, <2>1, <2>2 DEF SEM_constructor_with_name, ThreadStates
<1>13. ASSUME NEW t \in Threads, CopyArg(t) PROVE TypeOK'
  BY <1>13 DEF CopyArg
<1>14. ASSUME NEW t \in Threads, Read(t) PROVE TypeOK'
  BY <1>14 DEF Read, Goes, Handling
<1>15. ASSUME NEW t \in Threads, SEM_wait(t) PROVE TypeOK'
  BY <1>15 DEF SEM_wait, Goes, Handling
<1>16. ASSUME NEW t \in Threads, Finish(t) PROVE TypeOK'
  <2>1. sem' \in {0, 1, Removed}
    BY <1>16 DEF Finish
  <2>2. ASSUME NEW l \in {"read", "gone"}, Goes(t, l) PROVE TypeOK'
    BY <1>16, <2>1, <2>2 DEF Finish, Goes, Handling
  <2> QED BY <1>16, <2>2 DEF Finish
<1>17. ASSUME NEW t \in Threads, UseFreed(t) PROVE TypeOK'
  BY <1>17 DEF UseFreed, Goes, Handling
<1> QED
  BY <1>1, <1>2, <1>3, <1>4, <1>5, <1>6, <1>7, <1>8, <1>9, <1>10, <1>11,
     <1>12, <1>13, <1>14, <1>15, <1>16, <1>17
  DEF Next, MainSteps, ThreadSteps

\* Every step keeps the counts of the loop.
LEMMA LoopKeepsCounts ==
    ASSUME TypeOK, LoopCounts, Next
    PROVE  LoopCounts'
<1> USE BoundsAssumption
    DEF TypeOK, LoopCounts, Looping, Exiting, Over, Fds, Error, NotYet, Removed,
           Threads
<1>1. CASE Accept
  BY <1>1 DEF Accept
<1>2. CASE Create
  BY <1>2 DEF Create
<1>3. CASE Store
  <2>1. /\ \A i \in 1..total_threads : connected_fds'[i] = connected_fds[i]
        /\ connected_fds'[total_threads + 1] = arg
    <3>1. arg \in Fds \ {NotYet}
      BY <1>3 DEF Store
    <3> QED BY <1>3, <3>1, AppendEntry DEF Store
  <2>4. \A i \in DOMAIN ids' : ids'[i] <= total_threads'
    <3>1. total_threads + 1 \in Threads
      BY <1>3 DEF Store
    <3>2. /\ DOMAIN ids' = 1..(total_threads + 1)
          /\ \A i \in 1..total_threads : ids'[i] = ids[i]
          /\ ids'[total_threads + 1] = total_threads + 1
      BY <1>3, <3>1, AppendEntry DEF Store
    <3>3. \A i \in 1..total_threads : ids[i] <= total_threads
      <4>1. DOMAIN ids = 1..total_threads
        OBVIOUS
      <4> QED BY <4>1
    <3> QED BY <1>3, <3>1, <3>2, <3>3 DEF Store
  <2>2. \A c \in 1..accepted' :
          c <= total_threads' => connected_fds'[c] = c
    <3>1. \A c \in 1..accepted : c <= total_threads => connected_fds'[c] = c
      BY <2>1
    <3>2. total_threads + 1 <= accepted => arg = total_threads + 1
      BY <1>3 DEF Store
    <3> QED BY <1>3, <2>1, <3>1, <3>2 DEF Store
  <2>3. \A t \in Threads : threads'[t].pc # "none" => t <= total_threads'
    BY <1>3 DEF Store
  <2>5. /\ main = "store" /\ main' = "resize"
        /\ total_threads' = total_threads + 1
        /\ UNCHANGED <<accepted, arg, threads>>
    BY <1>3 DEF Store
  <2>6. arg' # Error =>
          /\ arg' = accepted'
          /\ \A t \in Threads : threads'[t].pc # "none" => t <= accepted'
          /\ accepted' = total_threads'
    BY <2>5
  <2>7. accepted' <= total_threads' /\ total_threads' > 0
    BY <2>5
  <2>8. arg' # NotYet /\ (arg' = Error => /\ accepted' = Descriptors
                                                   /\ accepted' <= total_threads')
    BY <2>5
  <2> HIDE DEF TypeOK
  <2>9. total_threads' \in Nat /\ accepted' \in Nat
    BY <2>5 DEF TypeOK
  <2> QED BY <2>2, <2>3, <2>4, <2>5, <2>6, <2>7, <2>8, <2>9
<1>4. CASE Resize
  BY <1>4 DEF Resize
<1>5. CASE NETWORK_broadcastLogout
  BY <1>5 DEF NETWORK_broadcastLogout
<1>6. CASE STORAGE_deleteDatabase
  BY <1>6 DEF STORAGE_deleteDatabase
<1>7. CASE NETWORK_stopAtreides
  BY <1>7 DEF NETWORK_stopAtreides
<1>8. CASE SEM_destructor
  BY <1>8 DEF SEM_destructor
<1>9. CASE THREAD_deleteThreads
  <2>1. \A t \in Threads :
          threads'[t].pc # "none" =>
              threads[t].pc # "none" \/ (t <= total_threads /\ total_threads > 0)
    <3>1. \A t \in Threads : (\E i \in DOMAIN ids : ids[i] = t) =>
            t <= total_threads /\ total_threads > 0
      OBVIOUS
    <3> QED BY <1>9, <3>1 DEF THREAD_deleteThreads
  <2>2. /\ main' = "exit"
        /\ UNCHANGED <<accepted, arg, ids, connected_fds, total_threads>>
    BY <1>9 DEF THREAD_deleteThreads
  <2>3. \A t \in Threads : threads'[t].pc # "none" => t <= total_threads + 1
    <3>1. main = "cancel"
      BY <1>9 DEF THREAD_deleteThreads
    <3>2. \A t \in Threads : threads[t].pc # "none" => t <= total_threads + 1
      BY <3>1
    <3> HIDE DEF TypeOK, LoopCounts
    <3>3. total_threads \in Nat
      BY DEF TypeOK
    <3> QED BY <2>1, <3>2, <3>3
  <2>4. arg # Error =>
          \A t \in Threads : threads'[t].pc # "none" => t <= accepted
    BY <2>1
  <2>5. arg = NotYet => \A t \in Threads : threads'[t].pc = "none"
    BY <2>1
  <2>6. \A i \in DOMAIN ids' : ids'[i] <= total_threads'
    BY <2>2
  <2>10. accepted \in Nat /\ total_threads \in Nat
    OBVIOUS
  <2>7. \A c \in 1..accepted' : c <= total_threads' => connected_fds'[c] = c
    BY <2>2
  <2>8. arg' # Error => arg' = accepted' /\ total_threads' <= accepted'
    BY <2>2
  <2>9. accepted' <= total_threads' + 1 /\ (arg' = Error => /\ accepted' = Descriptors
                                                   /\ accepted' <= total_threads')
    BY <2>2
  <2> HIDE DEF TypeOK
  <2> QED BY <2>2, <2>3, <2>4, <2>5, <2>6, <2>7, <2>8, <2>9, <2>10
<1>10. CASE Interrupt
  BY <1>10 DEF Interrupt
<1>11. CASE Connect
  BY <1>11 DEF Connect
<1>12. ASSUME NEW t \in Threads, SEM_constructor_with_name(t) PROVE LoopCounts'
  BY <1>12 DEF SEM_constructor_with_name
<1>13. ASSUME NEW t \in Threads, CopyArg(t) PROVE LoopCounts'
  BY <1>13 DEF CopyArg
<1>14. ASSUME NEW t \in Threads, Read(t) PROVE LoopCounts'
  BY <1>14 DEF Read, Goes, Handling
<1>15. ASSUME NEW t \in Threads, SEM_wait(t) PROVE LoopCounts'
  BY <1>15 DEF SEM_wait, Goes, Handling
<1>16. ASSUME NEW t \in Threads, Finish(t) PROVE LoopCounts'
  BY <1>16 DEF Finish, Goes, Handling
<1>17. ASSUME NEW t \in Threads, UseFreed(t) PROVE LoopCounts'
  BY <1>17 DEF UseFreed, Goes, Handling
<1> QED
  BY <1>1, <1>2, <1>3, <1>4, <1>5, <1>6, <1>7, <1>8, <1>9, <1>10, <1>11,
     <1>12, <1>13, <1>14, <1>15, <1>16, <1>17
  DEF Next, MainSteps, ThreadSteps

\* Every step keeps the semaphore with the threads in handlers, and late threads
\* out of them.
LEMMA LoopKeepsGuard ==
    ASSUME TypeOK, LoopCounts, Guarded, Next
    PROVE  Guarded'
<1> USE DEF Guarded, ExclusiveUntilRemoved, Handling, Removed
<1>ty. /\ DOMAIN threads = Threads /\ threads \in [Threads -> ThreadStates]
       /\ sem \in {0, 1, Removed}
  BY DEF TypeOK, ThreadStates
<1>0. ASSUME UNCHANGED <<threads, sem>> PROVE Guarded'
  BY <1>0
<1>1. CASE Accept \/ Store \/ Resize \/ NETWORK_broadcastLogout \/ Interrupt
           \/ STORAGE_deleteDatabase \/ NETWORK_stopAtreides \/ Connect
  BY <1>0, <1>1 DEF Accept, Store, Resize, NETWORK_broadcastLogout, Interrupt,
                    STORAGE_deleteDatabase, NETWORK_stopAtreides, Connect
<1>2. CASE Create
  <2>1. /\ \A t \in Threads : threads'[t].late = threads[t].late
        /\ \A t \in Threads : threads'[t].pc = "handle" => threads[t].pc = "handle"
        /\ sem' = sem
    BY <1>2, <1>ty DEF Create, ThreadStates
  <2> QED BY <2>1
<1>3. CASE SEM_destructor
  BY <1>3 DEF SEM_destructor
<1>4. CASE THREAD_deleteThreads
  <2>1. /\ \A t \in Threads : threads'[t].late = threads[t].late
        /\ \A t \in Threads : threads'[t].pc = "handle" => threads[t].pc = "handle"
        /\ sem' = sem
    BY <1>4, <1>ty DEF THREAD_deleteThreads, ThreadStates
  <2> QED BY <2>1
<1>5. ASSUME NEW t \in Threads,
             SEM_constructor_with_name(t) \/ CopyArg(t) \/ Read(t)
      PROVE  Guarded'
  <2>1. /\ \A u \in Threads : threads'[u].late => threads[u].late \/ sem = Removed
        /\ \A u \in Threads :
             threads'[u].pc = "handle" => threads[u].pc = "handle" /\ u # t
        /\ threads'[t].pc # "handle"
        /\ \A u \in Threads : u # t => threads'[u] = threads[u]
        /\ sem' = sem
    BY <1>5, <1>ty DEF SEM_constructor_with_name, CopyArg, Read, Goes,
       ThreadStates
  <2> QED BY <2>1
<1>6. ASSUME NEW t \in Threads, SEM_wait(t) PROVE Guarded'
  <2>1. /\ \A u \in Threads : threads'[u].late = threads[u].late
        /\ ~threads[t].late
        /\ \A u \in Threads : u # t => threads'[u] = threads[u]
        /\ \/ sem = 1 /\ sem' = 0
           \/ sem = Removed /\ sem' = Removed
    BY <1>6, <1>ty DEF SEM_wait, Goes, ThreadStates
  <2>2. sem = 1 => \A u \in Threads : threads[u].pc # "handle"
    OBVIOUS
  <2> QED BY <2>1, <2>2
<1>7. ASSUME NEW t \in Threads, Finish(t) PROVE Guarded'
  <2>1. /\ \A u \in Threads : threads'[u].late = threads[u].late
        /\ threads[t].pc = "handle" /\ threads'[t].pc # "handle"
        /\ \A u \in Threads : u # t => threads'[u] = threads[u]
        /\ sem' = sem \/ (sem # Removed /\ sem' = 1)
    BY <1>7, <1>ty DEF Finish, Goes, ThreadStates
  <2> QED BY <2>1
<1>8. ASSUME NEW t \in Threads, UseFreed(t) PROVE Guarded'
  BY <1>0, <1>8 DEF UseFreed
<1> QED
  BY <1>1, <1>2, <1>3, <1>4, <1>5, <1>6, <1>7, <1>8
  DEF Next, MainSteps, ThreadSteps

\* What a thread copies is its own client's descriptor or a later one.
LEMMA LoopKeepsService ==
    ASSUME TypeOK, LoopCounts, ServesOwnOrLater, Next
    PROVE  ServesOwnOrLater'
<1> USE DEF ServesOwnOrLater
<1>ty. /\ DOMAIN threads = Threads /\ threads \in [Threads -> ThreadStates]
       /\ Clients \in Nat
  BY BoundsAssumption DEF TypeOK, ThreadStates
<1>0. ASSUME \A t \in Threads :
               threads'[t].fd = threads[t].fd \/ threads'[t].fd = Error
      PROVE  ServesOwnOrLater'
  BY <1>0 DEF Error
<1>1. CASE UNCHANGED threads
  BY <1>0, <1>1
<1>2. CASE Create
  BY <1>0, <1>2, <1>ty DEF Create, ThreadStates
<1>3. CASE THREAD_deleteThreads
  <2>1. \A t \in Threads :
          \/ threads'[t] = threads[t]
          \/ threads'[t] = [threads[t] EXCEPT !.pc = "gone", !.fd = Error]
    BY <1>3 DEF THREAD_deleteThreads
  <2>2. \A t \in Threads :
          [threads[t] EXCEPT !.pc = "gone", !.fd = Error].fd = Error
    <3>1. \A r \in ThreadStates :
            [r EXCEPT !.pc = "gone", !.fd = Error].fd = Error
      BY DEF ThreadStates
    <3> QED BY <3>1, <1>ty
  <2>3. \A t \in Threads :
          threads'[t].fd = threads[t].fd \/ threads'[t].fd = Error
    BY <2>1, <2>2
  <2> QED BY <2>3, <1>0
<1>4. ASSUME NEW t \in Threads,
             \/ SEM_constructor_with_name(t) \/ Read(t) \/ SEM_wait(t)
             \/ Finish(t)
      PROVE  ServesOwnOrLater'
  <2>1. ASSUME NEW l, Goes(t, l) PROVE ServesOwnOrLater'
    BY <1>0, <2>1, <1>ty DEF Goes, ThreadStates
  <2>2. CASE SEM_constructor_with_name(t)
    BY <1>0, <2>2, <1>ty DEF SEM_constructor_with_name, ThreadStates
  <2> QED BY <1>4, <2>1, <2>2 DEF Read, SEM_wait, Finish
<1>5. ASSUME NEW t \in Threads, CopyArg(t) PROVE ServesOwnOrLater'
  <2>1. /\ threads[t].pc = "copy" /\ threads'[t].fd = arg
        /\ \A u \in Threads : u # t => threads'[u] = threads[u]
    BY <1>5, <1>ty DEF CopyArg, ThreadStates
  <2>2. arg \in 1..Clients => arg = accepted /\ t <= accepted
    BY <2>1, <1>ty DEF LoopCounts, Error
  <2> QED BY <2>1, <2>2
<1> QED
  BY <1>1, <1>2, <1>3, <1>4, <1>5
  DEF Next, MainSteps, ThreadSteps, Accept, Store, Resize, Interrupt, Connect,
      NETWORK_broadcastLogout, STORAGE_deleteDatabase, NETWORK_stopAtreides,
      SEM_destructor, UseFreed

\* The broadcast goes over every entry written, in which the client accepted
\* last may be missing.
LEMMA LoopKeepsTold ==
    ASSUME TypeOK, LoopCounts, ToldAtExit, Next
    PROVE  ToldAtExit'
<1> USE DEF ToldAtExit, Exiting, Looping
<1>ty. /\ accepted \in Nat /\ total_threads \in Nat
       /\ accepted <= total_threads + 1
       /\ \A c \in 1..accepted : c <= total_threads => connected_fds[c] = c
  BY BoundsAssumption DEF TypeOK, LoopCounts
<1>1. CASE Accept \/ Create \/ Store \/ Resize \/ Interrupt
  BY <1>1 DEF Accept, Create, Store, Resize, Interrupt
<1>2. CASE NETWORK_broadcastLogout
  <2>1. PICK n \in 0..total_threads :
          /\ told' = {connected_fds[i] : i \in 1..n}
          /\ main' = IF n = total_threads THEN "free" ELSE "killed"
    BY <1>2 DEF NETWORK_broadcastLogout
  <2>2. accepted' = accepted /\ total_threads' = total_threads
    BY <1>2 DEF NETWORK_broadcastLogout
  <2>3. CASE n # total_threads
    BY <2>1, <2>3
  <2>4. CASE n = total_threads
    <3>1. \A c \in 1..accepted : c <= total_threads => c \in told'
      BY <2>1, <2>4, <1>ty
    <3>2. \A c \in 1..accepted : c \in told' \/ (c = accepted /\ c > total_threads)
      BY <3>1, <1>ty
    <3> QED BY <3>2, <2>2
  <2> QED BY <2>3, <2>4
<1>3. CASE \/ STORAGE_deleteDatabase \/ NETWORK_stopAtreides \/ SEM_destructor
           \/ THREAD_deleteThreads
  BY <1>3 DEF STORAGE_deleteDatabase, NETWORK_stopAtreides, SEM_destructor,
              THREAD_deleteThreads
<1>4. CASE UNCHANGED <<main, accepted, told, total_threads>>
  BY <1>4
<1>5. ASSUME NEW t \in Threads, UseFreed(t) PROVE ToldAtExit'
  BY <1>5 DEF UseFreed
<1> QED
  BY <1>1, <1>2, <1>3, <1>4, <1>5
  DEF Next, MainSteps, ThreadSteps, Connect, SEM_constructor_with_name, CopyArg,
      Read, SEM_wait, Finish

\* The blocks that malloc() returns have room for the entry that is written
\* beyond their end, for as long as they hold at most two.
LEMMA RoomForThree ==
    ASSUME NEW n \in {1, 2, 3}
    PROVE  n <= Usable(Capacity(n - 1), PthreadSize)
<1>1. CASE n = 1 \/ n = 2
  BY <1>1 DEF Usable, Capacity, PthreadSize
<1>2. CASE n = 3
  BY <1>2 DEF Usable, Capacity, PthreadSize
<1> QED BY <1>1, <1>2

\* Each turn of the loop that ends the process found no room in its block.
LEMMA LoopKeepsSafe ==
    ASSUME TypeOK, LoopCounts, FirstThreeSafe, Next
    PROVE  FirstThreeSafe'
<1>ty. total_threads \in Nat
  BY BoundsAssumption DEF TypeOK
<1>1. CASE Resize
  <2>1. CASE main' = "accept"
    BY <2>1 DEF FirstThreeSafe
  <2>2. CASE total_threads > Usable(Capacity(total_threads - 1), PthreadSize)
    <3>1. total_threads > 0
      BY <1>1 DEF Resize, LoopCounts
    <3>2. Usable(Capacity(total_threads - 1), PthreadSize) \in Int
      BY <1>ty, <3>1 DEF Usable, Capacity, PthreadSize
    <3>3. total_threads \notin {1, 2, 3}
      <4>1. ASSUME total_threads \in {1, 2, 3} PROVE FALSE
        BY <4>1, <2>2, <3>2, RoomForThree
      <4> QED BY <4>1
    <3>4. total_threads > 3
      BY <3>1, <3>3, <1>ty
    <3> QED BY <1>1, <3>4 DEF Resize, FirstThreeSafe
  <2> QED BY <1>1, <2>1, <2>2 DEF Resize
<1>2. CASE UNCHANGED <<main, total_threads>>
  BY <1>2 DEF FirstThreeSafe
<1>3. CASE main' # "abort"
  BY <1>3 DEF FirstThreeSafe
<1> QED
  BY <1>1, <1>2, <1>3
  DEF Next, MainSteps, ThreadSteps, Accept, Create, Store, Interrupt, Connect,
      NETWORK_broadcastLogout, STORAGE_deleteDatabase, NETWORK_stopAtreides,
      SEM_destructor, THREAD_deleteThreads, SEM_constructor_with_name, CopyArg,
      Read, SEM_wait, Finish, UseFreed

----------------------------------------------------------------------------
\* Nobody has connected, and no thread runs.
LEMMA LoopInit == Init => LoopIInv
<1> SUFFICES ASSUME Init PROVE LoopIInv
  OBVIOUS
<1> USE BoundsAssumption DEF Init
<1>1. TypeOK
  <2>1. /\ ids \in Seq(Threads) /\ Len(ids) = 0
        /\ connected_fds \in Seq(Fds \ {NotYet}) /\ Len(connected_fds) = 0
    OBVIOUS
  <2>2. threads \in [Threads -> ThreadStates]
    BY DEF ThreadStates, Fds
  <2>3. \A t \in Threads :
          threads[t].fd = NotYet <=> threads[t].pc \in {"none", "start", "copy"}
    OBVIOUS
  <2>4. main \in Looping /\ arg \in Fds
    BY DEF Looping, Fds
  <2>5. /\ accepted \in 0..arrived /\ arrived \in 0..Clients
        /\ Len(ids) = total_threads /\ Len(connected_fds) = total_threads
        /\ total_threads \in 0..MaxThreads
    BY <2>1
  <2>6. /\ sem \in {0, 1, Removed} /\ map \in {"loaded", "free"}
        /\ told \subseteq Fds /\ inHeap \in BOOLEAN
    OBVIOUS
  <2> HIDE DEF Init
  <2> QED BY <2>1, <2>2, <2>3, <2>4, <2>5, <2>6 DEF TypeOK, ThreadStates
<1>2. LoopCounts
  BY DEF LoopCounts, Error, NotYet, Threads
<1>3. Guarded
  BY DEF Guarded, ExclusiveUntilRemoved, Handling, Removed
<1>4. ServesOwnOrLater
  BY DEF ServesOwnOrLater, NotYet
<1>5. ToldAtExit /\ FirstThreeSafe
  BY DEF ToldAtExit, FirstThreeSafe, Exiting
<1> QED BY <1>1, <1>2, <1>3, <1>4, <1>5 DEF LoopIInv

\* A step that changes nothing keeps everything.
LEMMA LoopStutter ==
    ASSUME LoopIInv, UNCHANGED vars
    PROVE  LoopIInv'
<1> USE DEF vars, LoopIInv
<1>1. TypeOK'
  BY DEF TypeOK
<1>2. LoopCounts'
  BY DEF LoopCounts
<1>3. Guarded'
  BY DEF Guarded, ExclusiveUntilRemoved, Handling
<1>4. ServesOwnOrLater' /\ ToldAtExit' /\ FirstThreeSafe'
  BY DEF ServesOwnOrLater, ToldAtExit, FirstThreeSafe
<1> QED BY <1>1, <1>2, <1>3, <1>4

\* What the loop, the threads and the shutdown keep, in every behaviour.
THEOREM LoopInvariant == Spec => []LoopIInv
<1>1. LoopIInv /\ [Next]_vars => LoopIInv'
  <2> SUFFICES ASSUME LoopIInv, [Next]_vars PROVE LoopIInv'
    OBVIOUS
  <2>1. CASE Next
    BY <2>1, LoopTypes, LoopKeepsCounts, LoopKeepsGuard, LoopKeepsService,
       LoopKeepsTold, LoopKeepsSafe
    DEF LoopIInv
  <2> QED BY <2>1, LoopStutter
<1> QED BY <1>1, LoopInit, PTL DEF Spec

\* The types of the accept loop (Atreides.c:8-70, thread.c).
THEOREM AcceptLoopTypes == Spec => []TypeOK
<1>1. LoopIInv => TypeOK
  BY DEF LoopIInv
<1> QED BY <1>1, LoopInvariant, PTL

\* No thread ever copies the descriptor of a client that came before its own,
\* whatever the loop writes to the shared argument and whenever the thread runs
\* (Atreides.c:58-61, thread.c:12).
THEOREM OwnOrLater == Spec => []ServesOwnOrLater
<1>1. LoopIInv => ServesOwnOrLater
  BY DEF LoopIInv
<1> QED BY <1>1, LoopInvariant, PTL

\* Handlers exclude each other until SIGINT has removed the semaphore
\* (Atreides.c:17, thread.c:20).
THEOREM Exclusive == Spec => []ExclusiveUntilRemoved
<1>1. LoopIInv => ExclusiveUntilRemoved
  BY DEF LoopIInv, Guarded, ExclusiveUntilRemoved
<1> QED BY <1>1, LoopInvariant, PTL

\* A broadcast that comes to its end has told every client but at most the one
\* that was being set up (Atreides.c:14, :60-65).
THEOREM ExitTellsAll == Spec => []ToldAtExit
<1>1. LoopIInv => ToldAtExit
  BY DEF LoopIInv
<1> QED BY <1>1, LoopInvariant, PTL

\* The write beyond the arrays' end cannot end the process before the fourth
\* thread (Atreides.c:51, :62-67).
THEOREM FirstThree == Spec => []FirstThreeSafe
<1>1. LoopIInv => FirstThreeSafe
  BY DEF LoopIInv
<1> QED BY <1>1, LoopInvariant, PTL
=============================================================================
