------------------------------- MODULE Fremen -------------------------------
(***************************************************************************)
(* The Fremens of one host: the main loop (Fremen.c), the cleanup thread   *)
(* (thread.c), the history (CommandBuffer), and the System V semaphore,    *)
(* one for all of them, since they take its key from the same file.        *)
(*                                                                         *)
(* A process is a number, given in the order of their start as the kernel  *)
(* does.  A command that is no program of the host leaves a second Fremen: *)
(* the child goes on in the loop while its parent waits for it.            *)
(***************************************************************************)
EXTENDS Integers, Sequences, FiniteSets, CommandBuffer

CONSTANTS
    Processes,          \* processes of the host
    MaxWork,            \* bound: lines typed, a start counting as two
    Names,              \* commands, of those below
    MaxIndex            \* bound: index of `last`

ASSUME ProcessesAssumption ==
    /\ Processes \in Nat /\ MaxWork \in Nat /\ MaxIndex \in Nat
    /\ Names \subseteq {"login", "search", "showbuffer", "unknown"}

Pids == 1..Processes
NoPid == 0

VARIABLES
    pc,                 \* the main thread of each process
    cleaner,            \* its cleanup thread
    parent,             \* the process that forked it, or NoPid
    hist,               \* its history
    connected,
    holding,            \* what the parent in wait() will store, and if it is
                        \* to move the cursor to the tail
    made,               \* a semaphore exists
    knows,              \* the processes whose shmid is the one that exists
    val, adj,           \* its value, and what SEM_UNDO adds at the end of each
                        \* process
    screen,             \* what showbuffer printed, the commands since before it
    started, blanks, lines,
    zeroed,             \* a cleanup thread made a set, of value 0
    root,               \* history: the Fremen that was started, and forked this
                        \* process or one that forked it
    broken              \* history: the roots of the families that lost one from
                        \* between two others

semaphore == <<made, knows, val, adj, zeroed>>
counters == <<started, blanks, lines>>
families == <<root, broken>>
vars == <<pc, cleaner, parent, hist, connected, holding, semaphore, screen,
          counters, families>>

Alive(p) == pc[p] \notin {"none", "gone"}
Unused == {p \in Pids : pc[p] = "none"}
MayWork(n) == 2 * started + blanks + lines + n <= MaxWork
Smallest(S) == CHOOSE p \in S : \A q \in S : p <= q

TypeOK ==
    /\ pc \in [Pids -> {"none", "prompt", "read", "child", "gone"}]
    /\ cleaner \in [Pids -> {"none", "start", "sleep", "clean"}]
    /\ parent \in [Pids -> Pids \cup {NoPid}]
    /\ \A p \in Pids : LET list == hist[p].list IN
           /\ list.elements \in Seq(Names) /\ Len(list.elements) <= lines
           /\ hist[p].used = (list.elements # <<>>)
    /\ connected \in [Pids -> BOOLEAN]
    /\ \A p \in Pids : holding[p].command \in Names \cup {"none"}
    /\ made \in BOOLEAN
    /\ knows \subseteq {p \in Pids : Alive(p)} /\ (knows # {} => made)
    /\ val \in 0..(2 + 2 * Processes)
    /\ \A p \in Pids : adj[p] \in -2..(blanks + 2)
    /\ \A p \in Pids : screen[p] \in Seq(Names)
    /\ started \in Nat /\ blanks \in Nat /\ lines \in Nat
    /\ 2 * started + blanks + lines <= MaxWork
    /\ zeroed \in BOOLEAN
    /\ root \in [Pids -> Pids \cup {NoPid}] /\ broken \subseteq Pids

Nothing == [command |-> "none", tail |-> FALSE]

Init ==
    /\ pc = [p \in Pids |-> "none"]
    /\ cleaner = [p \in Pids |-> "none"]
    /\ parent = [p \in Pids |-> NoPid]
    /\ hist = [p \in Pids |-> NoHistory]
    /\ connected = [p \in Pids |-> FALSE]
    /\ holding = [p \in Pids |-> Nothing]
    /\ made = FALSE /\ knows = {}
    /\ val = 0 /\ adj = [p \in Pids |-> 0]
    /\ screen = [p \in Pids |-> <<>>]
    /\ started = 0 /\ blanks = 0 /\ lines = 0
    /\ zeroed = FALSE
    /\ root = [p \in Pids |-> NoPid] /\ broken = {}

----------------------------------------------------------------------------
(* The semaphore.                                                          *)

\* A set that was removed makes semop() fail, which nothing looks at.
SEM_wait(p) ==
    /\ \/ /\ p \in knows /\ val > 0
          /\ val' = val - 1
          /\ adj' = [adj EXCEPT ![p] = @ + 1]
       \/ /\ p \notin knows
          /\ UNCHANGED <<val, adj>>
    /\ UNCHANGED <<made, knows, zeroed>>

SEM_signal(p) ==
    /\ val' = IF p \in knows THEN val + 1 ELSE val
    /\ adj' = IF p \in knows THEN [adj EXCEPT ![p] = @ - 1] ELSE adj
    /\ UNCHANGED <<made, knows, zeroed>>

\* The kernel undoes at the end of a process.
Undo(p) ==
    /\ val' = IF val + adj[p] < 0 THEN 0 ELSE val + adj[p]
    /\ adj' = [adj EXCEPT ![p] = 0]
    /\ knows' = knows \ {p}
    /\ UNCHANGED <<made, zeroed>>

SEM_destructor(p) ==
    IF p \in knows
    THEN /\ made' = FALSE /\ knows' = {}
         /\ val' = 0 /\ adj' = [q \in Pids |-> 0]
         /\ UNCHANGED zeroed
    ELSE Undo(p)

----------------------------------------------------------------------------
(* The loop.                                                               *)

MutStart ==
    /\ MayWork(2) /\ Unused # {}
    /\ LET p == Smallest(Unused)
       IN  /\ made' = TRUE /\ knows' = knows \cup {p}
           /\ val' = 1
           /\ adj' = [q \in Pids |-> 0]
           /\ pc' = [pc EXCEPT ![p] = "prompt"]
           /\ cleaner' = [cleaner EXCEPT ![p] = "start"]
           /\ root' = [root EXCEPT ![p] = p]
    /\ started' = started + 1
    /\ UNCHANGED <<parent, hist, connected, holding, screen, blanks, lines,
                   zeroed, broken>>

\* semget() makes a set if there is none, and SETALL gives it the value 2 and
\* forgets what other processes have to undo.
Start ==
    /\ MayWork(2) /\ Unused # {}
    /\ LET p == Smallest(Unused)
       IN  /\ made' = TRUE /\ knows' = knows \cup {p}
           /\ val' = 2
           /\ adj' = [q \in Pids |-> 0]
           /\ pc' = [pc EXCEPT ![p] = "prompt"]
           /\ cleaner' = [cleaner EXCEPT ![p] = "start"]
           /\ root' = [root EXCEPT ![p] = p]
    /\ started' = started + 1
    /\ UNCHANGED <<parent, hist, connected, holding, screen, blanks, lines,
                   zeroed, broken>>

Prompt(p) ==
    /\ pc[p] = "prompt"
    /\ SEM_wait(p)
    /\ pc' = [pc EXCEPT ![p] = "read"]
    /\ UNCHANGED <<cleaner, parent, hist, connected, holding, screen, counters,
                   families>>

\* An empty line, or a failed read: the loop begins again without SEM_signal.
Blank(p) ==
    /\ pc[p] = "read" /\ MayWork(1)
    /\ pc' = [pc EXCEPT ![p] = "prompt"]
    /\ blanks' = blanks + 1
    /\ UNCHANGED <<cleaner, parent, hist, connected, holding, semaphore, screen,
                   started, lines, families>>

----------------------------------------------------------------------------
(* COMMANDS_executeCommand.                                                *)

Settle(h, tail) ==
    IF tail THEN [h EXCEPT !.list = BIDIRECTIONALLIST_goToTail(@)] ELSE h

\* What a person who has seen a listing expects the numbers to mean.
Renumber(p, command) ==
    IF screen[p] = <<>> THEN <<>> ELSE <<command>> \o screen[p]

MutReturns(p, h, tail) ==
    /\ hist' = [hist EXCEPT ![p] = h]
    /\ pc' = [pc EXCEPT ![p] = "prompt"]
    /\ SEM_signal(p)
    /\ UNCHANGED <<cleaner, parent, holding, families>>

\* The command returns and the loop gives the permit back.
Returns(p, h, tail) ==
    /\ hist' = [hist EXCEPT ![p] = Settle(h, tail)]
    /\ pc' = [pc EXCEPT ![p] = "prompt"]
    /\ SEM_signal(p)
    /\ UNCHANGED <<cleaner, parent, holding, families>>

\* A login while connected, or with the server down, is not stored; the answer
\* to another one may be an error.  One with the wrong arguments is stored as
\* any command is (Search).
Login(p, h, tail) ==
    \/ /\ Returns(p, h, tail)
       /\ UNCHANGED <<connected, screen>>
    \/ /\ ~connected[p]
       /\ Returns(p, Store(h, "login"), tail)
       /\ screen' = [screen EXCEPT ![p] = Renumber(p, "login")]
       /\ \E ok \in BOOLEAN : connected' = [connected EXCEPT ![p] = ok]

\* search, send, photo and checkconfig: stored whatever comes of them, errors
\* in their arguments included.
Search(p, h, tail) ==
    /\ Returns(p, Store(h, "search"), tail)
    /\ screen' = [screen EXCEPT ![p] = Renumber(p, "search")]
    /\ UNCHANGED connected

ShowBuffer(p, h, tail) ==
    /\ Returns(p, IF h.used THEN Store(h, "showbuffer") ELSE h, tail)
    /\ screen' = [screen EXCEPT ![p] =
                    IF h.used THEN Listing(h, "showbuffer") ELSE @]
    /\ UNCHANGED connected

\* fork() succeeds and execvp() does not: the child stores the command, signals
\* a permit that it never took, and goes on.
Unknown(p, h, tail) ==
    \/ /\ Unused # {}
       /\ LET c == Smallest(Unused)
          IN  /\ pc' = [pc EXCEPT ![p] = "child", ![c] = "prompt"]
              /\ parent' = [parent EXCEPT ![c] = p]
              /\ root' = [root EXCEPT ![c] = root[p]]
              /\ hist' = [hist EXCEPT ![p] = h,
                            ![c] = Settle(Store(h, "unknown"), tail)]
              /\ connected' = [connected EXCEPT ![c] = connected[p]]
              /\ holding' = [holding EXCEPT
                               ![p] = [command |-> "unknown", tail |-> tail]]
              /\ screen' = [screen EXCEPT ![c] = Renumber(p, "unknown")]
              /\ val' = IF p \in knows THEN val + 1 ELSE val
              /\ adj' = IF p \in knows THEN [adj EXCEPT ![c] = -1] ELSE adj
              /\ knows' = IF p \in knows THEN knows \cup {c} ELSE knows
       /\ UNCHANGED <<cleaner, made, zeroed, broken>>
    \/ /\ Unused = {}
       /\ Returns(p, h, tail)
       /\ UNCHANGED <<connected, screen>>

Execute(p, h, command, tail) ==
    \/ command = "login" /\ Login(p, h, tail)
    \/ command = "search" /\ Search(p, h, tail)
    \/ command = "showbuffer" /\ ShowBuffer(p, h, tail)
    \/ command = "unknown" /\ Unknown(p, h, tail)

Type(p, command) ==
    /\ pc[p] = "read" /\ MayWork(1)
    /\ lines' = lines + 1
    /\ Execute(p, Begin(hist[p]), command, FALSE)
    /\ UNCHANGED <<started, blanks>>

\* `last` on an empty history does nothing.  A command that was never assigned
\* ends the process (Crashes), or is what the stack still holds of another.
TypeLast(p, index) ==
    /\ pc[p] = "read" /\ MayWork(1)
    /\ lines' = lines + 1
    /\ LET h == Begin(hist[p])
           moved == [h EXCEPT !.list = Back(@, index)]
           command == BIDIRECTIONALLIST_get(moved.list)
       IN  \/ /\ ~h.used
              /\ Returns(p, h, FALSE)
              /\ UNCHANGED <<connected, screen>>
           \/ h.used /\ command # Uninitialised
              /\ Execute(p, moved, command, index > 0)
           \/ h.used /\ command = Uninitialised
              /\ \E i \in DOMAIN h.list.elements :
                     Execute(p, moved, h.list.elements[i], index > 0)
    /\ UNCHANGED <<started, blanks>>

Children(p) == {c \in Pids : parent[c] = p}

MutChildEnds(p) ==
    /\ pc[p] = "child"
    /\ Returns(p, Store(hist[p], holding[p].command), holding[p].tail)
    /\ screen' = [screen EXCEPT ![p] = Renumber(p, holding[p].command)]
    /\ UNCHANGED <<connected, counters>>

\* wait() returns when a child has ended.
ChildEnds(p) ==
    /\ pc[p] = "child"
    /\ Children(p) = {}
    /\ Returns(p, Store(hist[p], holding[p].command), holding[p].tail)
    /\ screen' = [screen EXCEPT ![p] = Renumber(p, holding[p].command)]
    /\ UNCHANGED <<connected, counters>>

----------------------------------------------------------------------------
(* The cleanup thread and the end of a process.                            *)

\* A set that was removed meanwhile is made again, with the value 0, and both
\* threads of the process use it.
CleanerStarts(p) ==
    /\ Alive(p) /\ cleaner[p] = "start"
    /\ cleaner' = [cleaner EXCEPT ![p] = "sleep"]
    /\ made' = TRUE /\ knows' = knows \cup {p}
    /\ zeroed' = (zeroed \/ ~made)
    /\ UNCHANGED <<pc, parent, hist, connected, holding, val, adj, screen,
                   counters, families>>

CleanerWakes(p) ==
    /\ Alive(p) /\ cleaner[p] = "sleep"
    /\ SEM_wait(p)
    /\ cleaner' = [cleaner EXCEPT ![p] = "clean"]
    /\ UNCHANGED <<pc, parent, hist, connected, holding, screen, counters,
                   families>>

CleanerDone(p) ==
    /\ Alive(p) /\ cleaner[p] = "clean"
    /\ SEM_signal(p)
    /\ cleaner' = [cleaner EXCEPT ![p] = "sleep"]
    /\ UNCHANGED <<pc, parent, hist, connected, holding, screen, counters,
                   families>>

Gone(p) ==
    /\ pc' = [pc EXCEPT ![p] = "gone"]
    /\ cleaner' = [cleaner EXCEPT ![p] = "none"]
    /\ hist' = [hist EXCEPT ![p] = NoHistory]
    /\ connected' = [connected EXCEPT ![p] = FALSE]
    /\ holding' = [holding EXCEPT ![p] = Nothing]
    /\ screen' = [screen EXCEPT ![p] = <<>>]
    /\ parent' = [parent EXCEPT ![p] = NoPid]
    /\ broken' = IF pc[p] = "child" /\ \E q \in Pids : Alive(q) /\ parent[p] = q
                 THEN broken \cup {root[p]} ELSE broken
    /\ UNCHANGED <<counters, root>>

\* `logout`, or SIGINT at any time.
exitFremen(p) == Alive(p) /\ SEM_destructor(p) /\ Gone(p)

\* kill -9.
Dies(p) == Alive(p) /\ Undo(p) /\ Gone(p)

Crashes(p) ==
    /\ pc[p] = "read" /\ hist[p].used
    /\ \E index \in 1..MaxIndex : Indexed(hist[p], index) = Uninitialised
    /\ Dies(p)

LoopSteps(p) == Prompt(p) \/ ChildEnds(p)
CleanerSteps(p) == CleanerStarts(p) \/ CleanerDone(p)

FremenNext ==
    \/ Start
    \/ \E p \in Pids :
        \/ LoopSteps(p) \/ CleanerSteps(p) \/ CleanerWakes(p)
        \/ Blank(p) \/ exitFremen(p) \/ Crashes(p)
        \/ \E command \in Names : Type(p, command)
        \/ \E index \in 0..MaxIndex : TypeLast(p, index)

\* The kernel serves who waits for a semaphore in the order of arrival; nothing
\* is assumed of people.
FremenFairness ==
    \A p \in Pids : SF_vars(Prompt(p)) /\ WF_vars(ChildEnds(p))
                    /\ WF_vars(CleanerSteps(p))

----------------------------------------------------------------------------
(* Properties.                                                             *)

\* What `last index` would run is what the screen shows under that number, with
\* the commands that were stored since before it: the cursor is back at the end
\* after every command, and commands are stored in their order
\* (commands.c:16-23, :123-138, :164-167).
LastRunsShown ==
    \A p \in Pids : pc[p] \in {"prompt", "read"} =>
        \A k \in DOMAIN screen[p] : Indexed(hist[p], k) = screen[p][k]

\* Of a Fremen and all that it or its children forked, one at most is at the
\* terminal; but where one is killed that waits for another and is waited for,
\* the processes on both sides of it go on to read (commands.c:150-161).
OneReader ==
    \A p, q \in Pids :
        /\ {pc[p], pc[q]} \subseteq {"prompt", "read"}
        /\ root[p] = root[q] /\ root[p] \notin broken
        => p = q

\* The prompt comes back: the value 2 of the semaphore pays for two prompts or
\* empty lines, with cleanup threads in between, with children and processes
\* that end, unless a cleanup thread made a new one (Fremen.c:41, :59-66).
PromptReturns ==
    \A p \in Pids : pc[p] = "prompt" ~>
        pc[p] # "prompt" \/ started + blanks > 2 \/ zeroed
=============================================================================
