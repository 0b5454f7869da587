--------------------------- MODULE HarkonenProofs ---------------------------
(***************************************************************************)
(* Proofs about the Fremens of a host and Harkonen, for any number of      *)
(* processes and of lines typed.                                           *)
(***************************************************************************)
EXTENDS Harkonen, WellFoundedInduction, FiniteSetTheorems, TLAPS

----------------------------------------------------------------------------
(* Histories.                                                              *)

Commands(h) == h.list.elements
Length(h) == Len(Commands(h))

\* A history whose cursor may be on the head phantom, for at most n commands.
IsHistory(h, n) ==
    /\ h \in [list : [elements : Seq(Names), poi : Nat], used : BOOLEAN]
    /\ h.list.poi <= Length(h)
    /\ Length(h) <= n
    /\ h.used = (Commands(h) # <<>>)

\* One whose cursor is at the end.
Settled(h, n) == IsHistory(h, n) /\ h.list.poi = Length(h)

\* What showbuffer printed, against the list it numbers from its end.
Shows(printed, h) ==
    /\ printed \in Seq(Names)
    /\ Len(printed) <= Length(h)
    /\ \A k \in DOMAIN printed : printed[k] = Commands(h)[Length(h) + 1 - k]

\* Inserting behind the last element appends.
LEMMA InsertAtEnd ==
    ASSUME NEW S, NEW s \in Seq(S), NEW e \in S
    PROVE  InsertAt(s, Len(s) + 1, e) = Append(s, e)
<1>1. SubSeq(s, 1, Len(s)) = s
  BY SMT
<1>2. SubSeq(s, Len(s) + 1, Len(s)) = <<>>
  BY SMT
<1>3. (Len(s) + 1) - 1 = Len(s)
  BY SMT
<1>4. s \o <<e>> \o <<>> = Append(s, e)
  BY SMT
<1> QED BY <1>1, <1>2, <1>3, <1>4 DEF InsertAt

\* Storing a command appends it, and leaves the cursor on it, wherever it was.
LEMMA StoreAppends ==
    ASSUME NEW h, NEW n \in Nat, IsHistory(h, n), NEW command \in Names
    PROVE  Store(h, command) =
               [list |-> [elements |-> Append(Commands(h), command),
                          poi |-> Length(h) + 1],
                used |-> TRUE]
<1> DEFINE e == Commands(h)
<1>1. e \in Seq(Names) /\ Len(e) \in Nat
      /\ h.list = [elements |-> e, poi |-> h.list.poi]
  BY DEF IsHistory, Commands
<1>2. BIDIRECTIONALLIST_goToTail(h.list) = [elements |-> e, poi |-> Len(e)]
  BY <1>1 DEF BIDIRECTIONALLIST_goToTail, Commands
<1>3. BIDIRECTIONALLIST_addAfter([elements |-> e, poi |-> Len(e)], command)
        = [elements |-> Append(e, command), poi |-> Len(e)]
  <2>1. InsertAt(e, Len(e) + 1, command) = Append(e, command)
    BY <1>1, InsertAtEnd
  <2> DEFINE l == [elements |-> e, poi |-> Len(e)]
  <2>2. l.elements = e /\ l.poi = Len(e)
    OBVIOUS
  <2>n. Len(e) # Len(e) + 1
    BY <1>1
  <2> HIDE DEF l, e
  <2>3. ~AtTail(l)
    BY <2>2, <2>n DEF AtTail
  <2> USE DEF l
  <2>4. BIDIRECTIONALLIST_addAfter(l, command)
          = [l EXCEPT !.elements = InsertAt(e, Len(e) + 1, command)]
    BY <2>2, <2>3, Zenon DEF BIDIRECTIONALLIST_addAfter
  <2> QED BY <2>1, <2>4
<1>4. BIDIRECTIONALLIST_next([elements |-> Append(e, command), poi |-> Len(e)])
        = [elements |-> Append(e, command), poi |-> Len(e) + 1]
  <2>1. Len(Append(e, command)) = Len(e) + 1
    BY <1>1
  <2> DEFINE l == [elements |-> Append(e, command), poi |-> Len(e)]
  <2>2. l.elements = Append(e, command) /\ l.poi = Len(e)
    OBVIOUS
  <2>n. Len(e) # Len(Append(e, command)) + 1
    BY <1>1, <2>1
  <2> HIDE DEF l, e
  <2>3. ~AtTail(l)
    BY <2>2, <2>n DEF AtTail
  <2> USE DEF l
  <2>4. BIDIRECTIONALLIST_next(l) = [l EXCEPT !.poi = Len(e) + 1]
    BY <2>2, <2>3, Zenon DEF BIDIRECTIONALLIST_next
  <2> QED BY <2>4
<1> QED BY <1>2, <1>3, <1>4 DEF Store, Length

\* So a history that a command was stored in is settled.
LEMMA StoreSettled ==
    ASSUME NEW h, NEW n \in Nat, IsHistory(h, n), NEW command \in Names
    PROVE  /\ Settled(Store(h, command), n + 1)
           /\ Commands(Store(h, command)) = Append(Commands(h), command)
<1> DEFINE e == Commands(h)
           g == Store(h, command)
<1>1. e \in Seq(Names) /\ Len(e) <= n
  BY DEF IsHistory, Commands, Length
<1>2. g = [list |-> [elements |-> Append(e, command), poi |-> Len(e) + 1],
           used |-> TRUE]
  BY StoreAppends DEF Length
<1>3. /\ Append(e, command) \in Seq(Names)
      /\ Len(Append(e, command)) = Len(e) + 1
      /\ Append(e, command) # <<>>
  BY <1>1
<1> HIDE DEF g, e
<1>4. /\ g.list.elements = Append(e, command) /\ g.list.poi = Len(e) + 1
      /\ g.used = TRUE
  BY <1>2
<1>5. g \in [list : [elements : Seq(Names), poi : Nat], used : BOOLEAN]
  BY <1>1, <1>2, <1>3
<1>6. IsHistory(g, n + 1) /\ g.list.poi = Len(g.list.elements)
  BY <1>1, <1>3, <1>4, <1>5 DEF IsHistory, Commands, Length
<1> QED BY <1>4, <1>6 DEF Settled, Commands, Length, g, e

\* What a command that went back leaves is settled when the cursor is moved.
LEMMA SettleSettles ==
    ASSUME NEW h, NEW n \in Nat, IsHistory(h, n), NEW tail \in BOOLEAN,
           tail \/ h.list.poi = Length(h)
    PROVE  Settled(Settle(h, tail), n)
           /\ Commands(Settle(h, tail)) = Commands(h)
  BY
    DEF Settle, Settled, IsHistory, Commands, Length,
        BIDIRECTIONALLIST_goToTail

\* The list that is made anew was empty.
LEMMA BeginKeeps ==
    ASSUME NEW h, NEW n \in Nat, Settled(h, n)
    PROVE  Begin(h) = h
<1>1. CASE h.used
  BY <1>1 DEF Begin
<1>2. CASE ~h.used
  <2>1. h = [list |-> [elements |-> h.list.elements, poi |-> h.list.poi],
             used |-> h.used]
    BY DEF Settled, IsHistory
  <2>2. h.list.elements = <<>> /\ h.list.poi = 0 /\ h.used = FALSE
    BY <1>2 DEF Settled, IsHistory, Commands, Length
  <2> QED BY <1>2, <2>1, <2>2 DEF Begin, NoHistory, BIDIRECTIONALLIST_create
<1> QED BY <1>1, <1>2

\* A process begins with a settled history.
LEMMA NoHistorySettled == Settled(NoHistory, 0)
<1> DEFINE empty == << >>
<1>1. empty \in Seq(Names) /\ Len(empty) = 0
  OBVIOUS
<1> HIDE DEF empty
<1>2. NoHistory = [list |-> [elements |-> empty, poi |-> 0], used |-> FALSE]
  BY DEF NoHistory, BIDIRECTIONALLIST_create, empty
<1> DEFINE g == NoHistory
<1>3. g.list.elements = empty /\ g.list.poi = 0 /\ g.used = FALSE
  BY <1>2
<1>4. g \in [list : [elements : Seq(Names), poi : Nat], used : BOOLEAN]
  BY <1>1, <1>2
<1>5. g.used = (empty # << >>)
  BY <1>3 DEF empty
<1> HIDE DEF g
<1>6. Settled(g, 0)
  BY <1>1, <1>3, <1>4, <1>5 DEF Settled, IsHistory, Commands, Length
<1> QED BY <1>6 DEF g

----------------------------------------------------------------------------
\* A command that is stored gets the number 1, and every other one more.
LEMMA RenumberShows ==
    ASSUME NEW p \in Pids, NEW h, NEW n \in Nat, IsHistory(h, n),
           NEW command \in Names,
           NEW g, Commands(g) = Append(Commands(h), command),
           Shows(screen[p], h)
    PROVE  Shows(Renumber(p, command), g)
<1> DEFINE e == Commands(h)
           s == screen[p]
<1>1. e \in Seq(Names) /\ s \in Seq(Names) /\ Len(s) <= Len(e)
      /\ \A k \in 1..Len(s) : s[k] = e[Len(e) + 1 - k]
  BY DEF IsHistory, Commands, Length, Shows
<1> HIDE DEF e, s
<1>2. CASE s = <<>>
  <2>1. Renumber(p, command) = <<>>
    BY <1>2 DEF Renumber, s
  <2> QED BY <1>1, <2>1 DEF Shows, Length, e
<1>3. CASE s # <<>>
  <2>1. Renumber(p, command) = <<command>> \o s
    BY <1>3 DEF Renumber, s
  <2>2. /\ <<command>> \o s \in Seq(Names)
        /\ Len(<<command>> \o s) = Len(s) + 1
        /\ \A k \in 1..(Len(s) + 1) :
              (<<command>> \o s)[k] = IF k = 1 THEN command ELSE s[k - 1]
    BY <1>1
  <2>3. /\ Len(Append(e, command)) = Len(e) + 1
        /\ \A k \in 1..(Len(s) + 1) :
              Append(e, command)[Len(e) + 2 - k] =
                  IF k = 1 THEN command ELSE s[k - 1]
    BY <1>1
  <2> DEFINE r == Renumber(p, command)
             a == Append(e, command)
  <2>4. Commands(g) = a /\ Len(a) = Len(e) + 1
    BY <2>3 DEF e
  <2>5. r \in Seq(Names) /\ Len(r) = Len(s) + 1
    BY <2>1, <2>2
  <2>6. \A k \in 1..(Len(s) + 1) : r[k] = a[Len(e) + 2 - k]
    BY <2>1, <2>2, <2>3
  <2> HIDE DEF r, a
  <2>7. DOMAIN r = 1..(Len(s) + 1)
    BY <2>5
  <2>8. \A k \in 1..(Len(s) + 1) : (Len(e) + 1) + 1 - k = Len(e) + 2 - k
    BY <1>1
  <2>9. Len(r) <= Len(a)
    BY <1>1, <2>4, <2>5
  <2> QED BY <2>4, <2>5, <2>6, <2>7, <2>8, <2>9 DEF Shows, Length, r
<1> QED BY <1>2, <1>3

\* The listing numbers the list from its end, the listing command first.
LEMMA ListingShows ==
    ASSUME NEW h, NEW n \in Nat, IsHistory(h, n), NEW command \in Names,
           NEW g, Commands(g) = Append(Commands(h), command)
    PROVE  Shows(Listing(h, command), g)
<1> DEFINE e == Commands(h)
           r == Reverse(e)
<1>1. e \in Seq(Names)
  BY DEF IsHistory, Commands
<1>2. r \in Seq(Names) /\ Len(r) = Len(e)
      /\ \A k \in 1..Len(e) : r[k] = e[Len(e) - k + 1]
  BY <1>1 DEF Reverse
<1>3. Listing(h, command) = <<command>> \o r
  BY DEF Listing, Commands
<1> HIDE DEF e, r
<1>4. /\ <<command>> \o r \in Seq(Names) /\ Len(<<command>> \o r) = Len(e) + 1
      /\ \A k \in 1..(Len(e) + 1) :
            (<<command>> \o r)[k] = IF k = 1 THEN command ELSE r[k - 1]
  BY <1>1, <1>2
<1>5. /\ Len(Append(e, command)) = Len(e) + 1
      /\ \A k \in 1..(Len(e) + 1) :
            Append(e, command)[Len(e) + 2 - k] =
                IF k = 1 THEN command ELSE r[k - 1]
  BY <1>1, <1>2
<1> DEFINE l == Listing(h, command)
           a == Append(e, command)
<1>6. Commands(g) = a /\ Len(a) = Len(e) + 1
  BY <1>5 DEF e
<1>7. l \in Seq(Names) /\ Len(l) = Len(e) + 1
  BY <1>3, <1>4
<1>8. \A k \in 1..(Len(e) + 1) : l[k] = a[Len(e) + 2 - k]
  BY <1>3, <1>4, <1>5
<1> HIDE DEF l, a
<1>9. DOMAIN l = 1..(Len(e) + 1)
  BY <1>7
<1>10. \A k \in 1..(Len(e) + 1) : (Len(e) + 1) + 1 - k = Len(e) + 2 - k
  BY <1>1
<1>11. Len(l) <= Len(a)
  BY <1>1, <1>6, <1>7
<1> QED BY <1>6, <1>7, <1>8, <1>9, <1>10, <1>11 DEF Shows, Length, l

\* What going back means.
LEMMA BackIs ==
    ASSUME NEW list, NEW index
    PROVE  Back(list, index) =
             (CHOOSE step :
                 step = [i \in 0..index |->
                           IF i = 0 THEN list
                           ELSE BIDIRECTIONALLIST_previous(step[i - 1])])
                [IF index = 0 THEN 0 ELSE index - 1]
  BY Zenon DEF Back

\* The cursor i steps back.
At(list, i) == [list EXCEPT !.poi = IF i <= list.poi THEN list.poi - i ELSE 0]

\* Going back `index - 1` times moves the cursor so many elements, as far as the
\* head phantom.
LEMMA BackSteps ==
    ASSUME NEW h, NEW n \in Nat, IsHistory(h, n), NEW index \in Nat
    PROVE  Back(h.list, index) =
               At(h.list, IF index = 0 THEN 0 ELSE index - 1)
<1> DEFINE l == h.list
           Steps(f) == f = [i \in 0..index |->
                              IF i = 0 THEN l
                              ELSE BIDIRECTIONALLIST_previous(f[i - 1])]
           w == [i \in 0..index |-> At(l, i)]
<1>1. l = [elements |-> l.elements, poi |-> l.poi] /\ l.poi \in Nat
  BY DEF IsHistory
<1> HIDE DEF l
<1>2. At(l, 0) = l
  BY <1>1 DEF At
<1>3. ASSUME NEW i \in Nat, i # 0
      PROVE  At(l, i) = BIDIRECTIONALLIST_previous(At(l, i - 1))
  <2>1. CASE i <= l.poi
    <3>1. At(l, i) = [elements |-> l.elements, poi |-> l.poi - i]
      BY <1>1, <2>1 DEF At
    <3>2. At(l, i - 1) = [elements |-> l.elements, poi |-> l.poi - (i - 1)]
      BY <1>1, <2>1 DEF At
    <3>3. l.poi - (i - 1) # 0 /\ (l.poi - (i - 1)) - 1 = l.poi - i
      BY <1>1, <2>1
    <3> QED BY <3>1, <3>2, <3>3 DEF BIDIRECTIONALLIST_previous
  <2>2. CASE i = l.poi + 1
    <3>1. At(l, i) = [elements |-> l.elements, poi |-> 0]
      BY <1>1, <2>2 DEF At
    <3>2. At(l, i - 1) = [elements |-> l.elements, poi |-> 0]
      BY <1>1, <2>2 DEF At
    <3> QED BY <3>1, <3>2 DEF BIDIRECTIONALLIST_previous
  <2>3. CASE i > l.poi + 1
    <3>1. At(l, i) = [elements |-> l.elements, poi |-> 0]
      BY <1>1, <2>3 DEF At
    <3>2. At(l, i - 1) = [elements |-> l.elements, poi |-> 0]
      BY <1>1, <2>3 DEF At
    <3> QED BY <3>1, <3>2 DEF BIDIRECTIONALLIST_previous
  <2> QED BY <1>1, <2>1, <2>2, <2>3
<1>4. Steps(w)
  <2>1. \A i \in 0..index : i # 0 => i - 1 \in 0..index /\ i \in Nat
    OBVIOUS
  <2>2. \A i \in 0..index : i # 0 => w[i - 1] = At(l, i - 1)
    BY <2>1
  <2> QED BY <1>2, <1>3, <2>1, <2>2
<1>5. ASSUME NEW f, Steps(f) PROVE f = w
  <2>1. SUFFICES ASSUME NEW d \in 0..index, f[d] # w[d] PROVE FALSE
    BY <1>5
  <2> DEFINE S == {i \in 0..index : f[i] # w[i]}
  <2>2. S \subseteq Nat /\ S # {}
    BY <2>1
  <2>3. PICK i \in S : \A j \in S : ~(j < i)
    <3>1. PICK i \in S : \A j \in S : <<j, i>> \notin OpToRel(<, Nat)
      BY <2>2, NatLessThanWellFounded, WFMin
    <3>2. \A j \in S : j < i => <<j, i>> \in OpToRel(<, Nat)
      BY <2>2 DEF OpToRel
    <3> QED BY <3>1, <3>2
  <2>4. i \in 0..index /\ f[i] # w[i]
    OBVIOUS
  <2>5. i # 0
    BY <1>2, <1>5, <2>4
  <2>6. i - 1 \in 0..index /\ i - 1 < i /\ i \in Nat
    BY <2>4, <2>5
  <2>7. f[i - 1] = w[i - 1]
    BY <2>3, <2>6
  <2>8. f[i] = BIDIRECTIONALLIST_previous(f[i - 1])
    BY <1>5, <2>4, <2>5
  <2> QED BY <1>3, <2>4, <2>5, <2>6, <2>7, <2>8
<1>6. (CHOOSE f : Steps(f)) = w
  <2>1. Steps(CHOOSE f : Steps(f))
    BY <1>4
  <2> HIDE DEF Steps
  <2> QED BY <1>5, <2>1
<1>7. (IF index = 0 THEN 0 ELSE index - 1) \in 0..index
  OBVIOUS
<1>8. Back(l, index) = (CHOOSE f : Steps(f))[IF index = 0 THEN 0 ELSE index - 1]
  BY BackIs
<1> HIDE DEF Steps
<1> QED BY <1>6, <1>7, <1>8 DEF l

\* What `last index` runs, on a settled history.
LEMMA IndexedFromEnd ==
    ASSUME NEW h, NEW n \in Nat, Settled(h, n), NEW k \in 1..Length(h)
    PROVE  Indexed(h, k) = Commands(h)[Length(h) + 1 - k]
<1>1. /\ Length(h) \in Nat /\ h.list.poi = Length(h) /\ k \in Nat
      /\ h.list = [elements |-> Commands(h), poi |-> Length(h)]
  BY DEF Settled, IsHistory, Commands, Length
<1>2. Back(h.list, k) = At(h.list, k - 1)
  BY <1>1, BackSteps DEF Settled
<1>3. At(h.list, k - 1) = [elements |-> Commands(h), poi |-> Length(h) + 1 - k]
  BY <1>1 DEF At
<1>4. Length(h) + 1 - k \in 1..Length(h)
  BY <1>1
<1>5. DOMAIN Commands(h) = 1..Length(h)
  BY DEF Settled, IsHistory, Commands, Length
<1> DEFINE e == Commands(h)
           i == Length(h) + 1 - k
<1>6. Indexed(h, k) = BIDIRECTIONALLIST_get([elements |-> e, poi |-> i])
  BY <1>2, <1>3 DEF Indexed
<1>7. i \in DOMAIN e
  BY <1>4, <1>5
<1> HIDE DEF e, i
<1>8. BIDIRECTIONALLIST_get([elements |-> e, poi |-> i]) = e[i]
  BY <1>7 DEF BIDIRECTIONALLIST_get, BIDIRECTIONALLIST_isValid
<1> QED BY <1>6, <1>8 DEF e, i

\* Going back keeps the commands, and the cursor on the list.
LEMMA BackKeeps ==
    ASSUME NEW h, NEW n \in Nat, IsHistory(h, n), NEW index \in Nat,
           NEW g, g = [h EXCEPT !.list = Back(@, index)]
    PROVE  /\ IsHistory(g, n) /\ Commands(g) = Commands(h)
           /\ index = 0 => g.list.poi = h.list.poi
<1> DEFINE i == IF index = 0 THEN 0 ELSE index - 1
           l == At(h.list, i)
<1>1. /\ h.list \in [elements : Seq(Names), poi : Nat] /\ i \in Nat
      /\ h.list.poi \in Nat
  BY DEF IsHistory
<1>2. /\ l \in [elements : Seq(Names), poi : Nat]
      /\ l.elements = h.list.elements /\ l.poi <= h.list.poi
      /\ index = 0 => l.poi = h.list.poi
  BY <1>1 DEF At
<1>3. g = [h EXCEPT !.list = l]
  BY BackSteps
<1> HIDE DEF l
<1>4. /\ g.list = l /\ g.used = h.used
      /\ g \in [list : [elements : Seq(Names), poi : Nat], used : BOOLEAN]
  BY <1>2, <1>3 DEF IsHistory
<1>5. Len(h.list.elements) \in Nat
  BY <1>1
<1> QED BY <1>1, <1>2, <1>4, <1>5 DEF IsHistory, Commands, Length

\* What `last` finds is stored, or was never assigned.
LEMMA GetIsName ==
    ASSUME NEW h, NEW n \in Nat, IsHistory(h, n)
    PROVE  BIDIRECTIONALLIST_get(h.list) \in Names \cup {Uninitialised}
  BY DEF IsHistory, BIDIRECTIONALLIST_get, BIDIRECTIONALLIST_isValid

----------------------------------------------------------------------------
(* The invariant.                                                          *)

\* Numbers are given in their order; the root of a process has been started, and
\* so has its parent, of the same root.
Numbered ==
    /\ \A p, q \in Pids : pc[p] # "none" /\ q < p => pc[q] # "none"
    /\ \A p \in Pids : pc[p] # "none" =>
           root[p] \in Pids /\ pc[root[p]] # "none"
    /\ \A c \in Pids : parent[c] \in Pids =>
           /\ pc[c] # "none" /\ pc[parent[c]] # "none"
           /\ root[c] = root[parent[c]]

\* A process that lives has a child that lives, no younger than q.
WaitsBefore(p, q) ==
    pc[p] = "child" /\ \E z \in Pids : Alive(z) /\ parent[z] = p /\ z <= q

\* Of two that live in a family that lost none from its middle, the elder waits
\* for a child that is the younger, or is between them.
Chain(p, q) ==
    /\ Alive(p) /\ Alive(q) /\ p < q
    /\ root[p] = root[q] /\ root[p] \notin broken
    => WaitsBefore(p, q)

Family ==
    /\ pc \in [Pids -> {"none", "prompt", "read", "child", "gone"}]
    /\ parent \in [Pids -> Pids \cup {NoPid}]
    /\ root \in [Pids -> Pids \cup {NoPid}] /\ broken \subseteq Pids
    /\ Numbered
    /\ \A p, q \in Pids : Chain(p, q)

AHistory == [list : [elements : Seq(Names), poi : Nat], used : BOOLEAN]
AHolding == [command : Names \cup {"none"}, tail : BOOLEAN]

\* The types of what is not told by the parts below.
HostTypes ==
    /\ cleaner \in [Pids -> {"none", "start", "sleep", "clean"}]
    /\ hist \in [Pids -> AHistory]
    /\ connected \in [Pids -> BOOLEAN]
    /\ holding \in [Pids -> AHolding]
    /\ screen \in [Pids -> Seq(Names)]
    /\ made \in BOOLEAN /\ zeroed \in BOOLEAN
    /\ knows \subseteq Pids /\ (knows # {} => made)
    /\ val \in Nat /\ adj \in [Pids -> Int]
    /\ started \in Nat /\ blanks \in Nat /\ lines \in Nat
    /\ 2 * started + blanks + lines <= MaxWork

\* The history of each process, and what its screen shows of it.  Of a process
\* that waits for a child one command is still to be stored, and its cursor may
\* be anywhere until then.
Kept(p) ==
    /\ IsHistory(hist[p], lines)
    /\ Shows(screen[p], hist[p])
    /\ IF pc[p] = "child"
       THEN /\ Length(hist[p]) < lines
            /\ holding[p].command \in Names
            /\ holding[p].tail \/ hist[p].list.poi = Length(hist[p])
       ELSE hist[p].list.poi = Length(hist[p])
    /\ ~Alive(p) => /\ hist[p] = NoHistory /\ screen[p] = <<>>
                    /\ cleaner[p] = "none" /\ p \notin knows
Histories == \A p \in Pids : Kept(p)

\* The permits a process has: its loop's, between SEM_wait and SEM_signal, and
\* its cleanup thread's.
Held(p) == (IF pc[p] \in {"read", "child"} THEN 1 ELSE 0)
           + (IF cleaner[p] = "clean" THEN 1 ELSE 0)

\* SEM_UNDO has one permit for each of these, and for each empty line, and may
\* lack those that were taken of an earlier set.
Counted(p) ==
    /\ Held(p) - 2 <= adj[p] /\ adj[p] <= blanks + Held(p)
    /\ p \notin knows => adj[p] = 0
Permits == \A p \in Pids : Counted(p)

\* Each process that may still give back has two permits of its own to give,
\* beyond those that SEM_UNDO has for it; s[n] is what the first n have.
Balanced(s) ==
    /\ s[0] = 0
    /\ \A p \in Pids :
          /\ s[p - 1] <= s[p]
          /\ pc[p] # "gone" => adj[p] + 2 <= s[p] - s[p - 1]
    /\ val + s[Processes] <= 2 + 2 * Processes
Ledger == \E s \in [0..Processes -> Int] : Balanced(s)

Aimed ==
    /\ pidToAtack \in Pids \cup {None, NoPid}
    /\ listed \subseteq Pids
    /\ pidToAtack \in Pids => pidToAtack \in listed

HostIInv ==
    Family /\ HostTypes /\ Histories /\ Permits /\ Ledger /\ Aimed

----------------------------------------------------------------------------
\* The smallest of some numbers is one of them, and no other is smaller.
LEMMA SmallestIsUnused ==
    ASSUME NEW S, S \subseteq Nat, S # {}
    PROVE  Smallest(S) \in S /\ \A q \in S : Smallest(S) <= q
<1>1. PICK p \in S : \A q \in S : <<q, p>> \notin OpToRel(<, Nat)
  BY NatLessThanWellFounded, WFMin
<1>2. \A q \in S : p <= q
  <2> TAKE q \in S
  <2>1. p \in Nat /\ q \in Nat
    OBVIOUS
  <2>2. ~(q < p)
    BY <1>1, <2>1 DEF OpToRel
  <2> QED BY <2>1, <2>2
<1> QED BY <1>2 DEF Smallest

\* All numbers below this one are given.
IsNext(p) == \A q \in Pids : pc[q] = "none" => p <= q

\* The number of a new process is one of the host's, and the next one.
LEMMA UnusedIsPid ==
    ASSUME Unused # {}
    PROVE  /\ Smallest(Unused) \in Pids /\ pc[Smallest(Unused)] = "none"
           /\ IsNext(Smallest(Unused))
<1>1. Unused \subseteq Nat
  BY ProcessesAssumption DEF Unused, Pids
<1>2. Smallest(Unused) \in Unused /\ \A q \in Unused : Smallest(Unused) <= q
  BY <1>1, SmallestIsUnused
<1> QED BY <1>2 DEF Unused, IsNext

----------------------------------------------------------------------------
(* What a step does to the processes.                                      *)

\* A process goes on: it was started, and has no child that it does not wait
\* for.
Goes(p) ==
    /\ pc[p] \in {"prompt", "read"} \/ (pc[p] = "child" /\ Children(p) = {})
    /\ \E l \in {"prompt", "read"} : pc' = [pc EXCEPT ![p] = l]
    /\ UNCHANGED <<parent, root, broken>>

Starts(p) ==
    /\ pc[p] = "none" /\ IsNext(p)
    /\ pc' = [pc EXCEPT ![p] = "prompt"]
    /\ root' = [root EXCEPT ![p] = p]
    /\ UNCHANGED <<parent, broken>>

Forks(p, c) ==
    /\ pc[p] = "read" /\ pc[c] = "none" /\ IsNext(c)
    /\ pc' = [pc EXCEPT ![p] = "child", ![c] = "prompt"]
    /\ parent' = [parent EXCEPT ![c] = p]
    /\ root' = [root EXCEPT ![c] = root[p]]
    /\ broken' = broken

Ends(p) ==
    /\ Alive(p)
    /\ pc' = [pc EXCEPT ![p] = "gone"]
    /\ parent' = [parent EXCEPT ![p] = NoPid]
    /\ root' = root
    /\ broken' = IF pc[p] = "child" /\ \E q \in Pids : Alive(q) /\ parent[p] = q
                 THEN broken \cup {root[p]} ELSE broken

\* Every line that is typed lets its process go on, or forks another.
LEMMA ExecuteGoes ==
    ASSUME NEW p \in Pids, NEW h, NEW command, NEW tail, pc[p] = "read",
           Execute(p, h, command, tail)
    PROVE  Goes(p) \/ \E c \in Pids : Forks(p, c)
<1>0. ASSUME NEW g, NEW t, Returns(p, g, t) PROVE Goes(p)
  BY <1>0 DEF Returns, Goes, families
<1>1. CASE Login(p, h, tail)
  BY <1>0, <1>1 DEF Login
<1>2. CASE Search(p, h, tail)
  BY <1>0, <1>2 DEF Search
<1>3. CASE ShowBuffer(p, h, tail)
  BY <1>0, <1>3 DEF ShowBuffer
<1>4. CASE Unknown(p, h, tail)
  <2>1. CASE Unused # {} /\ pc' = [pc EXCEPT ![p] = "child",
                                            ![Smallest(Unused)] = "prompt"]
                         /\ parent' = [parent EXCEPT ![Smallest(Unused)] = p]
                         /\ root' = [root EXCEPT ![Smallest(Unused)] = root[p]]
                         /\ broken' = broken
    BY <2>1, UnusedIsPid DEF Forks
  <2>2. CASE Returns(p, h, tail)
    BY <1>0, <2>2
  <2> QED BY <1>4, <2>1, <2>2 DEF Unknown
<1> QED BY <1>1, <1>2, <1>3, <1>4 DEF Execute

\* Whatever happens on the host is one of the four, or leaves the processes
\* where they are.
LEMMA HostSteps ==
    ASSUME Next
    PROVE  \/ UNCHANGED <<pc, parent, families>>
           \/ \E p \in Pids : Goes(p) \/ Starts(p) \/ Ends(p)
           \/ \E p, c \in Pids : Forks(p, c)
<1>1. CASE Start
  BY <1>1, UnusedIsPid DEF Start, Starts
<1>2. ASSUME NEW p \in Pids, Prompt(p) \/ Blank(p) PROVE Goes(p)
  BY <1>2 DEF Prompt, Blank, Goes, families
<1>3. ASSUME NEW p \in Pids, ChildEnds(p) PROVE Goes(p)
  BY <1>3 DEF ChildEnds, Returns, Goes, families
<1>4. ASSUME NEW p \in Pids,
             CleanerStarts(p) \/ CleanerDone(p) \/ CleanerWakes(p)
      PROVE  UNCHANGED <<pc, parent, families>>
  BY <1>4 DEF CleanerStarts, CleanerDone, CleanerWakes
<1>5. ASSUME NEW p \in Pids,
             exitFremen(p) \/ Crashes(p) \/ Dies(p) PROVE Ends(p)
  BY <1>5 DEF exitFremen, Crashes, Dies, Gone, Ends
<1>6. ASSUME NEW p \in Pids, NEW command \in Names, Type(p, command)
      PROVE  Goes(p) \/ \E c \in Pids : Forks(p, c)
  <2>1. pc[p] = "read" /\ Execute(p, Begin(hist[p]), command, FALSE)
    BY <1>6 DEF Type
  <2> QED BY <2>1, ExecuteGoes
<1>7. ASSUME NEW p \in Pids, NEW index \in 0..MaxIndex, TypeLast(p, index)
      PROVE  Goes(p) \/ \E c \in Pids : Forks(p, c)
  <2>1. pc[p] = "read"
    BY <1>7 DEF TypeLast
  <2>2. \/ \E h : Returns(p, h, FALSE)
        \/ \E h, command : Execute(p, h, command, index > 0)
    BY <1>7 DEF TypeLast
  <2>3. ASSUME NEW h, Returns(p, h, FALSE) PROVE Goes(p)
    BY <2>1, <2>3 DEF Returns, Goes, families
  <2>4. ASSUME NEW h, NEW command, Execute(p, h, command, index > 0)
        PROVE  Goes(p) \/ \E c \in Pids : Forks(p, c)
    BY <2>1, <2>4, ExecuteGoes
  <2> QED BY <2>2, <2>3, <2>4
<1>8. CASE getPidToAtack \/ Sleeps
  BY <1>8 DEF getPidToAtack, Sleeps, vars
<1>9. CASE killPID
  BY <1>5, <1>9 DEF killPID, vars
<1> QED
  BY <1>1, <1>2, <1>3, <1>4, <1>5, <1>6, <1>7, <1>8, <1>9
  DEF Next, FremenNext, LoopSteps, CleanerSteps

----------------------------------------------------------------------------
\* Every step keeps the order of the numbers, and the roots.
LEMMA NumberedKept ==
    ASSUME Family, Next
    PROVE  Numbered'
<1> USE ProcessesAssumption DEF Family, Numbered, Pids, NoPid
<1>1. CASE UNCHANGED <<pc, parent, families>>
  BY <1>1 DEF families
<1>2. ASSUME NEW p \in Pids, Goes(p) PROVE Numbered'
  BY <1>2 DEF Goes
<1>3. ASSUME NEW p \in Pids, Starts(p) PROVE Numbered'
  BY <1>3 DEF Starts, IsNext
<1>4. ASSUME NEW p \in Pids, Ends(p) PROVE Numbered'
  BY <1>4 DEF Ends, Alive
<1>5. ASSUME NEW p \in Pids, NEW c \in Pids, Forks(p, c) PROVE Numbered'
  BY <1>5 DEF Forks, IsNext
<1> QED BY <1>1, <1>2, <1>3, <1>4, <1>5, HostSteps

\* Nor does a step leave a process at the terminal above one that lives.
LEMMA ChainKept ==
    ASSUME Family, Next, NEW a \in Pids, NEW q \in Pids
    PROVE  Chain(a, q)'
<1> SUFFICES ASSUME Alive(a)', Alive(q)', a < q, root'[a] = root'[q],
                    root'[a] \notin broken'
             PROVE  WaitsBefore(a, q)'
  BY DEF Chain
<1>n. Pids \subseteq Nat /\ NoPid \notin Pids
  BY ProcessesAssumption DEF NoPid, Pids
<1>0. /\ pc \in [Pids -> {"none", "prompt", "read", "child", "gone"}]
      /\ parent \in [Pids -> Pids \cup {NoPid}]
      /\ root \in [Pids -> Pids \cup {NoPid}]
      /\ Numbered
  BY DEF Family
<1>c. ASSUME NEW i \in Pids, NEW j \in Pids, Alive(i), Alive(j), i < j,
             root[i] = root[j], root[i] \notin broken
      PROVE  WaitsBefore(i, j)
  BY <1>c DEF Family, Chain
<1>1. CASE UNCHANGED <<pc, parent, families>>
  BY <1>1, <1>c DEF families, WaitsBefore, Alive
<1>2. ASSUME NEW p \in Pids, Goes(p) PROVE WaitsBefore(a, q)'
  <2>1. \A z \in Pids : Alive(z)' <=> Alive(z)
    BY <1>0, <1>2 DEF Goes, Alive
  <2>2. WaitsBefore(a, q)
    BY <1>2, <1>c, <2>1 DEF Goes
  <2>3. a # p
    BY <1>2, <2>2 DEF Goes, WaitsBefore, Children
  <2> QED BY <1>0, <1>2, <2>1, <2>2, <2>3 DEF Goes, WaitsBefore
<1>3. ASSUME NEW p \in Pids, Starts(p) PROVE WaitsBefore(a, q)'
  <2>1. \A z \in Pids : z # p => (Alive(z)' <=> Alive(z)) /\ root'[z] = root[z]
    BY <1>0, <1>3 DEF Starts, Alive
  <2>2. \A z \in Pids : Alive(z) => Alive(z)'
    BY <1>0, <1>3 DEF Starts, Alive
  <2>3. a # p
    BY <1>0, <1>3, <1>n, <2>1 DEF Starts, Alive, Numbered
  <2>4. root'[p] = p
    BY <1>0, <1>3 DEF Starts
  <2>5. q # p
    BY <1>0, <1>3, <2>1, <2>3, <2>4 DEF Starts, Alive, Numbered
  <2>6. WaitsBefore(a, q)
    BY <1>3, <1>c, <2>1, <2>3, <2>5 DEF Starts
  <2> QED BY <1>0, <1>3, <2>2, <2>3, <2>6 DEF Starts, WaitsBefore
<1>4. ASSUME NEW p \in Pids, Ends(p) PROVE WaitsBefore(a, q)'
  <2>1. /\ a # p /\ q # p
        /\ \A z \in Pids : z # p => (Alive(z)' <=> Alive(z))
    BY <1>0, <1>4 DEF Ends, Alive
  <2>2. root' = root /\ broken \subseteq broken'
    BY <1>4 DEF Ends
  <2>3. WaitsBefore(a, q)
    BY <1>c, <2>1, <2>2
  <2>4. PICK z \in Pids : Alive(z) /\ parent[z] = a /\ z <= q
    BY <2>3 DEF WaitsBefore
  <2>5. z # p
    <3> SUFFICES ASSUME z = p PROVE FALSE
      OBVIOUS
    <3>1. p < q /\ root[p] = root[a]
      BY <1>0, <1>n, <2>1, <2>4 DEF Numbered
    <3>2. pc[p] = "child"
      BY <1>4, <1>c, <2>1, <2>2, <3>1 DEF Ends, WaitsBefore
    <3>3. root[p] \in broken'
      BY <1>4, <2>1, <2>4, <3>2 DEF Ends
    <3> QED BY <2>2, <3>1, <3>3
  <2>6. pc'[a] = "child" /\ Alive(z)' /\ parent'[z] = a
    BY <1>0, <1>4, <2>1, <2>3, <2>4, <2>5 DEF Ends, WaitsBefore
  <2> QED BY <2>4, <2>6 DEF WaitsBefore
<1>5. ASSUME NEW p \in Pids, NEW c \in Pids, Forks(p, c)
      PROVE  WaitsBefore(a, q)'
  <2>1. /\ p # c /\ Alive(p) /\ ~Alive(c)
        /\ \A z \in Pids : z # c =>
               /\ Alive(z)' <=> Alive(z)
               /\ root'[z] = root[z] /\ parent'[z] = parent[z]
        /\ root'[c] = root[p] /\ parent'[c] = p /\ Alive(c)'
        /\ \A z \in Pids : z \notin {p, c} => pc'[z] = pc[z]
        /\ pc'[p] = "child" /\ broken' = broken
    BY <1>0, <1>5 DEF Forks, Alive
  <2>2. \A z \in Pids : Alive(z) => z < c
    BY <1>0, <1>5, <1>n, <2>1 DEF Forks, Alive, Numbered
  <2>3. a # c
    BY <1>n, <2>1, <2>2
  <2>4. ASSUME NEW j \in Pids, Alive(j), p < j, root[p] = root[j],
               root[p] \notin broken
        PROVE  FALSE
    BY <1>5, <1>c, <2>1, <2>4 DEF Forks, WaitsBefore
  <2>5. CASE a = p
    <3>1. q = c
      BY <2>1, <2>4, <2>5
    <3> QED BY <1>n, <2>1, <2>5, <3>1 DEF WaitsBefore
  <2>6. CASE a # p
    <3>1. \E j \in Pids : Alive(j) /\ a < j /\ j <= q /\ root[a] = root[j]
      <4>1. CASE q = c
        <5>1. root[a] = root[p] /\ root[p] \notin broken /\ Alive(a)
          BY <2>1, <2>3, <4>1
        <5>2. a < p
          BY <1>n, <2>4, <2>6, <5>1
        <5>3. p < c
          BY <2>1, <2>2
        <5>4. p <= q
          BY <1>n, <4>1, <5>3
        <5> QED BY <2>1, <5>1, <5>2, <5>4
      <4>2. CASE q # c
        BY <1>n, <2>1, <2>3, <4>2
      <4> QED BY <4>1, <4>2
    <3>2. PICK j \in Pids : Alive(j) /\ a < j /\ j <= q /\ root[a] = root[j]
      BY <3>1
    <3>3. WaitsBefore(a, j)
      BY <1>c, <2>1, <2>3, <3>2
    <3>4. PICK z \in Pids : Alive(z) /\ parent[z] = a /\ z <= j
      BY <3>3 DEF WaitsBefore
    <3>5. z # c /\ z <= q
      BY <1>n, <2>1, <3>2, <3>4
    <3>6. pc'[a] = "child" /\ Alive(z)' /\ parent'[z] = a
      BY <2>1, <2>3, <2>6, <3>3, <3>4, <3>5 DEF WaitsBefore
    <3> QED BY <3>5, <3>6 DEF WaitsBefore
  <2> QED BY <2>5, <2>6
<1> QED BY <1>1, <1>2, <1>3, <1>4, <1>5, HostSteps

LEMMA FamilyKept ==
    ASSUME Family, Next
    PROVE  Family'
<1>1. /\ pc' \in [Pids -> {"none", "prompt", "read", "child", "gone"}]
      /\ parent' \in [Pids -> Pids \cup {NoPid}]
      /\ root' \in [Pids -> Pids \cup {NoPid}] /\ broken' \subseteq Pids
  <2> USE DEF Family, NoPid
  <2>1. CASE UNCHANGED <<pc, parent, families>>
    BY <2>1 DEF families
  <2>2. ASSUME NEW p \in Pids, Goes(p) PROVE <1>1!:
    BY <2>2 DEF Goes
  <2>3. ASSUME NEW p \in Pids, Starts(p) PROVE <1>1!:
    BY <2>3 DEF Starts
  <2>4. ASSUME NEW p \in Pids, Ends(p) PROVE <1>1!:
    BY <2>4 DEF Ends, Alive, Numbered
  <2>5. ASSUME NEW p \in Pids, NEW c \in Pids, Forks(p, c) PROVE <1>1!:
    BY <2>5 DEF Forks
  <2> QED BY <2>1, <2>2, <2>3, <2>4, <2>5, HostSteps
<1> QED BY <1>1, NumberedKept, ChainKept DEF Family

----------------------------------------------------------------------------
(* What a step does to the histories and the semaphore.                    *)

\* The steps of the loop that come back to the prompt with a permit to give,
\* what is stored and shown by them.
Writes(p) ==
    /\ pc[p] \in {"read", "child"}
    /\ pc' = [pc EXCEPT ![p] = "prompt"]
    /\ \E g \in AHistory, s \in Seq(Names) :
          /\ hist' = [hist EXCEPT ![p] = g]
          /\ screen' = [screen EXCEPT ![p] = s]
          /\ Settled(g, lines') /\ Shows(s, g)
    /\ SEM_signal(p)
    /\ connected' \in [Pids -> BOOLEAN]
    /\ UNCHANGED <<cleaner, parent, holding>>

\* The fork that leaves a second Fremen.
Leaves(p, c) ==
    /\ pc[p] = "read" /\ pc[c] = "none"
    /\ pc' = [pc EXCEPT ![p] = "child", ![c] = "prompt"]
    /\ parent' = [parent EXCEPT ![c] = p]
    /\ \E h \in AHistory, g \in AHistory, s \in Seq(Names),
          n \in Names, t \in BOOLEAN :
          /\ hist' = [hist EXCEPT ![p] = h, ![c] = g]
          /\ holding' = [holding EXCEPT ![p] = [command |-> n, tail |-> t]]
          /\ screen' = [screen EXCEPT ![c] = s]
          /\ IsHistory(h, lines) /\ Shows(screen[p], h)
          /\ t \/ h.list.poi = Length(h)
          /\ Settled(g, lines') /\ Shows(s, g)
    /\ val' = IF p \in knows THEN val + 1 ELSE val
    /\ adj' = IF p \in knows THEN [adj EXCEPT ![c] = -1] ELSE adj
    /\ knows' = IF p \in knows THEN knows \cup {c} ELSE knows
    /\ connected' \in [Pids -> BOOLEAN]
    /\ UNCHANGED <<cleaner, made, zeroed>>

\* A line was typed, or none.
Counts(n) == /\ MayWork(n) /\ n \in {0, 1} /\ lines' = lines + n
             /\ UNCHANGED <<started, blanks>>

\* A settled history is a history.
LEMMA SettledIsHistory ==
    ASSUME NEW h, NEW n, Settled(h, n)
    PROVE  h \in AHistory
  BY DEF Settled, IsHistory, AHistory

\* A command that returns with a history whose cursor is moved to the end, or is
\* there, leaves a settled one.
LEMMA ReturnsWrites ==
    ASSUME HostTypes, NEW p \in Pids, pc[p] \in {"read", "child"},
           NEW h, NEW tail \in BOOLEAN, IsHistory(h, lines'), lines' \in Nat,
           tail \/ h.list.poi = Length(h), Returns(p, h, tail),
           NEW s \in Seq(Names), screen' = [screen EXCEPT ![p] = s],
           Shows(s, h),
           connected' \in [Pids -> BOOLEAN]
    PROVE  Writes(p)
<1> DEFINE g == Settle(h, tail)
<1>1. Settled(g, lines') /\ Commands(g) = Commands(h)
  BY SettleSettles
<1>2. g \in AHistory
  BY <1>1, SettledIsHistory
<1>3. Shows(s, g)
  BY <1>1 DEF Shows, Length
<1> QED BY <1>1, <1>2, <1>3 DEF Returns, Writes

\* Every command does so, or leaves a second Fremen.
LEMMA ExecuteWrites ==
    ASSUME HostTypes, NEW p \in Pids, pc[p] = "read",
           Shows(screen[p], hist[p]),
           NEW h, IsHistory(h, lines), Commands(h) = Commands(hist[p]),
           NEW tail \in BOOLEAN, tail \/ h.list.poi = Length(h),
           NEW command \in Names, lines' = lines + 1,
           Execute(p, h, command, tail)
    PROVE  Writes(p) \/ \E c \in Pids : Leaves(p, c)
<1>1. lines \in Nat /\ lines' \in Nat /\ screen \in [Pids -> Seq(Names)]
      /\ connected \in [Pids -> BOOLEAN]
  BY DEF HostTypes
<1>2. IsHistory(h, lines') /\ Shows(screen[p], h)
  BY <1>1 DEF IsHistory, Shows, Length, Commands
<1>3. ASSUME Returns(p, h, tail), screen' = screen, connected' = connected
      PROVE  Writes(p)
  <2>1. screen' = [screen EXCEPT ![p] = screen[p]] /\ screen[p] \in Seq(Names)
    BY <1>1, <1>3
  <2> QED BY <1>1, <1>2, <1>3, <2>1, ReturnsWrites
<1>4. ASSUME NEW c \in Names
      PROVE  LET g == Store(h, c)
             IN  /\ Settled(g, lines') /\ IsHistory(g, lines')
                 /\ g.list.poi = Length(g)
                 /\ Commands(g) = Append(Commands(h), c)
  BY <1>1, StoreSettled DEF Settled
<1>5. ASSUME NEW c \in Names, NEW s, Returns(p, Store(h, c), tail),
             Shows(s, Store(h, c)), screen' = [screen EXCEPT ![p] = s],
             connected' \in [Pids -> BOOLEAN]
      PROVE  Writes(p)
  <2>1. s \in Seq(Names)
    BY <1>5 DEF Shows
  <2> QED BY <1>1, <1>4, <1>5, <2>1, ReturnsWrites
<1>6. ASSUME NEW c \in Names PROVE Shows(Renumber(p, c), Store(h, c))
  BY <1>1, <1>2, <1>4, RenumberShows
<1>7. CASE command = "login" /\ Login(p, h, tail)
  <2>1. CASE Returns(p, h, tail) /\ UNCHANGED <<connected, screen>>
    BY <1>3, <2>1
  <2>2. CASE /\ Returns(p, Store(h, "login"), tail)
             /\ screen' = [screen EXCEPT ![p] = Renumber(p, "login")]
             /\ \E ok \in BOOLEAN : connected' = [connected EXCEPT ![p] = ok]
    BY <1>1, <1>5, <1>6, <1>7, <2>2
  <2> QED BY <1>7, <2>1, <2>2 DEF Login
<1>8. CASE command = "search" /\ Search(p, h, tail)
  BY <1>1, <1>5, <1>6, <1>8 DEF Search
<1>9. CASE command = "showbuffer" /\ ShowBuffer(p, h, tail)
  <2>1. CASE h.used
    <3>1. Shows(Listing(h, "showbuffer"), Store(h, "showbuffer"))
      BY <1>1, <1>4, <1>9, ListingShows
    <3> QED BY <1>1, <1>5, <1>9, <2>1, <3>1 DEF ShowBuffer
  <2>2. CASE ~h.used
    <3>1. screen' = screen
      BY <1>1, <1>9, <2>2 DEF ShowBuffer
    <3> QED BY <1>3, <1>9, <2>2, <3>1 DEF ShowBuffer
  <2> QED BY <2>1, <2>2
<1>10. CASE command = "unknown" /\ Unknown(p, h, tail)
  <2>1. CASE Unused = {} /\ Returns(p, h, tail)
        /\ UNCHANGED <<connected, screen>>
    BY <1>3, <2>1
  <2>2. CASE Unused # {} /\ ~(Unused = {})
    <3> DEFINE c == Smallest(Unused)
               s == Store(h, "unknown")
               g == Settle(s, tail)
    <3>1. c \in Pids /\ pc[c] = "none"
      BY <2>2, UnusedIsPid
    <3>2. "unknown" \in Names
      BY <1>10
    <3>3. Settled(g, lines') /\ Commands(g) = Commands(s)
      BY <1>1, <1>4, <3>2, SettleSettles
    <3>4. Shows(Renumber(p, "unknown"), s)
      BY <1>6, <3>2
    <3>5. Shows(Renumber(p, "unknown"), g)
      BY <3>3, <3>4 DEF Shows, Length
    <3>6. g \in AHistory /\ h \in AHistory
          /\ Renumber(p, "unknown") \in Seq(Names)
      BY <3>3, <3>5, SettledIsHistory DEF Shows, IsHistory, AHistory
    <3>7. connected' \in [Pids -> BOOLEAN]
      BY <1>1, <1>10, <2>2, <3>1 DEF Unknown
    <3> HIDE DEF c, g
    <3>8. \E hh \in AHistory, gg \in AHistory, ss \in Seq(Names),
             n \in Names, t \in BOOLEAN :
             /\ hist' = [hist EXCEPT ![p] = hh, ![c] = gg]
             /\ holding' = [holding EXCEPT ![p] = [command |-> n, tail |-> t]]
             /\ screen' = [screen EXCEPT ![c] = ss]
             /\ IsHistory(hh, lines) /\ Shows(screen[p], hh)
             /\ t \/ hh.list.poi = Length(hh)
             /\ Settled(gg, lines') /\ Shows(ss, gg)
      <4>1. /\ hist' = [hist EXCEPT ![p] = h, ![c] = g]
            /\ holding' = [holding EXCEPT
                             ![p] = [command |-> "unknown", tail |-> tail]]
            /\ screen' = [screen EXCEPT ![c] = Renumber(p, "unknown")]
        BY <1>10, <2>2 DEF Unknown, c, g
      <4> QED BY <1>2, <3>2, <3>3, <3>5, <3>6, <4>1
    <3>9. Leaves(p, c)
      <4>1. /\ pc' = [pc EXCEPT ![p] = "child", ![c] = "prompt"]
            /\ parent' = [parent EXCEPT ![c] = p]
            /\ val' = IF p \in knows THEN val + 1 ELSE val
            /\ adj' = IF p \in knows THEN [adj EXCEPT ![c] = -1] ELSE adj
            /\ knows' = IF p \in knows THEN knows \cup {c} ELSE knows
            /\ UNCHANGED <<cleaner, made, zeroed>>
        BY <1>10, <2>2 DEF Unknown, c
      <4> QED BY <3>1, <3>7, <3>8, <4>1 DEF Leaves
    <3> QED BY <3>1, <3>9
  <2> QED BY <1>10, <2>1, <2>2 DEF Unknown
<1> QED BY <1>7, <1>8, <1>9, <1>10 DEF Execute

\* A line that is typed does what its command does.
LEMMA TypeWrites ==
    ASSUME HostTypes, Histories, NEW p \in Pids, NEW command \in Names,
           Type(p, command)
    PROVE  Counts(1) /\ (Writes(p) \/ \E c \in Pids : Leaves(p, c))
<1>1. pc[p] = "read" /\ lines' = lines + 1 /\ Counts(1)
      /\ Execute(p, Begin(hist[p]), command, FALSE)
  BY DEF Type, Counts
<1>2. /\ Settled(hist[p], lines) /\ IsHistory(hist[p], lines) /\ lines \in Nat
      /\ hist[p].list.poi = Length(hist[p]) /\ Shows(screen[p], hist[p])
  BY <1>1 DEF HostTypes, Histories, Kept, Settled
<1>3. Execute(p, hist[p], command, FALSE)
  BY <1>1, <1>2, BeginKeeps
<1> QED BY <1>1, <1>2, <1>3, ExecuteWrites

\* And so does `last`, with the cursor back where the command was found.
LEMMA TypeLastWrites ==
    ASSUME HostTypes, Histories, NEW p \in Pids, NEW index \in Nat,
           TypeLast(p, index)
    PROVE  Counts(1) /\ (Writes(p) \/ \E c \in Pids : Leaves(p, c))
<1> DEFINE h == hist[p]
           moved == [h EXCEPT !.list = Back(@, index)]
           command == BIDIRECTIONALLIST_get(moved.list)
           tail == index > 0
<1>1. pc[p] = "read" /\ lines' = lines + 1 /\ Counts(1)
  BY DEF TypeLast, Counts
<1>2. /\ Settled(h, lines) /\ IsHistory(h, lines) /\ lines \in Nat
      /\ h.list.poi = Length(h) /\ Shows(screen[p], h)
      /\ screen \in [Pids -> Seq(Names)] /\ connected \in [Pids -> BOOLEAN]
  BY <1>1 DEF HostTypes, Histories, Kept, Settled
<1>3. \/ Returns(p, h, FALSE) /\ UNCHANGED <<connected, screen>>
      \/ command # Uninitialised /\ Execute(p, moved, command, tail)
      \/ \E i \in DOMAIN h.list.elements :
            Execute(p, moved, h.list.elements[i], tail)
  <2>1. Begin(hist[p]) = h
    BY <1>2, BeginKeeps
  <2> QED BY <2>1 DEF TypeLast
<1>4. /\ IsHistory(moved, lines) /\ Commands(moved) = Commands(h)
      /\ index = 0 => moved.list.poi = h.list.poi
  BY <1>2, BackKeeps
<1>5. tail \in BOOLEAN /\ (tail \/ moved.list.poi = Length(moved))
  BY <1>2, <1>4 DEF Length
<1>6. command \in Names \cup {Uninitialised}
  BY <1>2, <1>4, GetIsName
<1>7. \A i \in DOMAIN h.list.elements : h.list.elements[i] \in Names
  BY <1>2 DEF IsHistory
<1> HIDE DEF h, moved, command, tail
<1>8. ASSUME NEW n \in Names, Execute(p, moved, n, tail)
      PROVE  Writes(p) \/ \E c \in Pids : Leaves(p, c)
  BY <1>1, <1>2, <1>4, <1>5, <1>8, ExecuteWrites DEF h
<1>9. ASSUME Returns(p, h, FALSE), UNCHANGED <<connected, screen>>
      PROVE  Writes(p)
  <2>1. screen' = [screen EXCEPT ![p] = screen[p]] /\ screen[p] \in Seq(Names)
    BY <1>2, <1>9
  <2>2. IsHistory(h, lines') /\ lines' \in Nat
    BY <1>1, <1>2 DEF IsHistory
  <2> QED BY <1>1, <1>2, <1>9, <2>1, <2>2, ReturnsWrites DEF h
<1> QED BY <1>1, <1>3, <1>6, <1>7, <1>8, <1>9

\* And the end of a child, after which the parent stores the command.
LEMMA ChildEndsWrites ==
    ASSUME HostTypes, Histories, NEW p \in Pids, ChildEnds(p)
    PROVE  Counts(0) /\ Writes(p)
<1> DEFINE h == hist[p]
           command == holding[p].command
           tail == holding[p].tail
           g == Store(h, command)
<1>1. /\ pc[p] = "child" /\ Returns(p, g, tail)
      /\ screen' = [screen EXCEPT ![p] = Renumber(p, command)]
      /\ UNCHANGED <<connected, counters>>
  BY DEF ChildEnds
<1>2. /\ lines \in Nat /\ started \in Nat /\ blanks \in Nat
      /\ 2 * started + blanks + lines <= MaxWork
      /\ connected \in [Pids -> BOOLEAN] /\ tail \in BOOLEAN
  BY DEF HostTypes, AHolding
<1>3. Counts(0) /\ lines' = lines
  BY <1>1, <1>2 DEF Counts, MayWork, counters
<1>4. /\ IsHistory(h, lines) /\ Length(h) < lines /\ command \in Names
      /\ Shows(screen[p], h)
  BY <1>1 DEF Histories, Kept
<1>5. Length(h) \in Nat
  BY <1>4 DEF IsHistory, Length, Commands
<1>6. IsHistory(h, lines - 1) /\ lines - 1 \in Nat /\ (lines - 1) + 1 = lines
  BY <1>2, <1>4, <1>5 DEF IsHistory
<1>7. Settled(g, lines) /\ Commands(g) = Append(Commands(h), command)
  BY <1>4, <1>6, StoreSettled
<1>8. Shows(Renumber(p, command), g)
  BY <1>4, <1>2, <1>7, RenumberShows
<1>9. IsHistory(g, lines') /\ lines' \in Nat /\ g.list.poi = Length(g)
      /\ Renumber(p, command) \in Seq(Names)
      /\ connected' \in [Pids -> BOOLEAN]
  BY <1>1, <1>2, <1>3, <1>7, <1>8 DEF Settled, Shows
<1> HIDE DEF g, command, tail
<1> QED BY <1>1, <1>2, <1>3, <1>8, <1>9, ReturnsWrites

\* A step of the host, or a kill by Harkonen.
HostNext == FremenNext \/ \E p \in Pids : Dies(p)

\* Every step of the host, by what it does to its state.
LEMMA FremenSteps ==
    ASSUME HostTypes, Histories, HostNext
    PROVE  \/ Start
           \/ \E p \in Pids : \/ Prompt(p) \/ Blank(p) \/ CleanerStarts(p)
                              \/ CleanerDone(p) \/ CleanerWakes(p)
                              \/ exitFremen(p) \/ Dies(p)
           \/ \E p \in Pids, n \in {0, 1} : Counts(n) /\ Writes(p)
           \/ \E p, c \in Pids : Counts(1) /\ Leaves(p, c)
<1>1. ASSUME NEW p \in Pids, ChildEnds(p)
      PROVE  \E q \in Pids, n \in {0, 1} : Counts(n) /\ Writes(q)
  BY <1>1, ChildEndsWrites
<1>2. ASSUME NEW p \in Pids, NEW command \in Names, Type(p, command)
      PROVE  \/ \E q \in Pids, n \in {0, 1} : Counts(n) /\ Writes(q)
             \/ \E q, c \in Pids : Counts(1) /\ Leaves(q, c)
  BY <1>2, TypeWrites
<1>3. ASSUME NEW p \in Pids, NEW index \in 0..MaxIndex, TypeLast(p, index)
      PROVE  \/ \E q \in Pids, n \in {0, 1} : Counts(n) /\ Writes(q)
             \/ \E q, c \in Pids : Counts(1) /\ Leaves(q, c)
  <2>1. index \in Nat
    BY ProcessesAssumption
  <2> QED BY <1>3, <2>1, TypeLastWrites
<1>4. ASSUME NEW p \in Pids, Crashes(p) PROVE Dies(p)
  BY <1>4 DEF Crashes
<1> QED
  BY <1>1, <1>2, <1>3, <1>4 DEF HostNext, FremenNext, LoopSteps, CleanerSteps

----------------------------------------------------------------------------
\* Every step keeps the types.
LEMMA TypesKept ==
    ASSUME Family, HostTypes, Histories, HostNext
    PROVE  HostTypes'
<1> USE DEF HostTypes
<1>1. CASE Start
  BY <1>1, UnusedIsPid DEF Start, MayWork
<1>2. ASSUME NEW p \in Pids, Prompt(p) PROVE HostTypes'
  BY <1>2 DEF Prompt, SEM_wait, counters
<1>3. ASSUME NEW p \in Pids, Blank(p) PROVE HostTypes'
  BY <1>3 DEF Blank, MayWork, semaphore
<1>4. ASSUME NEW p \in Pids, CleanerStarts(p) PROVE HostTypes'
  BY <1>4 DEF CleanerStarts, counters
<1>5. ASSUME NEW p \in Pids, CleanerDone(p) PROVE HostTypes'
  BY <1>5 DEF CleanerDone, SEM_signal, counters
<1>6. ASSUME NEW p \in Pids, CleanerWakes(p) PROVE HostTypes'
  BY <1>6 DEF CleanerWakes, SEM_wait, counters
<1>7. ASSUME NEW p \in Pids, exitFremen(p) \/ Dies(p) PROVE HostTypes'
  <2>1. /\ Gone(p)
        /\ SEM_destructor(p) \/ Undo(p)
    BY <1>7 DEF exitFremen, Dies
  <2>2. NoHistory \in AHistory /\ Nothing \in AHolding
    BY NoHistorySettled, SettledIsHistory DEF Nothing, AHolding
  <2>3. /\ cleaner' \in [Pids -> {"none", "start", "sleep", "clean"}]
        /\ hist' \in [Pids -> AHistory]
        /\ connected' \in [Pids -> BOOLEAN]
        /\ holding' \in [Pids -> AHolding]
        /\ screen' \in [Pids -> Seq(Names)]
        /\ UNCHANGED <<started, blanks, lines>>
    BY <2>1, <2>2 DEF Gone, counters
  <2>4. /\ made' \in BOOLEAN /\ zeroed' \in BOOLEAN
        /\ knows' \subseteq Pids /\ (knows' # {} => made')
        /\ val' \in Nat /\ adj' \in [Pids -> Int]
    <3>1. CASE Undo(p)
      BY <3>1 DEF Undo
    <3>2. CASE /\ made' = FALSE /\ knows' = {} /\ val' = 0
               /\ adj' = [q \in Pids |-> 0] /\ UNCHANGED zeroed
      <4>1. adj' \in [Pids -> Int] /\ val' \in Nat
        BY <3>2
      <4>2. knows' \subseteq Pids /\ ~(knows' # {}) /\ made' \in BOOLEAN
            /\ zeroed' \in BOOLEAN
        BY <3>2
      <4> QED BY <4>1, <4>2
    <3> QED BY <2>1, <3>1, <3>2 DEF SEM_destructor
  <2> QED BY <2>3, <2>4
<1>8. ASSUME NEW p \in Pids, NEW n \in {0, 1}, Counts(n), Writes(p)
      PROVE  HostTypes'
  <2>1. /\ hist' \in [Pids -> AHistory] /\ screen' \in [Pids -> Seq(Names)]
        /\ connected' \in [Pids -> BOOLEAN] /\ UNCHANGED <<cleaner, holding>>
    <3>1. PICK g \in AHistory, s \in Seq(Names) :
             hist' = [hist EXCEPT ![p] = g]
             /\ screen' = [screen EXCEPT ![p] = s]
      BY <1>8 DEF Writes
    <3> QED BY <1>8, <3>1 DEF Writes
  <2>2. /\ UNCHANGED <<made, zeroed, knows>>
        /\ val' \in Nat /\ adj' \in [Pids -> Int]
    BY <1>8 DEF Writes, SEM_signal
  <2>3. /\ started' \in Nat /\ blanks' \in Nat /\ lines' \in Nat
        /\ 2 * started' + blanks' + lines' <= MaxWork
    BY <1>8 DEF Counts, MayWork
  <2> QED BY <2>1, <2>2, <2>3
<1>9. ASSUME NEW p \in Pids, NEW c \in Pids, Counts(1), Leaves(p, c)
      PROVE  HostTypes'
  <2>1. /\ hist' \in [Pids -> AHistory] /\ screen' \in [Pids -> Seq(Names)]
        /\ holding' \in [Pids -> AHolding]
        /\ connected' \in [Pids -> BOOLEAN] /\ UNCHANGED cleaner
    <3>1. PICK h \in AHistory, g \in AHistory, s \in Seq(Names),
               n \in Names, t \in BOOLEAN :
             /\ hist' = [hist EXCEPT ![p] = h, ![c] = g]
             /\ holding' = [holding EXCEPT ![p] = [command |-> n, tail |-> t]]
             /\ screen' = [screen EXCEPT ![c] = s]
             /\ IsHistory(h, lines) /\ Shows(screen[p], h)
             /\ t \/ h.list.poi = Length(h)
             /\ Settled(g, lines') /\ Shows(s, g)
      <4> HIDE DEF HostTypes
      <4> QED BY <1>9 DEF Leaves
    <3>2. [command |-> n, tail |-> t] \in AHolding
      BY DEF AHolding
    <3> QED BY <1>9, <3>1, <3>2 DEF Leaves
  <2>2. /\ UNCHANGED <<made, zeroed>>
        /\ knows' \subseteq Pids /\ (knows' # {} => made')
        /\ val' \in Nat /\ adj' \in [Pids -> Int]
    <3>1. /\ UNCHANGED <<made, zeroed>>
          /\ val' = IF p \in knows THEN val + 1 ELSE val
          /\ adj' = IF p \in knows THEN [adj EXCEPT ![c] = -1] ELSE adj
          /\ knows' = IF p \in knows THEN knows \cup {c} ELSE knows
      BY <1>9 DEF Leaves
    <3>2. CASE p \in knows
      <4>1. knows # {}
        BY <3>2
      <4> QED BY <3>1, <3>2, <4>1
    <3>3. CASE p \notin knows
      BY <3>1, <3>3
    <3> QED BY <3>2, <3>3
  <2>3. /\ started' \in Nat /\ blanks' \in Nat /\ lines' \in Nat
        /\ 2 * started' + blanks' + lines' <= MaxWork
    BY <1>9 DEF Counts, MayWork
  <2> QED BY <2>1, <2>2, <2>3
<1> QED BY <1>1, <1>2, <1>3, <1>4, <1>5, <1>6, <1>7, <1>8, <1>9, FremenSteps

----------------------------------------------------------------------------
\* What a step leaves alone keeps its history, also when lines are typed
\* elsewhere.
LEMMA KeptElsewhere ==
    ASSUME NEW q \in Pids, Kept(q), lines \in Nat, lines' \in Nat,
           lines <= lines',
           hist'[q] = hist[q], screen'[q] = screen[q],
           holding'[q] = holding[q],
           pc'[q] = pc[q] \/ {pc'[q], pc[q]} \subseteq {"prompt", "read"},
           cleaner'[q] = cleaner[q] \/ Alive(q),
           q \in knows' => q \in knows \/ Alive(q)
    PROVE  Kept(q)'
<1>1. IsHistory(hist'[q], lines')
  BY DEF Kept, IsHistory, Length, Commands
<1>2. Shows(screen'[q], hist'[q])
  BY DEF Kept
<1>3. IF pc'[q] = "child"
      THEN /\ Length(hist'[q]) < lines'
           /\ holding'[q].command \in Names
           /\ holding'[q].tail \/ hist'[q].list.poi = Length(hist'[q])
      ELSE hist'[q].list.poi = Length(hist'[q])
  <2>1. Length(hist[q]) \in Nat
    BY DEF Kept, IsHistory, Length, Commands
  <2> QED BY <2>1 DEF Kept
<1>4. pc'[q] \in {"none", "gone"} =>
         /\ hist'[q] = NoHistory /\ screen'[q] = <<>>
         /\ cleaner'[q] = "none" /\ q \notin knows'
  BY DEF Kept, Alive
<1> QED BY <1>1, <1>2, <1>3, <1>4 DEF Kept, Alive

\* Every step keeps the histories, and what the screens show of them.
LEMMA HistoriesKept ==
    ASSUME Family, HostTypes, Histories, HostNext
    PROVE  Histories'
<1> USE DEF Histories
<1>0. /\ pc \in [Pids -> {"none", "prompt", "read", "child", "gone"}]
      /\ cleaner \in [Pids -> {"none", "start", "sleep", "clean"}]
      /\ hist \in [Pids -> AHistory]
      /\ holding \in [Pids -> AHolding]
      /\ screen \in [Pids -> Seq(Names)]
      /\ lines \in Nat
  BY DEF HostTypes, Family
<1>1. CASE Start
  <2>0. PICK p \in Pids : p = Smallest(Unused) /\ pc[p] = "none"
    BY <1>1, UnusedIsPid DEF Start
  <2>1. p \in Pids /\ pc[p] = "none"
    BY <2>0
  <2>2. /\ pc' = [pc EXCEPT ![p] = "prompt"]
        /\ cleaner' = [cleaner EXCEPT ![p] = "start"]
        /\ knows' = knows \cup {p}
        /\ UNCHANGED <<hist, screen, holding, lines>>
    BY <1>1, <2>0 DEF Start
  <2>3. ASSUME NEW q \in Pids, q # p PROVE Kept(q)'
    BY <1>0, <2>1, <2>2, <2>3, KeptElsewhere
  <2>4. Kept(p)'
    <3>1. /\ hist'[p] = hist[p] /\ screen'[p] = screen[p] /\ lines' = lines
          /\ pc'[p] = "prompt"
      BY <1>0, <2>1, <2>2
    <3>2. /\ IsHistory(hist[p], lines) /\ Shows(screen[p], hist[p])
          /\ hist[p].list.poi = Length(hist[p])
      BY <2>1 DEF Kept
    <3> QED BY <3>1, <3>2 DEF Kept, Alive
  <2> QED BY <2>3, <2>4
<1>2. ASSUME NEW p \in Pids, Prompt(p) \/ Blank(p) \/ CleanerStarts(p)
                             \/ CleanerDone(p) \/ CleanerWakes(p)
      PROVE  Histories'
  <2>1. /\ UNCHANGED <<hist, screen, holding, lines>>
        /\ knows' \subseteq knows \cup {p} /\ Alive(p)
        /\ \A q \in Pids : cleaner'[q] = cleaner[q] \/ q = p
        /\ \A q \in Pids : pc'[q] = pc[q]
                           \/ {pc'[q], pc[q]} \subseteq {"prompt", "read"}
    <3>1. CASE Prompt(p)
      BY <1>0, <3>1 DEF Prompt, SEM_wait, counters, Alive
    <3>2. CASE Blank(p)
      BY <1>0, <3>2 DEF Blank, semaphore, Alive
    <3>3. CASE CleanerStarts(p)
      BY <1>0, <3>3 DEF CleanerStarts, counters
    <3>4. CASE CleanerDone(p)
      BY <1>0, <3>4 DEF CleanerDone, SEM_signal, counters
    <3>5. CASE CleanerWakes(p)
      BY <1>0, <3>5 DEF CleanerWakes, SEM_wait, counters
    <3> QED BY <1>2, <3>1, <3>2, <3>3, <3>4, <3>5
  <2>2. ASSUME NEW q \in Pids PROVE Kept(q)'
    <3>1. /\ hist'[q] = hist[q] /\ screen'[q] = screen[q]
          /\ holding'[q] = holding[q]
          /\ lines \in Nat /\ lines' \in Nat /\ lines <= lines'
      BY <1>0, <2>1
    <3>2. /\ pc'[q] = pc[q] \/ {pc'[q], pc[q]} \subseteq {"prompt", "read"}
          /\ cleaner'[q] = cleaner[q] \/ Alive(q)
          /\ q \in knows' => q \in knows \/ Alive(q)
      BY <2>1
    <3> QED BY <3>1, <3>2, KeptElsewhere
  <2> QED BY <2>2
<1>3. ASSUME NEW p \in Pids, exitFremen(p) \/ Dies(p) PROVE Histories'
  <2>1. /\ Gone(p)
        /\ knows' \subseteq knows \ {p}
    BY <1>3 DEF exitFremen, Dies, SEM_destructor, Undo
  <2>2. ASSUME NEW q \in Pids, q # p PROVE Kept(q)'
    BY <1>0, <2>1, <2>2, KeptElsewhere DEF Gone, counters
  <2>3. /\ pc'[p] = "gone" /\ hist'[p] = NoHistory /\ screen'[p] = <<>>
        /\ cleaner'[p] = "none" /\ p \notin knows' /\ lines' \in Nat
    BY <1>0, <2>1 DEF Gone, counters
  <2>4. /\ IsHistory(NoHistory, lines')
        /\ NoHistory.list.poi = Length(NoHistory)
        /\ Shows(<<>>, NoHistory)
    BY <2>3, NoHistorySettled DEF Settled, IsHistory, Shows, Length, Commands
  <2>5. Kept(p)'
    BY <2>3, <2>4 DEF Kept, Alive
  <2> QED BY <2>2, <2>5
<1>4. ASSUME NEW p \in Pids, NEW n \in {0, 1}, Counts(n), Writes(p)
      PROVE  Histories'
  <2>1. PICK g \in AHistory, s \in Seq(Names) :
          /\ hist' = [hist EXCEPT ![p] = g]
          /\ screen' = [screen EXCEPT ![p] = s]
          /\ Settled(g, lines') /\ Shows(s, g)
    BY <1>4 DEF Writes
  <2>2. /\ pc' = [pc EXCEPT ![p] = "prompt"]
        /\ UNCHANGED <<cleaner, holding, knows>>
        /\ lines' \in Nat /\ lines <= lines'
    BY <1>0, <1>4 DEF Writes, SEM_signal, Counts
  <2>3. ASSUME NEW q \in Pids, q # p PROVE Kept(q)'
    BY <1>0, <2>1, <2>2, <2>3, KeptElsewhere
  <2>4. hist'[p] = g /\ screen'[p] = s /\ pc'[p] = "prompt"
    BY <1>0, <2>1, <2>2
  <2>5. Kept(p)'
    BY <2>1, <2>4 DEF Kept, Settled, Alive
  <2> QED BY <2>3, <2>5
<1>5. ASSUME NEW p \in Pids, NEW c \in Pids, Counts(1), Leaves(p, c)
      PROVE  Histories'
  <2>1. PICK h \in AHistory, g \in AHistory, s \in Seq(Names),
             n \in Names, t \in BOOLEAN :
          /\ hist' = [hist EXCEPT ![p] = h, ![c] = g]
          /\ holding' = [holding EXCEPT ![p] = [command |-> n, tail |-> t]]
          /\ screen' = [screen EXCEPT ![c] = s]
          /\ IsHistory(h, lines) /\ Shows(screen[p], h)
          /\ t \/ h.list.poi = Length(h)
          /\ Settled(g, lines') /\ Shows(s, g)
    BY <1>5 DEF Leaves
  <2>2. /\ pc' = [pc EXCEPT ![p] = "child", ![c] = "prompt"]
        /\ UNCHANGED cleaner
        /\ knows' \subseteq knows \cup {c} /\ p # c /\ Alive(p)
        /\ lines' = lines + 1
    BY <1>5 DEF Leaves, Counts, Alive
  <2>3. ASSUME NEW q \in Pids, q # p, q # c PROVE Kept(q)'
    BY <1>0, <2>1, <2>2, <2>3, KeptElsewhere
  <2>4. hist'[c] = g /\ screen'[c] = s /\ pc'[c] = "prompt"
    BY <1>0, <2>1, <2>2
  <2>5. Kept(c)'
    BY <2>1, <2>4 DEF Kept, Settled, Alive
  <2>6. /\ hist'[p] = h /\ screen'[p] = screen[p] /\ pc'[p] = "child"
        /\ holding'[p] = [command |-> n, tail |-> t]
    BY <1>0, <2>1, <2>2
  <2>7. IsHistory(h, lines') /\ Length(h) < lines'
    <3>1. Length(h) \in Nat /\ Length(h) <= lines
      BY <2>1 DEF IsHistory, Length, Commands
    <3> QED BY <1>0, <2>1, <2>2, <3>1 DEF IsHistory
  <2>8. Kept(p)'
    BY <2>1, <2>6, <2>7 DEF Kept, Alive
  <2> QED BY <2>3, <2>5, <2>8
<1> QED BY <1>1, <1>2, <1>3, <1>4, <1>5, FremenSteps

----------------------------------------------------------------------------
\* Each of the two threads holds one permit at most.
LEMMA HeldBounds ==
    \A p \in Pids : Held(p) \in 0..2
  BY DEF Held

\* A process that does not take or give a permit, or whose counts were set to
\* zero.
LEMMA CountedElsewhere ==
    ASSUME NEW q \in Pids, HostTypes, Counted(q),
           blanks' \in Nat, blanks <= blanks',
           pc'[q] \in {"read", "child"} <=> pc[q] \in {"read", "child"},
           cleaner'[q] = "clean" <=> cleaner[q] = "clean",
           adj'[q] = 0 \/ (adj'[q] = adj[q] /\ (q \in knows => q \in knows'))
    PROVE  Counted(q)'
<1>1. Held(q)' = Held(q)
  BY DEF Held
<1>2. Held(q) \in 0..2 /\ adj[q] \in Int /\ blanks \in Nat
  BY HeldBounds DEF HostTypes
<1> QED BY <1>1, <1>2 DEF Counted

\* Every step keeps what SEM_UNDO has of each process within its bounds.
LEMMA PermitsKept ==
    ASSUME Family, HostTypes, Histories, Permits, HostNext
    PROVE  Permits'
<1> USE DEF Permits
<1>0. /\ pc \in [Pids -> {"none", "prompt", "read", "child", "gone"}]
      /\ cleaner \in [Pids -> {"none", "start", "sleep", "clean"}]
      /\ adj \in [Pids -> Int] /\ knows \subseteq Pids
      /\ blanks \in Nat /\ val \in Nat
  BY DEF HostTypes, Family
<1>h. \A p \in Pids : Held(p) \in 0..2
  BY HeldBounds
<1>w. ASSUME NEW p \in Pids, SEM_wait(p), Held(p)' = Held(p) + 1,
             Held(p) \in {0, 1}, blanks' = blanks
      PROVE  Counted(p)'
  BY <1>0, <1>h, <1>w DEF SEM_wait, Counted
<1>s. ASSUME NEW p \in Pids, SEM_signal(p), Held(p)' = Held(p) - 1,
             Held(p) \in {1, 2},
             blanks' = blanks
      PROVE  Counted(p)'
  BY <1>0, <1>h, <1>s DEF SEM_signal, Counted
<1>1. CASE Start
  <2>0. PICK p \in Pids : p = Smallest(Unused) /\ pc[p] = "none"
    BY <1>1, UnusedIsPid DEF Start
  <2>1. /\ pc' = [pc EXCEPT ![p] = "prompt"]
        /\ cleaner' = [cleaner EXCEPT ![p] = "start"]
        /\ adj' = [q \in Pids |-> 0] /\ blanks' = blanks
    BY <1>1, <2>0 DEF Start
  <2>2. cleaner[p] = "none"
    BY <2>0 DEF Histories, Kept, Alive
  <2>3. ASSUME NEW q \in Pids PROVE Counted(q)'
    BY <1>0, <2>0, <2>1, <2>2, CountedElsewhere
  <2> QED BY <2>3
<1>2. ASSUME NEW p \in Pids, Prompt(p) PROVE Permits'
  <2>1. Counted(p)'
    <3>1. pc[p] = "prompt" /\ pc'[p] = "read" /\ cleaner'[p] = cleaner[p]
          /\ SEM_wait(p)
          /\ blanks' = blanks
      BY <1>0, <1>2 DEF Prompt, counters
    <3>2. Held(p)' = Held(p) + 1 /\ Held(p) \in {0, 1}
      BY <3>1 DEF Held
    <3> QED BY <1>w, <3>1, <3>2
  <2>2. ASSUME NEW q \in Pids, q # p PROVE Counted(q)'
    BY <1>0, <1>2, <2>2, CountedElsewhere DEF Prompt, SEM_wait, counters
  <2> QED BY <2>1, <2>2
<1>3. ASSUME NEW p \in Pids, Blank(p) PROVE Permits'
  <2>0. /\ pc[p] = "read" /\ pc' = [pc EXCEPT ![p] = "prompt"]
        /\ UNCHANGED <<cleaner, adj, knows>> /\ blanks' = blanks + 1
    BY <1>3 DEF Blank, semaphore
  <2>1. Counted(p)'
    <3>1. Held(p)' = Held(p) - 1
      BY <1>0, <2>0 DEF Held
    <3> QED BY <1>0, <1>h, <2>0, <3>1 DEF Counted
  <2>2. ASSUME NEW q \in Pids, q # p PROVE Counted(q)'
    BY <1>0, <2>0, <2>2, CountedElsewhere
  <2> QED BY <2>1, <2>2
<1>4. ASSUME NEW p \in Pids, CleanerStarts(p) PROVE Permits'
  <2>0. /\ cleaner[p] = "start" /\ cleaner' = [cleaner EXCEPT ![p] = "sleep"]
        /\ UNCHANGED <<pc, adj, blanks>> /\ knows' = knows \cup {p}
    BY <1>4 DEF CleanerStarts, counters
  <2>1. ASSUME NEW q \in Pids PROVE Counted(q)'
    BY <1>0, <2>0, CountedElsewhere
  <2> QED BY <2>1
<1>5. ASSUME NEW p \in Pids, CleanerDone(p) PROVE Permits'
  <2>0. /\ cleaner[p] = "clean" /\ cleaner' = [cleaner EXCEPT ![p] = "sleep"]
        /\ UNCHANGED <<pc, blanks>> /\ SEM_signal(p)
    BY <1>5 DEF CleanerDone, counters
  <2>1. Counted(p)'
    <3>1. Held(p)' = Held(p) - 1 /\ Held(p) \in {1, 2}
      BY <1>0, <2>0 DEF Held
    <3> QED BY <1>s, <2>0, <3>1
  <2>2. ASSUME NEW q \in Pids, q # p PROVE Counted(q)'
    BY <1>0, <2>0, <2>2, CountedElsewhere DEF SEM_signal
  <2> QED BY <2>1, <2>2
<1>6. ASSUME NEW p \in Pids, CleanerWakes(p) PROVE Permits'
  <2>0. /\ cleaner[p] = "sleep" /\ cleaner' = [cleaner EXCEPT ![p] = "clean"]
        /\ UNCHANGED <<pc, blanks>> /\ SEM_wait(p)
    BY <1>6 DEF CleanerWakes, counters
  <2>1. Counted(p)'
    <3>1. Held(p)' = Held(p) + 1 /\ Held(p) \in {0, 1}
      BY <1>0, <2>0 DEF Held
    <3> QED BY <1>w, <2>0, <3>1
  <2>2. ASSUME NEW q \in Pids, q # p PROVE Counted(q)'
    BY <1>0, <2>0, <2>2, CountedElsewhere DEF SEM_wait
  <2> QED BY <2>1, <2>2
<1>7. ASSUME NEW p \in Pids, exitFremen(p) \/ Dies(p) PROVE Permits'
  <2>0. /\ pc' = [pc EXCEPT ![p] = "gone"]
        /\ cleaner' = [cleaner EXCEPT ![p] = "none"]
        /\ blanks' = blanks
        /\ SEM_destructor(p) \/ Undo(p)
    BY <1>7 DEF exitFremen, Dies, Gone, counters
  <2>1. Counted(p)'
    <3>1. adj'[p] = 0
      BY <1>0, <2>0 DEF SEM_destructor, Undo
    <3>2. Held(p)' = 0
      BY <1>0, <2>0 DEF Held
    <3> QED BY <1>0, <2>0, <3>1, <3>2 DEF Counted
  <2>2. ASSUME NEW q \in Pids, q # p PROVE Counted(q)'
    BY <1>0, <2>0, <2>2, CountedElsewhere DEF SEM_destructor, Undo
  <2> QED BY <2>1, <2>2
<1>8. ASSUME NEW p \in Pids, NEW n \in {0, 1}, Counts(n), Writes(p)
      PROVE  Permits'
  <2>0. /\ pc[p] \in {"read", "child"} /\ pc' = [pc EXCEPT ![p] = "prompt"]
        /\ UNCHANGED <<cleaner, blanks>> /\ SEM_signal(p)
    BY <1>8 DEF Writes, Counts
  <2>1. Counted(p)'
    <3>1. Held(p)' = Held(p) - 1 /\ Held(p) \in {1, 2}
      BY <1>0, <2>0 DEF Held
    <3> QED BY <1>s, <2>0, <3>1
  <2>2. ASSUME NEW q \in Pids, q # p PROVE Counted(q)'
    BY <1>0, <2>0, <2>2, CountedElsewhere DEF SEM_signal
  <2> QED BY <2>1, <2>2
<1>9. ASSUME NEW p \in Pids, NEW c \in Pids, Counts(1), Leaves(p, c)
      PROVE  Permits'
  <2>0. /\ pc[p] = "read" /\ pc[c] = "none"
        /\ pc' = [pc EXCEPT ![p] = "child", ![c] = "prompt"]
        /\ UNCHANGED <<cleaner, blanks>>
        /\ adj' = IF p \in knows THEN [adj EXCEPT ![c] = -1] ELSE adj
        /\ knows' = IF p \in knows THEN knows \cup {c} ELSE knows
    BY <1>9 DEF Leaves, Counts
  <2>1. cleaner[c] = "none" /\ c \notin knows
    BY <2>0 DEF Histories, Kept, Alive
  <2>2. Counted(c)'
    <3>1. Held(c)' = 0
      BY <1>0, <2>0, <2>1 DEF Held
    <3>2. adj'[c] \in {-1, 0} /\ (c \notin knows' => adj'[c] = 0)
      BY <1>0, <2>0, <2>1 DEF Counted
    <3> QED BY <1>0, <2>0, <3>1, <3>2 DEF Counted
  <2>3. ASSUME NEW q \in Pids, q # c PROVE Counted(q)'
    BY <1>0, <2>0, <2>3, CountedElsewhere
  <2> QED BY <2>2, <2>3
<1> QED BY <1>1, <1>2, <1>3, <1>4, <1>5, <1>6, <1>7, <1>8, <1>9, FremenSteps

----------------------------------------------------------------------------
\* What p has to give back changes by d: so do the sums from p on.
LEMMA LedgerMoves ==
    ASSUME HostTypes, Ledger, NEW p \in Pids, pc[p] # "gone",
           NEW d \in Int, 0 <= adj[p] + 2 + d,
           val' \in Int, val' + d <= val,
           pc'[p] = "gone" \/ (adj'[p] \in Int /\ adj'[p] <= adj[p] + d),
           \A q \in Pids \ {p} :
              pc'[q] # "gone" => pc[q] # "gone" /\ adj'[q] = adj[q]
    PROVE  Ledger'
<1>0. /\ adj \in [Pids -> Int] /\ val \in Nat /\ Processes \in Nat
      /\ Pids = 1..Processes
  BY ProcessesAssumption DEF HostTypes, Pids
<1>1. PICK s \in [0..Processes -> Int] : Balanced(s)
  BY DEF Ledger
<1>2. /\ s[0] = 0
      /\ \A q \in Pids : /\ s[q - 1] <= s[q]
                         /\ pc[q] # "gone" => adj[q] + 2 <= s[q] - s[q - 1]
      /\ val + s[Processes] <= 2 + 2 * Processes
  BY <1>1 DEF Balanced
<1> DEFINE t == [n \in 0..Processes |-> IF n < p THEN s[n] ELSE s[n] + d]
<1>p. p \in Nat /\ 0 < p /\ p <= Processes /\ 0 \in 0..Processes
      /\ Processes \in 0..Processes /\ p \in 0..Processes
      /\ p - 1 \in 0..Processes
  BY <1>0
<1>3. t \in [0..Processes -> Int] /\ t[0] = 0
  <2>1. \A n \in 0..Processes : s[n] \in Int /\ s[n] + d \in Int
    BY <1>1
  <2>2. t[0] = s[0]
    BY <1>p
  <2> QED BY <1>2, <2>1, <2>2
<1>4. t[p - 1] = s[p - 1] /\ t[p] = s[p] + d
  BY <1>p
<1>5. s[p] \in Int /\ s[p - 1] \in Int
  BY <1>1, <1>p
<1>6. ASSUME NEW q \in Pids, q # p
      PROVE  t[q] - t[q - 1] = s[q] - s[q - 1] /\ s[q] \in Int
             /\ s[q - 1] \in Int
             /\ t[q] \in Int /\ t[q - 1] \in Int
  <2>1. q \in 0..Processes /\ q - 1 \in 0..Processes /\ q \in Nat
        /\ (q < p => q - 1 < p) /\ (~(q < p) => ~(q - 1 < p))
    BY <1>0, <1>p, <1>6
  <2>2. s[q] \in Int /\ s[q - 1] \in Int
    BY <1>1, <2>1
  <2>3. CASE q < p
    <3>1. t[q] = s[q] /\ t[q - 1] = s[q - 1]
      BY <2>1, <2>3
    <3> QED BY <2>2, <3>1
  <2>4. CASE ~(q < p)
    <3>1. t[q] = s[q] + d /\ t[q - 1] = s[q - 1] + d
      BY <2>1, <2>4
    <3> HIDE DEF t
    <3> QED BY <2>2, <3>1
  <2> QED BY <2>3, <2>4
<1>7. t[Processes] = s[Processes] + d /\ s[Processes] \in Int
  BY <1>1, <1>p
<1> HIDE DEF t
<1>8. ASSUME NEW q \in Pids, q # p
      PROVE  /\ t[q - 1] <= t[q]
             /\ pc'[q] # "gone" => adj'[q] + 2 <= t[q] - t[q - 1]
  <2>1. pc'[q] # "gone" => pc[q] # "gone" /\ adj'[q] = adj[q]
    BY <1>8
  <2>2. t[q - 1] <= t[q]
    BY <1>2, <1>6, <1>8
  <2>3. adj[q] \in Int
    BY <1>0
  <2> QED BY <1>2, <1>6, <1>8, <2>1, <2>2, <2>3
<1>9. /\ t[p - 1] <= t[p]
      /\ pc'[p] # "gone" => adj'[p] + 2 <= t[p] - t[p - 1]
  <2>1. adj[p] + 2 <= s[p] - s[p - 1] /\ adj[p] \in Int
    BY <1>0, <1>2
  <2>2. \A a, u, v \in Int : a + 2 <= u - v /\ 0 <= a + 2 + d =>
           v <= u + d
    OBVIOUS
  <2>3. t[p - 1] <= t[p]
    BY <1>4, <1>5, <2>1, <2>2
  <2>4. CASE adj'[p] \in Int /\ adj'[p] <= adj[p] + d
    <3>1. PICK a \in Int, b \in Int, u \in Int, v \in Int :
             a = adj[p] /\ b = adj'[p] /\ u = s[p] /\ v = s[p - 1]
      BY <1>5, <2>1, <2>4
    <3>2. b + 2 <= (u + d) - v
      <4>1. a + 2 <= u - v
        BY <2>1, <3>1
      <4>2. b <= a + d
        BY <2>4, <3>1
      <4> QED BY <4>1, <4>2
    <3>3. adj'[p] + 2 <= t[p] - t[p - 1]
      BY <1>4, <3>1, <3>2
    <3> QED BY <2>3, <3>3
  <2>5. CASE pc'[p] = "gone"
    BY <2>3, <2>5
  <2> QED BY <2>4, <2>5
<1>10. val' + t[Processes] <= 2 + 2 * Processes
  <2>1. \A v, x, y, k \in Int : v + x <= k /\ y + d <= v => y + (x + d) <= k
    OBVIOUS
  <2>2. val \in Int /\ 2 + 2 * Processes \in Int
    BY <1>0
  <2> QED BY <1>2, <1>7, <2>1, <2>2
<1>11. \A q \in Pids : /\ t[q - 1] <= t[q]
                       /\ pc'[q] # "gone" => adj'[q] + 2 <= t[q] - t[q - 1]
  BY <1>8, <1>9
<1>12. Balanced(t)'
  BY <1>3, <1>10, <1>11 DEF Balanced
<1> QED BY <1>3, <1>12 DEF Ledger

\* The value was set, to at most 2, and what there is to undo forgotten.
LEMMA LedgerAnew ==
    ASSUME val' \in 0..2, \A q \in Pids : adj'[q] = 0
    PROVE  Ledger'
<1>0. Processes \in Nat /\ Pids = 1..Processes
  BY ProcessesAssumption DEF Pids
<1> DEFINE t == [n \in 0..Processes |-> 2 * n]
<1>1. /\ t \in [0..Processes -> Int] /\ t[0] = 0
      /\ t[Processes] = 2 * Processes
      /\ \A q \in Pids : t[q] = 2 * q /\ t[q - 1] = 2 * (q - 1)
  BY <1>0
<1> HIDE DEF t
<1>2. \A q \in Pids : t[q - 1] <= t[q] /\ 0 + 2 <= t[q] - t[q - 1]
  <2> TAKE q \in Pids
  <2>1. t[q] = 2 * q /\ t[q - 1] = 2 * (q - 1) /\ q \in Int
    BY <1>0, <1>1
  <2> QED BY <2>1
<1>3. val' + t[Processes] <= 2 + 2 * Processes
  <2>1. \A v \in 0..2, k \in Int : v + k <= 2 + k
    OBVIOUS
  <2>2. 2 * Processes \in Int
    BY <1>0
  <2> QED BY <1>1, <2>1, <2>2
<1>9. 0 = t[0]
  BY <1>1
<1>4. \A q \in Pids : /\ t[q - 1] <= t[q]
                      /\ pc'[q] # "gone" => adj'[q] + 2 <= t[q] - t[q - 1]
  BY <1>2
<1>5. Balanced(t)'
  BY <1>3, <1>4, <1>9 DEF Balanced
<1> QED BY <1>1, <1>5 DEF Ledger

\* Other steps leave the ledger.
LEMMA LedgerUntouched ==
    ASSUME Ledger, val' = val, adj' = adj,
           \A q \in Pids : pc'[q] # "gone" => pc[q] # "gone"
    PROVE  Ledger'
<1>1. PICK s \in [0..Processes -> Int] : Balanced(s)
  BY DEF Ledger
<1>2. Balanced(s)'
  BY <1>1 DEF Balanced
<1> QED BY <1>2 DEF Ledger

\* Every step keeps the ledger.
LEMMA LedgerKept ==
    ASSUME Family, HostTypes, Histories, Permits, Ledger, HostNext
    PROVE  Ledger'
<1>0. /\ pc \in [Pids -> {"none", "prompt", "read", "child", "gone"}]
      /\ adj \in [Pids -> Int] /\ knows \subseteq Pids /\ val \in Nat
  BY DEF HostTypes, Family
<1>h. \A p \in Pids : Held(p) \in 0..2 /\ Held(p) - 2 <= adj[p]
  BY HeldBounds DEF Permits, Counted
<1>w. ASSUME NEW p \in Pids, SEM_wait(p), pc[p] # "gone",
             \A q \in Pids : pc'[q] # "gone" => pc[q] # "gone"
      PROVE  Ledger'
  <2>1. CASE p \in knows /\ val > 0 /\ val' = val - 1
        /\ adj' = [adj EXCEPT ![p] = @ + 1]
    <3>1. adj'[p] = adj[p] + 1 /\ \A q \in Pids \ {p} : adj'[q] = adj[q]
      BY <1>0, <2>1
    <3>2. 0 <= adj[p] + 2 + 1 /\ val' \in Int /\ val' + 1 <= val
          /\ adj'[p] \in Int
      BY <1>0, <1>h, <2>1, <3>1
    <3>3. 1 \in Int
      OBVIOUS
    <3> QED BY <1>w, <3>1, <3>2, <3>3, LedgerMoves
  <2>2. CASE UNCHANGED <<val, adj>>
    BY <1>w, <2>2, LedgerUntouched
  <2> QED BY <1>w, <2>1, <2>2 DEF SEM_wait
<1>s. ASSUME NEW p \in Pids, SEM_signal(p), Held(p) \in {1, 2}, pc[p] # "gone",
             \A q \in Pids : pc'[q] # "gone" => pc[q] # "gone"
      PROVE  Ledger'
  <2>1. CASE p \in knows
    <3>0. val' = val + 1 /\ adj' = [adj EXCEPT ![p] = @ - 1]
      BY <1>s, <2>1 DEF SEM_signal
    <3>1. adj'[p] = adj[p] + (-1) /\ \A q \in Pids \ {p} : adj'[q] = adj[q]
      BY <1>0, <3>0
    <3>2. 0 <= adj[p] + 2 + (-1) /\ val' \in Int /\ val' + (-1) <= val
          /\ adj'[p] \in Int
      BY <1>0, <1>h, <1>s, <3>0, <3>1
    <3>3. -1 \in Int
      OBVIOUS
    <3> QED BY <1>s, <3>1, <3>2, <3>3, LedgerMoves
  <2>2. CASE p \notin knows
    BY <1>s, <2>2, LedgerUntouched DEF SEM_signal
  <2> QED BY <2>1, <2>2
<1>1. CASE Start
  BY <1>1, LedgerAnew DEF Start
<1>2. ASSUME NEW p \in Pids, Prompt(p) PROVE Ledger'
  BY <1>0, <1>w, <1>2 DEF Prompt
<1>3. ASSUME NEW p \in Pids, Blank(p) PROVE Ledger'
  BY <1>0, <1>3, LedgerUntouched DEF Blank, semaphore
<1>4. ASSUME NEW p \in Pids, CleanerStarts(p) PROVE Ledger'
  BY <1>0, <1>4, LedgerUntouched DEF CleanerStarts
<1>5. ASSUME NEW p \in Pids, CleanerDone(p) PROVE Ledger'
  <2>1. cleaner[p] = "clean" /\ SEM_signal(p) /\ pc[p] # "gone" /\ pc' = pc
    BY <1>5 DEF CleanerDone, Alive
  <2>2. Held(p) \in {1, 2}
    BY <1>h, <2>1 DEF Held
  <2> QED BY <1>s, <2>1, <2>2
<1>6. ASSUME NEW p \in Pids, CleanerWakes(p) PROVE Ledger'
  <2>1. SEM_wait(p) /\ pc[p] # "gone" /\ pc' = pc
    BY <1>6 DEF CleanerWakes, Alive
  <2> QED BY <1>w, <2>1
<1>7. ASSUME NEW p \in Pids, exitFremen(p) \/ Dies(p) PROVE Ledger'
  <2>0. /\ pc' = [pc EXCEPT ![p] = "gone"] /\ pc[p] # "gone"
        /\ SEM_destructor(p) \/ Undo(p)
    BY <1>7 DEF exitFremen, Dies, Gone, Alive
  <2>1. CASE Undo(p)
    <3> DEFINE d == -(adj[p] + 2)
    <3>1. d \in Int /\ 0 <= adj[p] + 2 + d
      BY <1>0
    <3>2. val' \in Int /\ val' + d <= val
      BY <1>0, <1>h, <2>1 DEF Undo
    <3>3. \A q \in Pids \ {p} : adj'[q] = adj[q] /\ pc'[q] = pc[q]
      BY <1>0, <2>0, <2>1 DEF Undo
    <3>4. pc'[p] = "gone"
      BY <1>0, <2>0
    <3> HIDE DEF d
    <3> QED BY <2>0, <3>1, <3>2, <3>3, <3>4, LedgerMoves
  <2>2. CASE val' = 0 /\ adj' = [q \in Pids |-> 0]
    BY <2>2, LedgerAnew
  <2> QED BY <2>0, <2>1, <2>2 DEF SEM_destructor
<1>8. ASSUME NEW p \in Pids, NEW n \in {0, 1}, Counts(n), Writes(p)
      PROVE  Ledger'
  <2>1. pc[p] \in {"read", "child"} /\ pc' = [pc EXCEPT ![p] = "prompt"]
        /\ SEM_signal(p)
    BY <1>8 DEF Writes
  <2>2. Held(p) \in {1, 2}
    BY <1>h, <2>1 DEF Held
  <2> QED BY <1>0, <1>s, <2>1, <2>2
<1>9. ASSUME NEW p \in Pids, NEW c \in Pids, Counts(1), Leaves(p, c)
      PROVE  Ledger'
  <2>0. /\ pc[p] = "read" /\ pc[c] = "none"
        /\ pc' = [pc EXCEPT ![p] = "child", ![c] = "prompt"]
        /\ val' = IF p \in knows THEN val + 1 ELSE val
        /\ adj' = IF p \in knows THEN [adj EXCEPT ![c] = -1] ELSE adj
    BY <1>9 DEF Leaves
  <2>1. adj[c] = 0
    BY <2>0 DEF Histories, Kept, Alive, Permits, Counted
  <2>2. \A q \in Pids : pc'[q] # "gone" => pc[q] # "gone"
    BY <1>0, <2>0
  <2>3. CASE p \in knows
    <3>1. adj'[c] = adj[c] + (-1) /\ \A q \in Pids \ {c} : adj'[q] = adj[q]
      BY <1>0, <2>0, <2>1, <2>3
    <3>2. 0 <= adj[c] + 2 + (-1) /\ val' \in Int /\ val' + (-1) <= val
          /\ adj'[c] \in Int
      BY <1>0, <2>0, <2>1, <2>3, <3>1
    <3>3. -1 \in Int /\ pc[c] # "gone"
      BY <2>0
    <3> QED BY <2>2, <3>1, <3>2, <3>3, LedgerMoves
  <2>4. CASE p \notin knows
    BY <2>0, <2>2, <2>4, LedgerUntouched
  <2> QED BY <2>3, <2>4
<1> QED BY <1>1, <1>2, <1>3, <1>4, <1>5, <1>6, <1>7, <1>8, <1>9, FremenSteps

----------------------------------------------------------------------------
\* s is in ascending order.
Ascends(s, n) == \A i, j \in 1..n : i < j => s[i] < s[j]

\* The numbers up to n, or some of them, can be listed in ascending order.
LEMMA Enumerable ==
    \A n \in Nat : \A S \in SUBSET (1..n) :
        /\ Cardinality(S) \in Nat
        /\ \E s \in [1..Cardinality(S) -> S] : Ascends(s, Cardinality(S))
<1> DEFINE Fine(n) == \A S \in SUBSET (1..n) :
              \E s \in [1..Cardinality(S) -> S] : Ascends(s, Cardinality(S))
<1>f. ASSUME NEW n \in Nat, NEW S \in SUBSET (1..n)
      PROVE  IsFiniteSet(S) /\ Cardinality(S) \in Nat
  <2>1. IsFiniteSet(1..n)
    <3>1. 1 \in Int /\ n \in Int
      OBVIOUS
    <3> QED BY <3>1, FS_Interval
  <2>2. IsFiniteSet(S)
    BY <2>1, FS_Subset
  <2> QED BY <2>2, FS_CardinalityType
<1>1. Fine(0)
  <2> SUFFICES ASSUME NEW S \in SUBSET (1..0)
               PROVE  \E s \in [1..Cardinality(S) -> S] :
                          Ascends(s, Cardinality(S))
    OBVIOUS
  <2>1. S = {} /\ Cardinality(S) = 0
    <3>1. 1..0 = {}
      OBVIOUS
    <3> QED BY <3>1, FS_EmptySet
  <2>2. [i \in 1..0 |-> i] \in [1..0 -> {}] /\ Ascends([i \in 1..0 |-> i], 0)
    BY DEF Ascends
  <2> QED BY <2>1, <2>2
<1>2. ASSUME NEW n \in Nat, n # 0, Fine(n - 1) PROVE Fine(n)
  <2> SUFFICES ASSUME NEW S \in SUBSET (1..n)
               PROVE  \E s \in [1..Cardinality(S) -> S] :
                          Ascends(s, Cardinality(S))
    OBVIOUS
  <2>1. CASE n \notin S
    <3>1. S \in SUBSET (1..(n - 1))
      BY <1>2, <2>1
    <3> QED BY <1>2, <3>1
  <2>2. CASE n \in S
    <3> DEFINE T == S \ {n}
               k == Cardinality(S)
    <3>1. T \in SUBSET (1..(n - 1))
      BY <1>2
    <3>2. k \in Nat /\ Cardinality(T) = k - 1 /\ Cardinality(T) \in Nat
      <4>1. IsFiniteSet(S) /\ k \in Nat
        BY <1>f
      <4>2. Cardinality(T) = k - 1 /\ IsFiniteSet(T)
        BY <2>2, <4>1, FS_RemoveElement
      <4>3. Cardinality(T) \in Nat
        BY <4>2, FS_CardinalityType
      <4> QED BY <4>1, <4>2, <4>3
    <3>3. PICK s \in [1..(k - 1) -> T] : Ascends(s, k - 1)
      BY <1>2, <3>1, <3>2
    <3> HIDE DEF k
    <3> DEFINE r == [i \in 1..k |-> IF i = k THEN n ELSE s[i]]
    <3>4. \A i \in 1..k : i # k => /\ i \in 1..(k - 1)
                                  /\ s[i] \in S /\ s[i] \in 1..(n - 1)
      <4> TAKE i \in 1..k
      <4>1. i # k => i \in 1..(k - 1)
        BY <3>2
      <4>2. i # k => s[i] \in T
        BY <3>2, <3>3, <4>1
      <4> QED BY <3>1, <4>1, <4>2
    <3>5. r \in [1..k -> S]
      BY <2>2, <3>4
    <3>6. ASSUME NEW i \in 1..k, NEW j \in 1..k, i < j PROVE r[i] < r[j]
      <4>1. i # k
        BY <3>2, <3>6
      <4>2. r[i] = s[i] /\ s[i] \in 1..(n - 1) /\ i \in 1..(k - 1)
        BY <3>4, <4>1
      <4>3. CASE j = k
        <5>1. r[j] = n
          BY <4>3
        <5>2. \A x \in 1..(n - 1) : x < n
          BY <1>2
        <5> QED BY <4>2, <5>1, <5>2
      <4>4. CASE j # k
        <5>1. r[j] = s[j] /\ j \in 1..(k - 1)
          BY <3>4, <4>4
        <5> QED BY <3>3, <3>6, <4>2, <5>1 DEF Ascends
      <4> QED BY <4>3, <4>4
    <3>7. Ascends(r, k)
      BY <3>6 DEF Ascends
    <3> QED BY <3>5, <3>7 DEF k
  <2> QED BY <2>1, <2>2
<1>3. \A n \in Nat : Fine(n)
  <2> DEFINE Bad == {n \in Nat : ~Fine(n)}
  <2> SUFFICES ASSUME Bad # {} PROVE FALSE
    OBVIOUS
  <2>1. PICK n \in Bad : \A m \in Bad : <<m, n>> \notin OpToRel(<, Nat)
    BY NatLessThanWellFounded, WFMin
  <2>2. n \in Nat /\ ~Fine(n)
    OBVIOUS
  <2> HIDE DEF Fine
  <2>3. n # 0
    BY <1>1, <2>2
  <2>4. n - 1 \in Nat /\ <<n - 1, n>> \in OpToRel(<, Nat)
    BY <2>2, <2>3 DEF OpToRel
  <2>5. Fine(n - 1)
    BY <2>1, <2>4
  <2> QED BY <1>2, <2>2, <2>3, <2>5
<1> QED BY <1>3, <1>f

\* Only the last line can be that of grep.
LEMMA CandidatesFound ==
    ASSUME NEW found, found \subseteq Pids, NEW grep \in BOOLEAN,
           NEW pid \in Candidates(Lines(found, grep))
    PROVE  pid = None \/ pid \in found
<1> DEFINE S == found \cup (IF grep THEN {GrepPid} ELSE {})
           k == Cardinality(S)
           s == ByNumber(S)
<1>0. GrepPid \in Nat /\ Pids \subseteq 1..GrepPid
  BY ProcessesAssumption DEF GrepPid, Pids
<1>1. S \in SUBSET (1..GrepPid)
  <2>1. GrepPid \in 1..GrepPid
    BY <1>0, ProcessesAssumption DEF GrepPid
  <2> QED BY <1>0, <2>1
<1>2. /\ k \in Nat
      /\ \E t \in [1..k -> S] : \A i, j \in 1..k : i < j => t[i] < t[j]
  BY <1>0, <1>1, Enumerable DEF Ascends
<1>3. s \in [1..k -> S] /\ \A i, j \in 1..k : i < j => s[i] < s[j]
  BY <1>2 DEF ByNumber
<1>4. Lines(found, grep) = s
  BY DEF Lines
<1> HIDE DEF S, k, s
<1>5. Len(s) = k
  BY <1>2, <1>3
<1>6. ASSUME NEW i \in 1..(k - 1) PROVE s[i] \in found
  <2>1. i \in 1..k /\ k \in 1..k /\ i < k
    BY <1>2
  <2>2. s[i] \in S /\ s[k] \in S /\ s[i] < s[k]
    BY <1>3, <2>1
  <2>3. s[i] \in 1..GrepPid /\ s[k] \in 1..GrepPid
    BY <1>1, <2>2
  <2>4. s[i] # GrepPid
    BY <1>0, <2>2, <2>3
  <2> QED BY <2>2, <2>4 DEF S
<1> QED BY <1>4, <1>5, <1>6 DEF Candidates

----------------------------------------------------------------------------
\* Harkonen chooses from what it has seen.
LEMMA AimedKept ==
    ASSUME Aimed, Next
    PROVE  Aimed'
<1>1. CASE UNCHANGED hvars
  BY <1>1 DEF Aimed, hvars
<1>2. CASE getPidToAtack
  <2> DEFINE found == {p \in Pids : Alive(p)}
  <2>1. PICK grep \in BOOLEAN : pidToAtack' \in Candidates(Lines(found, grep))
    BY <1>2 DEF getPidToAtack
  <2>2. listed' = found /\ found \subseteq Pids
    BY <1>2 DEF getPidToAtack
  <2> HIDE DEF found
  <2>3. pidToAtack' = None \/ pidToAtack' \in listed'
    BY <2>1, <2>2, CandidatesFound
  <2>4. None \notin Pids
    BY DEF None, Pids
  <2> QED BY <2>2, <2>3, <2>4 DEF Aimed
<1>3. CASE killPID \/ Sleeps
  <2>1. pidToAtack' = NoPid /\ listed' = {} /\ NoPid \notin Pids
    BY <1>3 DEF killPID, Sleeps, NoPid, Pids
  <2> QED BY <2>1 DEF Aimed
<1> QED BY <1>1, <1>2, <1>3 DEF Next

\* What Harkonen does to the host is nothing, or the end of a process.
LEMMA HarkonenSteps ==
    ASSUME Next
    PROVE  HostNext \/ UNCHANGED vars
  BY DEF Next, HostNext, getPidToAtack, killPID, Sleeps

\* A step of Harkonen alone.
LEMMA UntouchedHost ==
    ASSUME HostTypes, Histories, Permits, Ledger, UNCHANGED vars
    PROVE  HostTypes' /\ Histories' /\ Permits' /\ Ledger'
<1> USE DEF vars, semaphore, counters
<1>1. HostTypes'
  BY DEF HostTypes
<1>2. Histories'
  BY DEF Histories, Kept, Alive
<1>3. Permits'
  BY DEF Permits, Counted, Held
<1>4. Ledger'
  BY LedgerUntouched
<1> QED BY <1>1, <1>2, <1>3, <1>4

\* The sums of the ledger are not negative.
LEMMA SumsGrow ==
    ASSUME NEW s \in [0..Processes -> Int], Balanced(s)
    PROVE  0 <= s[Processes] /\ s[Processes] \in Int
<1>0. Processes \in Nat /\ Pids = 1..Processes
  BY ProcessesAssumption DEF Pids
<1> DEFINE Bad == {n \in 0..Processes : ~(0 <= s[n])}
<1>1. Bad = {}
  <2> SUFFICES ASSUME Bad # {} PROVE FALSE
    OBVIOUS
  <2>1. PICK n \in Bad : \A m \in Bad : <<m, n>> \notin OpToRel(<, Nat)
    <3>1. Bad \subseteq Nat
      BY <1>0
    <3> QED BY <3>1, NatLessThanWellFounded, WFMin
  <2>2. n \in 0..Processes /\ ~(0 <= s[n])
    OBVIOUS
  <2>3. n # 0 /\ n \in Pids /\ n - 1 \in 0..Processes
    BY <1>0, <2>2 DEF Balanced
  <2>4. s[n - 1] <= s[n] /\ s[n - 1] \in Int /\ s[n] \in Int
    BY <2>2, <2>3 DEF Balanced
  <2>5. ~(0 <= s[n - 1])
    BY <2>2, <2>4
  <2>6. <<n - 1, n>> \in OpToRel(<, Nat)
    BY <1>0, <2>3 DEF OpToRel
  <2> QED BY <2>1, <2>3, <2>5, <2>6
<1> QED BY <1>0, <1>1

----------------------------------------------------------------------------
(* Theorems.                                                               *)

\* The host begins in the invariant.
LEMMA HostInit ==
    ASSUME HarkonenInit
    PROVE  HostIInv
<1>0. /\ Processes \in Nat /\ MaxWork \in Nat /\ Pids = 1..Processes
      /\ NoPid \notin Pids
  BY ProcessesAssumption DEF Pids, NoPid
<1> USE DEF HarkonenInit, Init
<1>1. Family
  BY <1>0 DEF Family, Numbered, Chain, Alive, NoPid
<1>2. NoHistory \in AHistory /\ Nothing \in AHolding
  BY NoHistorySettled, SettledIsHistory DEF Nothing, AHolding
<1>3. HostTypes
  <2>1. << >> \in Seq(Names)
    OBVIOUS
  <2>2. /\ hist \in [Pids -> AHistory] /\ screen \in [Pids -> Seq(Names)]
        /\ holding \in [Pids -> AHolding]
    BY <1>2, <2>1
  <2>3. 2 * started + blanks + lines <= MaxWork
    BY <1>0
  <2>4. /\ cleaner \in [Pids -> {"none", "start", "sleep", "clean"}]
        /\ connected \in [Pids -> BOOLEAN] /\ adj \in [Pids -> Int]
    OBVIOUS
  <2>5. /\ made \in BOOLEAN /\ zeroed \in BOOLEAN
        /\ knows \subseteq Pids /\ ~(knows # {})
    OBVIOUS
  <2>6. val \in Nat /\ started \in Nat /\ blanks \in Nat /\ lines \in Nat
    OBVIOUS
  <2> HIDE DEF HarkonenInit, Init
  <2> QED BY <2>2, <2>3, <2>4, <2>5, <2>6, Zenon DEF HostTypes
<1>4. /\ IsHistory(NoHistory, 0) /\ NoHistory.list.poi = Length(NoHistory)
      /\ Shows(<<>>, NoHistory)
  BY NoHistorySettled DEF Settled, IsHistory, Shows, Length, Commands
<1>5. Histories
  BY <1>4 DEF Histories, Kept, Alive
<1>6. Permits
  BY DEF Permits, Counted, Held
<1>7. Ledger
  <2> DEFINE t == [n \in 0..Processes |-> 2 * n]
  <2>1. /\ t \in [0..Processes -> Int] /\ t[0] = 0
        /\ t[Processes] = 2 * Processes
        /\ \A q \in Pids : t[q] = 2 * q /\ t[q - 1] = 2 * (q - 1)
    BY <1>0
  <2> HIDE DEF t
  <2>2. ASSUME NEW q \in Pids
        PROVE  t[q - 1] <= t[q] /\ 0 + 2 <= t[q] - t[q - 1]
    <3>1. t[q] = 2 * q /\ t[q - 1] = 2 * (q - 1) /\ q \in Int
      BY <1>0, <2>1
    <3> QED BY <3>1
  <2>3. \A q \in Pids : /\ t[q - 1] <= t[q]
                        /\ adj[q] + 2 <= t[q] - t[q - 1]
    BY <2>2
  <2>4. val + t[Processes] <= 2 + 2 * Processes
    BY <1>0, <2>1
  <2>5. Balanced(t)
    BY <2>1, <2>3, <2>4 DEF Balanced
  <2> QED BY <2>1, <2>5 DEF Ledger
<1>8. Aimed
  BY <1>0 DEF Aimed
<1> QED BY <1>1, <1>3, <1>5, <1>6, <1>7, <1>8 DEF HostIInv

\* Every step keeps the invariant.
LEMMA HostStepsKeep ==
    ASSUME HostIInv, [Next]_allVars
    PROVE  HostIInv'
<1> USE DEF HostIInv
<1>1. CASE UNCHANGED allVars
  <2>1. UNCHANGED vars /\ UNCHANGED <<pidToAtack, listed>>
    BY <1>1 DEF allVars, hvars
  <2>2. Aimed'
    BY <2>1 DEF Aimed
  <2>3. Family'
    BY <2>1 DEF vars, families, Family, Numbered, Chain, WaitsBefore, Alive
  <2> QED BY <2>1, <2>2, <2>3, UntouchedHost
<1>2. CASE Next
  <2>1. Family'
    BY <1>2, FamilyKept
  <2>2. Aimed'
    BY <1>2, AimedKept
  <2>3. CASE HostNext
    <3>1. HostTypes' /\ Histories' /\ Permits' /\ Ledger'
      BY <2>3, TypesKept, HistoriesKept, PermitsKept, LedgerKept
    <3> QED BY <2>1, <2>2, <3>1
  <2>4. CASE UNCHANGED vars
    BY <2>1, <2>2, <2>4, UntouchedHost
  <2> QED BY <1>2, <2>3, <2>4, HarkonenSteps
<1> QED BY <1>1, <1>2

\* The inductive invariant of a host of Fremens with Harkonen: families,
\* histories and what the screens show of them, the permits of the semaphore
\* and what SEM_UNDO has of them, and what Harkonen aims at.
THEOREM HostInvariant == Spec => []HostIInv
<1>1. HarkonenInit => HostIInv
  BY HostInit
<1>2. HostIInv /\ [Next]_allVars => HostIInv'
  BY HostStepsKeep
<1> QED BY <1>1, <1>2, PTL DEF Spec

\* Every variable keeps its type; the semaphore never exceeds what the
\* processes of the host can have given back, two for each (Fremen.c:41,
\* semaphore_v2.c:27).
THEOREM HarkonenTypes == Spec => []HarkonenTypeOK
<1>1. HostIInv => HarkonenTypeOK
  <2> SUFFICES ASSUME HostIInv PROVE HarkonenTypeOK
    OBVIOUS
  <2> USE DEF HostIInv
  <2>0. Processes \in Nat
    BY ProcessesAssumption
  <2>1. ASSUME NEW p \in Pids
        PROVE  LET list == hist[p].list IN
               /\ list.elements \in Seq(Names) /\ Len(list.elements) <= lines
               /\ hist[p].used = (list.elements # <<>>)
    BY DEF Histories, Kept, IsHistory, Length, Commands
  <2>2. knows \subseteq {p \in Pids : Alive(p)}
    BY DEF HostTypes, Histories, Kept
  <2>3. val \in 0..(2 + 2 * Processes)
    <3>1. PICK s \in [0..Processes -> Int] : Balanced(s)
      BY DEF Ledger
    <3>2. 0 <= s[Processes] /\ s[Processes] \in Int
      BY <2>0, <3>1, SumsGrow
    <3>3. val \in Nat /\ val + s[Processes] <= 2 + 2 * Processes
      BY <3>1 DEF HostTypes, Balanced
    <3> QED BY <2>0, <3>2, <3>3
  <2>4. ASSUME NEW p \in Pids PROVE adj[p] \in -2..(blanks + 2)
    <3>1. /\ adj[p] \in Int /\ blanks \in Nat /\ Held(p) \in 0..2
          /\ Held(p) - 2 <= adj[p] /\ adj[p] <= blanks + Held(p)
      BY HeldBounds DEF HostTypes, Permits, Counted
    <3> QED BY <3>1
  <2>5. ASSUME NEW p \in Pids
        PROVE  holding[p].command \in Names \cup {"none"}
               /\ screen[p] \in Seq(Names)
    BY DEF HostTypes, AHolding
  <2>6. TypeOK
    <3>1. /\ pc \in [Pids -> {"none", "prompt", "read", "child", "gone"}]
          /\ parent \in [Pids -> Pids \cup {NoPid}]
          /\ root \in [Pids -> Pids \cup {NoPid}] /\ broken \subseteq Pids
      BY DEF Family
    <3>2. /\ cleaner \in [Pids -> {"none", "start", "sleep", "clean"}]
          /\ connected \in [Pids -> BOOLEAN]
          /\ made \in BOOLEAN /\ (knows # {} => made) /\ zeroed \in BOOLEAN
          /\ started \in Nat /\ blanks \in Nat /\ lines \in Nat
          /\ 2 * started + blanks + lines <= MaxWork
      BY DEF HostTypes
    <3> QED BY <2>1, <2>2, <2>3, <2>4, <2>5, <3>1, <3>2, Zenon DEF TypeOK
  <2> QED BY <2>6 DEF HarkonenTypeOK, Aimed
<1> QED BY <1>1, HostInvariant, PTL

\* `last index` runs what the screen shows under that number, for any number of
\* processes, lines and commands (commands.c:16-23, :123-138, :164-167).
THEOREM LastIsShown == Spec => []LastRunsShown
<1>1. HostIInv => LastRunsShown
  <2> SUFFICES ASSUME HostIInv, NEW p \in Pids, pc[p] \in {"prompt", "read"},
                      NEW k \in DOMAIN screen[p]
               PROVE  Indexed(hist[p], k) = screen[p][k]
    BY DEF LastRunsShown
  <2>1. /\ IsHistory(hist[p], lines) /\ hist[p].list.poi = Length(hist[p])
        /\ Shows(screen[p], hist[p]) /\ lines \in Nat
    BY DEF HostIInv, HostTypes, Histories, Kept
  <2>2. k \in 1..Length(hist[p])
    <3>1. Length(hist[p]) \in Nat
      BY <2>1 DEF IsHistory, Length, Commands
    <3>2. DOMAIN screen[p] = 1..Len(screen[p]) /\ Len(screen[p]) \in Nat
          /\ Len(screen[p]) <= Length(hist[p])
      BY <2>1 DEF Shows
    <3> QED BY <3>1, <3>2
  <2>3. Indexed(hist[p], k) = Commands(hist[p])[Length(hist[p]) + 1 - k]
    BY <2>1, <2>2, IndexedFromEnd DEF Settled
  <2> QED BY <2>1, <2>3 DEF Shows
<1> QED BY <1>1, HostInvariant, PTL

\* Harkonen aims at a Fremen it has seen, never at its own grep, for any number
\* of Fremens (harkonen.c:117, :123, :130).
THEOREM AimIsTrue == Spec => []AimsAtFremen
<1>1. HostIInv => AimsAtFremen
  <2>1. GrepPid \notin Pids \cup {None, NoPid}
    BY ProcessesAssumption DEF GrepPid, Pids, None, NoPid
  <2> QED BY <2>1 DEF HostIInv, Aimed, AimsAtFremen
<1> QED BY <1>1, HostInvariant, PTL

\* Of a Fremen and all that it or its children forked one at most is at the
\* terminal, whatever is typed and whoever is killed, unless one of them was
\* killed that waited for another and was waited for (commands.c:150-161).
THEOREM OneAtTheTerminal == Spec => []OneReader
<1>1. HostIInv => OneReader
  <2> SUFFICES ASSUME HostIInv, NEW p \in Pids, NEW q \in Pids,
                      {pc[p], pc[q]} \subseteq {"prompt", "read"},
                      root[p] = root[q], root[p] \notin broken, p # q
               PROVE  FALSE
    BY DEF OneReader
  <2>1. Alive(p) /\ Alive(q) /\ (p < q \/ q < p)
    BY ProcessesAssumption DEF Alive, Pids
  <2>2. Chain(p, q) /\ Chain(q, p)
    BY DEF HostIInv, Family
  <2> QED BY <2>1, <2>2 DEF Chain, WaitsBefore
<1> QED BY <1>1, HostInvariant, PTL
=============================================================================
