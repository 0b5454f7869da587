---------------------------- MODULE CommandBuffer ---------------------------
(***************************************************************************)
(* The history of a Fremen: the list of Fremen/src/bidirectionallist.c     *)
(* with its cursor, and what commands.c does with it.                      *)
(*                                                                         *)
(* A list is the sequence of the elements between the two phantom nodes    *)
(* and the position of the cursor: 0 is the head phantom, one beyond the   *)
(* last element the tail phantom.                                          *)
(***************************************************************************)
EXTENDS Naturals, Sequences, SequencesExt

BIDIRECTIONALLIST_create == [elements |-> <<>>, poi |-> 0]

AtTail(list) == list.poi = Len(list.elements) + 1

BIDIRECTIONALLIST_isValid(list) == list.poi \in DOMAIN list.elements

\* Nothing is added after the tail phantom.
BIDIRECTIONALLIST_addAfter(list, element) ==
    IF AtTail(list) THEN list
    ELSE [list EXCEPT !.elements = InsertAt(@, list.poi + 1, element)]

\* On a phantom node, or in an empty list, the result is never assigned.
Uninitialised == "uninitialised"
BIDIRECTIONALLIST_get(list) ==
    IF BIDIRECTIONALLIST_isValid(list) THEN list.elements[list.poi]
    ELSE Uninitialised

BIDIRECTIONALLIST_next(list) ==
    IF AtTail(list) THEN list ELSE [list EXCEPT !.poi = @ + 1]

BIDIRECTIONALLIST_previous(list) ==
    IF list.poi = 0 THEN list ELSE [list EXCEPT !.poi = @ - 1]

\* The last element, or the head phantom.
BIDIRECTIONALLIST_goToTail(list) == [list EXCEPT !.poi = Len(list.elements)]

----------------------------------------------------------------------------
(* A history is the list and whether a command was stored (last.argc).     *)

NoHistory == [list |-> BIDIRECTIONALLIST_create, used |-> FALSE]

MutBegin(h) == [h EXCEPT !.list = BIDIRECTIONALLIST_create]

\* The list is made anew as long as nothing was stored.
Begin(h) == IF h.used THEN h ELSE NoHistory

Store(h, command) ==
    [list |-> BIDIRECTIONALLIST_next(
                  BIDIRECTIONALLIST_addAfter(
                      BIDIRECTIONALLIST_goToTail(h.list), command)),
     used |-> TRUE]

\* showCommandBuffer: the command itself, which is stored after that, and the
\* list from its end.
Listing(h, command) == <<command>> \o Reverse(h.list.elements)

\* `last index` goes back index - 1 times from the cursor.
Back(list, index) ==
    LET step[i \in 0..index] ==
            IF i = 0 THEN list ELSE BIDIRECTIONALLIST_previous(step[i - 1])
    IN  step[IF index = 0 THEN 0 ELSE index - 1]

\* The command that `last index` would run, and `last` for index 0.
Indexed(h, index) == BIDIRECTIONALLIST_get(Back(h.list, index))
=============================================================================
