------------------------------- MODULE Search -------------------------------
(***************************************************************************)
(* A search: the server answers with the list of the users of a zipcode in *)
(* as many packets as it takes (NETWORK_checkMessage, case 'S'), and the   *)
(* client puts the list together again (NETWORK_sendSearch).               *)
(*                                                                         *)
(* A user is its place in the list, and weighs the bytes of                *)
(* "<login>*<id>*" in the data of a packet.  The first page of an answer   *)
(* begins with "<number of users>*"; the others are recognised by nothing. *)
(*                                                                         *)
(* The client copies the digits of a number into buffer[500] or sid[240],  *)
(* which it neither clears nor terminates: atoi reads on into the digits   *)
(* that an earlier number, or another use of the stack, left behind them.  *)
(***************************************************************************)
EXTENDS Integers, Sequences, FiniteSetsExt

CONSTANTS
    MAX_DATA_SIZE,      \* bytes of data in a packet
    Sizes,              \* bytes that a user may take
    IdDigits,           \* digits that an identifier may have
    Leads,              \* numbers that a login may begin with, 0 for none
    Tails,              \* digits that buffer may hold behind a number
    Stack,              \* digits that sid may hold before a page is read
    MaxUsers,           \* bound: users of the zipcode
    MaxSearches         \* bound: searches of the client

\* The decimal digits of a number.
digits[n \in Nat] == IF n < 10 THEN 1 ELSE 1 + digits[n \div 10]

\* A login has at most 99 bytes (tok of LOGIN_loginOK), an identifier at most
\* 10: one user always fits in a page, after the number of them.
ASSUME SizesAssumption ==
    /\ MAX_DATA_SIZE \in Nat /\ MaxUsers \in Nat /\ MaxSearches \in Nat
    /\ Sizes \subseteq Nat \ {0} /\ IdDigits \subseteq Nat
    /\ Leads \subseteq Nat /\ Stack \subseteq Nat
    /\ Tails \subseteq [scale : Nat \ {0}, rest : Nat]
    /\ digits[MaxUsers] + 1 < MAX_DATA_SIZE
    /\ \A z \in Sizes : digits[MaxUsers] + 1 + z < MAX_DATA_SIZE

VARIABLES
    usr_sizes,          \* the list of the zipcode, as the size of each user
    id_digits,          \* and the digits of its identifier
    srv,                \* "idle" or "pages": the thread is sending pages
    amount,             \* users in the pages sent so far
    asked,              \* requests on their way to the server
    pages,              \* pages on their way to the client
    cli,                \* "idle", "first", "more" or "lost"
    searches,           \* searches so far
    instep,             \* this search began with nothing in the connection, and
                        \* its number of users was read as it was sent
    total_usrs, before_usrs_read, usrs_read,
    printed,            \* the users this search has printed,
    misnamed,           \* those of them with another identifier than theirs,
    shifted             \* and whether it printed logins for identifiers

list == <<usr_sizes, id_digits>>
serverVars == <<srv, amount, asked>>
clientVars == <<cli, instep, total_usrs, before_usrs_read, usrs_read, printed,
                misnamed, shifted>>
vars == <<list, serverVars, pages, searches, clientVars>>

Lists == UNION {[1..n -> Sizes] : n \in 0..MaxUsers}
\* The newest user comes first, so that the identifiers do not get longer.
Identifiers(n) ==
    {d \in [1..n -> IdDigits] : \A i, j \in 1..n : i < j => d[j] <= d[i]}
Size == Len(usr_sizes)
Sum(from, to) == MapThenSumSet(LAMBDA i : usr_sizes[i], from..to)

\* A page has the users from..to; total is -1 but in the first of an answer.
Page(total, from, to, used) ==
    [total |-> total, from |-> from, to |-> to, used |-> used]

TypeOK ==
    /\ usr_sizes \in Lists /\ id_digits \in Identifiers(Size)
    /\ srv \in {"idle", "pages"}
    /\ amount \in 0..Size
    /\ asked \in 0..MaxSearches
    /\ pages \in Seq([total : -1..Size, from : 1..(Size + 1), to : 0..Size,
                      used : Nat])
    /\ cli \in {"idle", "first", "more", "lost"}
    /\ searches \in 0..MaxSearches
    /\ instep \in BOOLEAN
    /\ total_usrs \in Nat
    /\ before_usrs_read \in 0..Size
    /\ usrs_read \in 0..Size
    /\ printed \in Seq(1..Size)
    /\ misnamed \subseteq 1..Size
    /\ shifted \in BOOLEAN

Init ==
    /\ usr_sizes \in Lists /\ id_digits \in Identifiers(Size)
    /\ srv = "idle"
    /\ amount = 0
    /\ asked = 0
    /\ pages = <<>>
    /\ cli = "idle"
    /\ searches = 0
    /\ instep = TRUE
    /\ total_usrs = 0
    /\ before_usrs_read = 0
    /\ usrs_read = 0
    /\ printed = <<>>
    /\ misnamed = {}
    /\ shifted = FALSE

----------------------------------------------------------------------------
(* The server.                                                             *)

\* "<number of users>*" and, if they all fit, every user.
CountSize == digits[Size] + 1
total_size_needed == CountSize + Sum(1, Size)

\* Users are added until the page overflows, and the last is taken back.
FirstAmount ==
    Max({n \in 0..Size : CountSize + Sum(1, n) < MAX_DATA_SIZE})

\* The same for the pages that follow; but the loop that adds sizes stops at
\* the end of the list before it has looked at the last sum.
NextAmount(a) ==
    IF Sum(a + 1, Size - 1) < MAX_DATA_SIZE THEN Size
    ELSE Max({n \in a..Size : Sum(a + 1, n) < MAX_DATA_SIZE})

MutServerSearch ==
    /\ srv = "idle" /\ asked > 0
    /\ asked' = asked - 1
    /\ \/ /\ total_size_needed < MAX_DATA_SIZE
          /\ pages' = Append(pages, Page(Size, 1, Size, total_size_needed))
          /\ UNCHANGED <<srv, amount>>
       \/ /\ total_size_needed >= MAX_DATA_SIZE
          /\ amount' = FirstAmount + 1
          /\ pages' = Append(pages, Page(Size, 1, FirstAmount + 1,
                                         CountSize + Sum(1, FirstAmount + 1)))
          /\ srv' = "pages"
    /\ UNCHANGED <<list, clientVars, searches>>

ServerSearch ==
    /\ srv = "idle" /\ asked > 0
    /\ asked' = asked - 1
    /\ \/ /\ total_size_needed < MAX_DATA_SIZE
          /\ pages' = Append(pages, Page(Size, 1, Size, total_size_needed))
          /\ UNCHANGED <<srv, amount>>
       \/ /\ total_size_needed >= MAX_DATA_SIZE
          /\ amount' = FirstAmount
          /\ pages' = Append(pages, Page(Size, 1, FirstAmount,
                                         CountSize + Sum(1, FirstAmount)))
          /\ srv' = "pages"
    /\ UNCHANGED <<list, clientVars, searches>>

MutServerPage ==
    /\ srv = "pages"
    /\ LET to == NextAmount(amount)
       IN  /\ pages' = Append(pages,
                          Page(-1, amount + 1, to, Sum(amount + 1, to)))
           /\ amount' = to + 1
           /\ srv' = IF to + 1 = Size THEN "idle" ELSE "pages"
    /\ UNCHANGED <<list, asked, clientVars, searches>>

ServerPage ==
    /\ srv = "pages"
    /\ LET to == NextAmount(amount)
       IN  /\ pages' = Append(pages,
                          Page(-1, amount + 1, to, Sum(amount + 1, to)))
           /\ amount' = to
           /\ srv' = IF to = Size THEN "idle" ELSE "pages"
    /\ UNCHANGED <<list, asked, clientVars, searches>>

----------------------------------------------------------------------------
(* The client.                                                             *)

TypeSearch ==
    /\ cli = "idle" /\ searches < MaxSearches
    /\ cli' = "first"
    /\ searches' = searches + 1
    /\ instep' = (srv = "idle" /\ asked = 0 /\ pages = <<>>)
    /\ asked' = asked + 1
    /\ printed' = <<>> /\ misnamed' = {} /\ shifted' = FALSE
    /\ UNCHANGED <<list, srv, amount, pages, total_usrs, before_usrs_read,
                   usrs_read>>

Users(p) == [i \in 1..(p.to - p.from + 1) |-> p.from + i - 1]

MutLoopHead(read, before, total) ==
    cli' = IF read + before >= total THEN "idle" ELSE "more"

\* What the head of the loop over more pages does with the counts so far.
LoopHead(read, before, total) ==
    cli' = IF read + before = total THEN "idle" ELSE "more"

\* atoi of the digits of n and of the tail t that follows them.
Parsed(n, t) == n * t.scale + t.rest

\* The users of a page whose identifier is read with digits of a longer one: of
\* a user before them, or of the r that sid began with.
Misnamed(p, r) ==
    {i \in p.from..p.to :
        \/ id_digits[i] < r
        \/ \E j \in p.from..(i - 1) : id_digits[i] < id_digits[j]}

\* The first page of an answer, whose number of users is read as total.  Where
\* there is no user the client looks for one behind the packet.
Counted(p, total) ==
    LET n == p.to - p.from + 1
    IN  /\ total_usrs' = total
        /\ instep' = (instep /\ total = p.total)
        /\ \/ /\ total = 0
              /\ cli' = "idle"
              /\ UNCHANGED <<usrs_read, before_usrs_read, printed, misnamed>>
           \/ /\ total # 0 /\ n = 0
              /\ cli' = "lost"
              /\ UNCHANGED <<usrs_read, before_usrs_read, printed, misnamed>>
           \/ /\ total # 0 /\ n > 0
              /\ printed' = Users(p)
              /\ \E r \in Stack : misnamed' = Misnamed(p, r)
              /\ usrs_read' = n /\ before_usrs_read' = n
              /\ IF n < total THEN LoopHead(n, n, total) ELSE cli' = "idle"

MutLeftover(p, lead) ==
    /\ total_usrs' = lead
    /\ printed' = Users(p)
    /\ cli' = "idle"
    /\ UNCHANGED <<instep, usrs_read, before_usrs_read, misnamed, shifted>>

\* Any other page where the first of an answer is expected.  Its first login is
\* taken for the number of users: none, unless it begins with a digit.  What is
\* printed then are pairs of an identifier and the login after it, of which the
\* page has one less than users, and the last may be cut off.
Leftover(p, lead) ==
    LET n == p.to - p.from + 1
        whole == IF p.used > MAX_DATA_SIZE THEN n - 1 ELSE n
    IN  /\ total_usrs' = lead
        /\ \/ /\ lead < n
              /\ cli' = "idle"
              /\ shifted' = (lead > 0)
           \/ /\ lead >= whole /\ lead > 0
              /\ cli' = "lost"
              /\ shifted' = TRUE
        /\ UNCHANGED <<instep, usrs_read, before_usrs_read, printed, misnamed>>

FirstPage ==
    /\ cli = "first" /\ pages # <<>>
    /\ pages' = Tail(pages)
    /\ LET p == Head(pages)
       IN  \/ /\ p.total = -1
              /\ \E lead \in Leads : Leftover(p, lead)
           \/ /\ p.total # -1
              /\ \E t \in Tails : Counted(p, Parsed(p.total, t))
              /\ UNCHANGED shifted
    /\ UNCHANGED <<list, serverVars, searches>>

MutReads(p) == {p.to - p.from + 1}

\* The users counted in a page: the one after which the data ends is not,
\* unless the data is full and the byte after it happens not to be 0.
Reads(p) == {p.to - p.from} \cup
            (IF p.used = MAX_DATA_SIZE THEN {p.to - p.from + 1} ELSE {})

\* A page that overflows was cut by write(), and the parse of its last user
\* runs on into what follows the packet in memory.  So does that of the first
\* page of an answer, which only a client reads here that expects too many
\* users, or it waits for ever: it never comes back.
MorePage ==
    /\ cli = "more" /\ pages # <<>>
    /\ pages' = Tail(pages)
    /\ LET p == Head(pages)
       IN  \/ /\ p.used > MAX_DATA_SIZE \/ p.total # -1
              /\ cli' = "lost"
              /\ UNCHANGED <<usrs_read, printed, misnamed>>
           \/ /\ p.used <= MAX_DATA_SIZE /\ p.total = -1
              /\ printed' = printed \o Users(p)
              /\ \E r \in Stack : misnamed' = misnamed \cup Misnamed(p, r)
              /\ \E n \in Reads(p) :
                    /\ usrs_read' = usrs_read + n
                    /\ IF usrs_read + n + 1 = total_usrs THEN cli' = "idle"
                       ELSE LoopHead(usrs_read + n, before_usrs_read,
                                     total_usrs)
    /\ UNCHANGED <<list, serverVars, searches, instep, total_usrs,
                   before_usrs_read, shifted>>

----------------------------------------------------------------------------
ServerStep == ServerSearch \/ ServerPage
ClientStep == FirstPage \/ MorePage

Next == ServerStep \/ ClientStep \/ TypeSearch

\* The thread and the client go on when they can; nobody has to search.
Spec == Init /\ [][Next]_vars /\ WF_vars(ServerStep) /\ WF_vars(ClientStep)

----------------------------------------------------------------------------
(* Properties.                                                             *)

Waiting == cli \in {"first", "more"}

\* The pages an answer takes, and the bytes of its last one.
pageCount[a \in 0..Size] == IF a = Size THEN 0 ELSE 1 + pageCount[NextAmount(a)]
PageCount ==
    IF total_size_needed < MAX_DATA_SIZE THEN 1 ELSE 1 + pageCount[FirstAmount]
LastFits ==
    PageCount = 2 => Sum(FirstAmount + 1, Size) < MAX_DATA_SIZE

\* The pages of an answer carry the list in order, none of its users twice and
\* no page without one; and only the last page of an answer may hold more than
\* a packet can (network.c:238).
PagesFollow ==
    /\ \A i \in DOMAIN pages :
          /\ Size > 0 => pages[i].from <= pages[i].to
          /\ pages[i].used < MAX_DATA_SIZE \/ pages[i].to = Size
    /\ \A i \in DOMAIN pages :
          i + 1 \in DOMAIN pages /\ pages[i + 1].total = -1
              => pages[i + 1].from = pages[i].to + 1

\* A longer identifier than that of i was parsed before it, from the list, or was
\* on the stack.
LongerBefore(i) ==
    \/ \E r \in Stack : id_digits[i] < r
    \/ \E j \in 1..(i - 1) : id_digits[i] < id_digits[j]

\* Whatever it is sent, the client prints each user once, in the order of the
\* list, and under its own identifier but where a longer one was before it; and
\* only a search that found an answer of an earlier one in the connection prints
\* logins for identifiers (Fremen network.c:125, :134, :173).
PrintedInOrder ==
    /\ printed = [i \in 1..Len(printed) |-> i]
    /\ \A i \in misnamed : i <= Len(printed) /\ LongerBefore(i)
    /\ shifted => ~instep

\* A search that began in step and came back has printed every user and left
\* nothing in the connection, if the answer took one page, or two of which the
\* first did not hold exactly half of the users (Fremen network.c:165).
SearchComplete ==
    cli = "idle" /\ searches > 0 /\ instep
    /\ PageCount <= 2 /\ 2 * FirstAmount # Size
        => /\ Len(printed) = Size
           /\ pages = <<>> /\ asked = 0 /\ srv = "idle"

\* A search that is in step comes back, if the answer took one page, or two
\* of which the last has room to spare: a third page is waited for in vain, and
\* so is one after a page that is full to the last byte, or by a client that
\* read digits behind the number of users (Fremen network.c:168).
SearchReturns ==
    Waiting /\ instep /\ PageCount <= 2 /\ LastFits ~> cli = "idle" \/ ~instep
=============================================================================
