------------------------------ MODULE UserList ------------------------------
(***************************************************************************)
(* The admin page Users: a list in pages with a filter and a search.  A    *)
(* filter or a page is fetched by an effect with the state of the render,  *)
(* the search by a timer that keeps the filter of when it was started, and *)
(* ban, delete and refresh fetch what they knew when they were clicked.  A *)
(* GET that fails leaves the rows of another search there, and a request   *)
(* that fails fetches nothing.  A WebSocket counts the users who           *)
(* registered since.                                                       *)
(***************************************************************************)
EXTENDS Integers, FiniteSets, SequencesExt

CONSTANTS
  MaxUsers,  \* users that there may be: 1 .. MaxUsers, the latest first
  Matching,  \* those that the search term matches
  PerPage,   \* rows of a page
  MaxLoads,  \* bound: GETs sent
  Starts,    \* bound: the users there are when the page is opened
  Nothing    \* no timer, no request

ASSUME UserListAssumption ==
  /\ MaxUsers \in Nat \ {0} /\ Matching \subseteq 1..MaxUsers
  /\ PerPage \in Nat \ {0} /\ MaxLoads \in Nat \ {0}
  /\ Starts \subseteq [1..MaxUsers -> {"active", "banned", "later"}]

User == 1..MaxUsers
Filter == {"all", "banned"}

VARIABLES
  users,    \* each user at the server: active, banned, gone or not yet there
  view,     \* search, statusFilter, page and what was fetched: rows, total
  open,     \* GETs open
  count,    \* GETs sent
  debounce, \* the timer of the search, or Nothing
  request,  \* a ban or delete under way, with what its handler knows, or Nothing
  joined,   \* pendingNew
  trouble,  \* why the rows may be others, "order", "closure", "lost", until the next
            \* GET of what is on show; "shrunk" (history)
  early     \* a page was turned by a total that was not the list's (history)

userVars == <<users, view, open, count, debounce, request, joined, trouble, early>>

AskedFor(search, filter, page) == [search |-> search, filter |-> filter, page |-> page]
Now(v) == AskedFor(v.search, v.filter, v.page)

\* GETs of the arguments in qs, as many as there are.
LoadAll(qs, v) ==
  /\ count + Len(qs) <= MaxLoads /\ count' = count + Len(qs)
  /\ open' = open \cup {[args |-> qs[i], no |-> count + i, answer |-> Nothing] : i \in DOMAIN qs}
  /\ trouble' = IF qs[Len(qs)] = Now(v) THEN trouble \cap {"shrunk"} ELSE trouble \cup {"closure"}

\* Bound: nothing begins or is lost that no GET can follow.
GoesOn == count < MaxLoads

\* The effect runs when the filter or the page has changed.
Effect(v) == IF v.filter # view.filter \/ v.page # view.page THEN <<Now(v)>> ELSE <<>>

UserInit ==
  /\ users \in Starts
  /\ view = [search |-> "none", filter |-> "all", page |-> 1, rows |-> {}, total |-> 0, at |-> 0]
  /\ open = {[args |-> Now(view), no |-> 1, answer |-> Nothing]} /\ count = 1
  /\ debounce = Nothing /\ request = Nothing /\ joined = 0 /\ trouble = {} /\ early = FALSE

-----------------------------------------------------------------------------
(* The list.                                                               *)

Found(a) ==
  {u \in User : /\ users[u] \in IF a.filter = "all" THEN {"active", "banned"} ELSE {"banned"}
                /\ a.search = "none" \/ u \in Matching}

\* Page p of the users found, the latest first.
PageOf(us, p) ==
  {u \in us : (Cardinality({w \in us : w > u}) \div PerPage) + 1 = p}

\* The rows of GET a, each with the state of its user.
RowsOf(a) == {[user |-> u, banned |-> users[u] = "banned"] : u \in PageOf(Found(a), a.page)}

ServeUsers ==
  /\ \E g \in open : g.answer = Nothing /\
       open' = (open \ {g}) \cup {[g EXCEPT !.answer =
         [rows |-> RowsOf(g.args), total |-> Cardinality(Found(g.args))]]}
  /\ UNCHANGED <<users, view, count, debounce, request, joined, trouble, early>>

UsersAnswered ==
  /\ \E g \in open :
       /\ g.answer # Nothing
       /\ open' = open \ {g}
       /\ view' = [view EXCEPT !.rows = g.answer.rows, !.total = g.answer.total, !.at = g.no]
       /\ trouble' = trouble \cup (IF g.no < view.at THEN {"order"} ELSE {})
  /\ UNCHANGED <<users, count, debounce, request, joined, early>>

\* Nothing catches it: the rows of the GET before stay.
UsersFail ==
  /\ GoesOn
  /\ \E g \in open :
       /\ g.answer = Nothing /\ open' = open \ {g}
       /\ trouble' = trouble \cup (IF g.no = count THEN {"lost"} ELSE {})
  /\ UNCHANGED <<users, view, count, debounce, request, joined, early>>

TotalPages == (view.total + PerPage - 1) \div PerPage

\* Typing restarts the timer; the filter in it is the one of now.
Search ==
  /\ GoesOn
  /\ \E s \in {"none", "term"} \ {view.search} :
       view' = [view EXCEPT !.search = s] /\ debounce' = AskedFor(s, view.filter, 1)
  /\ UNCHANGED <<users, open, count, request, joined, trouble, early>>

SearchFires ==
  /\ debounce # Nothing /\ debounce' = Nothing
  /\ view' = [view EXCEPT !.page = 1]
  /\ LoadAll(<<debounce>> \o Effect(view'), view')
  /\ UNCHANGED <<users, request, joined, early>>

ChooseFilter ==
  /\ \E f \in Filter \ {view.filter} : view' = [view EXCEPT !.filter = f, !.page = 1]
  /\ LoadAll(Effect(view'), view')
  /\ UNCHANGED <<users, debounce, request, joined, early>>

\* Pagination is shown for more than one page, of the total fetched last.
TurnPage ==
  /\ TotalPages > 1
  /\ \/ view.page # 1 /\ view' = [view EXCEPT !.page = @ - 1]
     \/ view.page # TotalPages /\ view' = [view EXCEPT !.page = @ + 1]
  /\ LoadAll(Effect(view'), view')
  /\ early' = (early \/ open # {} \/ trouble \ {"shrunk"} # {})
  /\ UNCHANGED <<users, debounce, request, joined>>

-----------------------------------------------------------------------------
(* Ban, delete, registrations.                                             *)

\* What ban asks for is told by the row.
BanOrDelete ==
  /\ GoesOn /\ request = Nothing
  /\ \E row \in view.rows : \E op \in {"delete", IF row.banned THEN "unban" ELSE "ban"} :
       request' = [user |-> row.user, op |-> op, args |-> Now(view), done |-> FALSE]
  /\ UNCHANGED <<users, view, open, count, debounce, joined, trouble, early>>

Becomes(op) == CASE op = "ban" -> "banned" [] op = "unban" -> "active" [] op = "delete" -> "gone"

ServeRequest ==
  /\ request # Nothing /\ ~request.done /\ users[request.user] # "gone"
  /\ request' = [request EXCEPT !.done = TRUE]
  /\ users' = [users EXCEPT ![request.user] = Becomes(request.op)]
  /\ trouble' = trouble \cup {"shrunk"}
  /\ UNCHANGED <<view, open, count, debounce, joined, early>>

\* The user is gone, or the request failed; or what it did is done and its answer lost.
RequestFails ==
  /\ GoesOn /\ request # Nothing /\ request' = Nothing
  /\ trouble' = trouble \cup (IF request.done THEN {"lost"} ELSE {})
  /\ UNCHANGED <<users, view, open, count, debounce, joined, early>>

\* load with the search, filter and page of when it was clicked.
RequestAnswered ==
  /\ request # Nothing /\ request.done
  /\ request' = Nothing /\ LoadAll(<<request.args>>, view)
  /\ UNCHANGED <<users, view, debounce, joined, early>>

\* The feed tells of a registration; the list is left alone.
Registers ==
  /\ GoesOn
  /\ \E u \in User : /\ users[u] = "later" /\ users' = [users EXCEPT ![u] = "active"]
                     /\ \A w \in User : w < u => users[w] # "later"
  /\ joined' = joined + 1
  /\ trouble' = trouble \cup {"shrunk"}
  /\ UNCHANGED <<view, open, count, debounce, request, early>>

\* "+n new - refresh"
Refresh ==
  /\ joined > 0 /\ joined' = 0
  /\ view' = [view EXCEPT !.page = 1]
  /\ LoadAll(<<Now(view')>> \o Effect(view'), view')
  /\ UNCHANGED <<users, debounce, request, early>>

UserNext ==
  \/ ServeUsers \/ UsersAnswered \/ UsersFail \/ Search \/ SearchFires \/ ChooseFilter
  \/ TurnPage \/ BanOrDelete \/ ServeRequest \/ RequestAnswered \/ RequestFails \/ Registers
  \/ Refresh

UserSpec == UserInit /\ [][UserNext]_userVars

-----------------------------------------------------------------------------
(* Properties.                                                             *)

Args == [search: {"none", "term"}, filter: Filter, page: Nat \ {0}]
UserRow == [user: User, banned: BOOLEAN]
View == [search: {"none", "term"}, filter: Filter, page: Nat \ {0},
         rows: SUBSET UserRow, total: 0..MaxUsers, at: 0..MaxLoads]
AnswerRecord == [rows: SUBSET UserRow, total: 0..MaxUsers]
RequestRecord == [user: User, op: {"ban", "unban", "delete"}, args: Args, done: BOOLEAN]

ASSUME NothingAssumption ==
  Nothing \notin Args /\ Nothing \notin AnswerRecord /\ Nothing \notin RequestRecord

\* Every variable has its type.
UserTypeOK ==
  /\ users \in [User -> {"active", "banned", "gone", "later"}]
  /\ view \in View /\ count \in 1..MaxLoads
  /\ \A g \in open : g \in [args: Args, no: 1..MaxLoads, answer: AnswerRecord \cup {Nothing}]
  /\ debounce \in Args \cup {Nothing} /\ request \in RequestRecord \cup {Nothing}
  /\ joined \in 0..MaxUsers
  /\ trouble \subseteq {"order", "closure", "lost", "shrunk"} /\ early \in BOOLEAN

UsersSettled == open = {} /\ debounce = Nothing /\ request = Nothing

\* With nothing open the rows are those of the search, the filter and the page on
\* show, each with the state its user has, but for those who registered since.  After
\* an older answer that came last, a timer or handler that fetched with a filter or
\* page left since, and a GET or an answer that was lost it may be otherwise, but only
\* until what is on show is fetched again.
RowsOfSearch ==
  UsersSettled /\ joined = 0 /\ trouble \subseteq {"shrunk"} =>
    view.rows = RowsOf(Now(view)) /\ view.total = Cardinality(Found(Now(view)))

\* No filter and no search leads to a page behind the last one: only a user deleted
\* or banned away does, or a page turned by the total of another list.
PageExists ==
  UsersSettled /\ trouble = {} /\ ~early => view.page <= IF TotalPages = 0 THEN 1 ELSE TotalPages

\* The page of users is in step with the search, the filter and the server.
UsersInStep == RowsOfSearch /\ PageExists

=============================================================================
