----------------------------- MODULE AdminLists -----------------------------
(***************************************************************************)
(* The pages that show a list fetched from the server: of the admin panel  *)
(* Panoramas, Maps, UserSearch, AdminManagement and Dashboard, of the game *)
(* Leaderboard.  None cancels a GET or looks at what it was for: whatever  *)
(* answer comes last is shown.  After a change Panoramas and Maps fetch    *)
(* again, for the tab known to the handler, while UserSearch and           *)
(* AdminManagement patch the rows they have by then.  UserSearch has no    *)
(* route any more: App.tsx of the panel shows Users in its place.          *)
(*                                                                         *)
(* An item is of one of two kinds that the tabs or filters tell apart      *)
(* ("a", "b": flagged or not, banned or not), or gone.                     *)
(***************************************************************************)
EXTENDS Integers, FiniteSets

CONSTANTS
  Item,      \* panoramas, maps, users, admins or players
  MaxSent,   \* bound: GETs sent
  Nobody     \* no request, no timer

ASSUME AdminListsAssumption ==
  IsFiniteSet(Item) /\ MaxSent \in Nat \ {0} /\ Nobody \notin Item

ListPage == {"panoramas", "maps", "userSearch", "admins", "leaderboard", "dashboard"}

VARIABLES
  list,    \* which page this is
  items,   \* the server's items
  query,   \* the tab or the filter chosen
  rows,    \* the rows shown, and the number of the GET that brought them
  fetches, \* GETs open
  sent,    \* GETs sent
  timer,   \* the query a debounced GET waits with, or Nobody
  edit,    \* the request of a handler, with what the handler knows, or Nobody
  quirk    \* why rows may be others, "order", "closure", "patch", "lost"; where all
           \* is fetched again until the next GET of what is chosen (history)

listVars == <<list, items, query, rows, fetches, sent, timer, edit, quirk>>

Answer(q) == [i \in Item |-> IF items[i] # "gone" /\ q \in {"all", items[i]} THEN items[i] ELSE "gone"]

NoRows == [at |-> 0, is |-> [i \in Item |-> "gone"]]

\* Where a tab or a filter can be chosen, and which page patches its rows.
Queries == CASE list = "userSearch" -> {"all", "a", "b"}
             [] list \in {"panoramas", "leaderboard"} -> {"all", "a"}
             [] OTHER -> {"all"}
Patches == list \in {"userSearch", "admins"}
Debounced == list = "userSearch"

Fetch(q) == [query |-> q, no |-> sent + 1, answer |-> Nobody]

\* GET for query q; nothing is cancelled.
Load(q) ==
  /\ sent < MaxSent /\ sent' = sent + 1
  /\ fetches' = fetches \cup {Fetch(q)}

\* On mount the first GET is sent, or waits for the debounce.
ListInit ==
  /\ list \in ListPage
  /\ items \in [Item -> {"a", "b", "gone"}] /\ query = "all" /\ rows = NoRows
  /\ IF Debounced THEN fetches = {} /\ sent = 0 /\ timer = "all"
     ELSE /\ fetches = {[query |-> "all", no |-> 1, answer |-> Nobody]}
          /\ sent = 1 /\ timer = Nobody
  /\ edit = Nobody /\ quirk = {}

-----------------------------------------------------------------------------
(* Fetching.                                                               *)

\* A tab, a filter or a search is chosen: the effect fetches, or starts the
\* debounce anew with the query of now.
ChooseQuery ==
  /\ \E q \in Queries \ {query} :
       /\ query' = q
       /\ IF Debounced THEN timer' = q /\ UNCHANGED <<fetches, sent, quirk>>
          ELSE Load(q) /\ timer' = timer /\ quirk' = IF Patches THEN quirk ELSE {}
  /\ UNCHANGED <<list, items, rows, edit>>

TimerFires ==
  /\ timer # Nobody /\ Load(timer) /\ timer' = Nobody
  /\ UNCHANGED <<list, items, query, rows, edit, quirk>>

ServeFetch ==
  /\ \E f \in fetches : f.answer = Nobody /\
       fetches' = (fetches \ {f}) \cup {[f EXCEPT !.answer = Answer(f.query)]}
  /\ UNCHANGED <<list, items, query, rows, sent, timer, edit, quirk>>

\* A change that was made while the GET was open.
FetchAnswered ==
  /\ \E f \in fetches :
       /\ f.answer # Nobody
       /\ fetches' = fetches \ {f}
       /\ rows' = [at |-> f.no, is |-> f.answer]
       /\ quirk' = quirk \cup (IF f.no < rows.at THEN {"order"} ELSE {})
                         \cup (IF Patches /\ f.answer # Answer(f.query) THEN {"patch"} ELSE {})
  /\ UNCHANGED <<list, items, query, sent, timer, edit>>

\* Bound: nothing is lost that no GET can follow.
FetchFails ==
  /\ sent < MaxSent
  /\ \E f \in fetches : f.answer = Nobody /\ fetches' = fetches \ {f}
  /\ quirk' = quirk \cup {"lost"}
  /\ UNCHANGED <<list, items, query, rows, sent, timer, edit>>

-----------------------------------------------------------------------------
(* Changing.  Bound: one request of a handler at a time.                   *)

\* What the buttons of a row do: reject, ban and unban move an item, delete
\* removes it; the forms of Maps and AdminManagement add one.
Changes(i) ==
  CASE list = "panoramas" -> IF rows.is[i] = "gone" THEN {} ELSE {"b", "gone"}
    [] list = "userSearch" -> {IF k = "a" THEN "b" ELSE "a" : k \in {rows.is[i]} \ {"gone"}}
    [] list \in {"maps", "admins"} -> IF rows.is[i] # "gone" THEN {"gone"}
                                      ELSE IF items[i] = "gone" THEN {"a"} ELSE {}
    [] OTHER -> {}

Change ==
  /\ edit = Nobody
  /\ \E i \in Item : \E to \in Changes(i) :
       edit' = [item |-> i, to |-> to, query |-> query, seen |-> rows.is[i], done |-> "no"]
  /\ UNCHANGED <<list, items, query, rows, fetches, sent, timer, quirk>>

\* The server makes the change, which another admin may have made impossible.
ServeChange ==
  /\ edit # Nobody /\ edit.done = "no"
  /\ \/ /\ items' = [items EXCEPT ![edit.item] = edit.to]
        /\ edit' = [edit EXCEPT !.done = "ok"]
     \/ items' = items /\ edit' = [edit EXCEPT !.done = "failed"]
  /\ UNCHANGED <<list, query, rows, fetches, sent, timer, quirk>>

\* toggleBan flips the row there is by now; the others append or remove it.
Patched(i, to) ==
  IF list = "userSearch"
    THEN [rows.is EXCEPT ![i] = IF @ = "a" THEN "b" ELSE IF @ = "b" THEN "a" ELSE @]
    ELSE [rows.is EXCEPT ![i] = to]

\* A failure is reported, or not caught at all: the rows stay.
ChangeAnswered ==
  /\ edit # Nobody /\ edit.done # "no"
  /\ edit' = Nobody
  /\ IF edit.done = "failed" THEN UNCHANGED <<rows, fetches, sent, quirk>>
     ELSE IF Patches
       THEN /\ rows' = [rows EXCEPT !.is = Patched(edit.item, edit.to)]
            /\ quirk' = quirk \cup (IF rows.is[edit.item] = edit.seen THEN {} ELSE {"patch"})
            /\ UNCHANGED <<fetches, sent>>
       ELSE /\ Load(edit.query)
            /\ quirk' = IF edit.query = query THEN {} ELSE quirk \cup {"closure"}
            /\ UNCHANGED rows
  /\ UNCHANGED <<list, items, query, timer>>

\* The server has made the change and its answer is lost: a failure for the page.
AnswerToChangeLost ==
  /\ sent < MaxSent
  /\ edit # Nobody /\ edit.done = "ok" /\ edit' = Nobody
  /\ quirk' = quirk \cup {"lost"}
  /\ UNCHANGED <<list, items, query, rows, fetches, sent, timer>>

ListNext ==
  \/ ChooseQuery \/ TimerFires \/ ServeFetch \/ FetchAnswered \/ FetchFails
  \/ Change \/ ServeChange \/ ChangeAnswered \/ AnswerToChangeLost

ListSpec == ListInit /\ [][ListNext]_listVars

-----------------------------------------------------------------------------
(* Properties.                                                             *)

Row == [Item -> {"a", "b", "gone"}]

EditRecord == [item: Item, to: {"a", "b", "gone"}, query: {"all", "a", "b"},
               seen: {"a", "b", "gone"}, done: {"no", "ok", "failed"}]

ASSUME NobodyAssumption == Nobody \notin {"all", "a", "b"} /\ Nobody \notin Row \cup EditRecord

\* Every variable has its type.
ListTypeOK ==
  /\ list \in ListPage /\ items \in Row /\ query \in Queries
  /\ rows \in [at: 0..MaxSent, is: Row] /\ sent \in 0..MaxSent
  /\ \A f \in fetches : f \in [query: Queries, no: 1..MaxSent, answer: Row \cup {Nobody}]
  /\ timer \in {"all", "a", "b", Nobody} /\ edit \in EditRecord \cup {Nobody}
  /\ quirk \subseteq {"order", "closure", "patch", "lost"}

ListSettled == fetches = {} /\ timer = Nobody /\ edit = Nobody

\* With nothing open a page shows the rows of the tab or filter that is chosen, as
\* the server has them.  After an answer that came late, a GET or an answer that was
\* lost, or a handler that went on with a tab left since it may be otherwise, but a
\* page that fetches its rows again only until it next fetches what is chosen.  A
\* patched row stays in a filter it has left.
RowsOfQuery ==
  ListSettled /\ quirk = {} /\ rows.at # 0 =>
    \A i \in Item :
      IF Patches THEN rows.is[i] # "gone" => rows.is[i] = items[i]
      ELSE rows.is[i] = Answer(query)[i]

\* A page that patches its rows loses none: what it fetched and what was added since
\* is shown until it is removed.
NoRowLost ==
  ListSettled /\ quirk = {} /\ rows.at # 0 /\ query = "all" =>
    \A i \in Item : items[i] # "gone" => rows.is[i] # "gone"

\* The rows are in step with the query and the server.
ListInStep == RowsOfQuery /\ NoRowLost

=============================================================================
