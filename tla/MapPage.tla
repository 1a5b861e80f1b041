------------------------------ MODULE MapPage ------------------------------
(***************************************************************************)
(* The admin page MapDetail without its upload section: the map with its   *)
(* floors, the panoramas on their plans, the form that edits the map.  The *)
(* page is changed by its GETs only: a handler awaits its request and then *)
(* loads the map or the panoramas again.  Each answer is applied when it   *)
(* comes, in any order, and the panoramas are filtered by the floors of    *)
(* the map that was shown when the handler was called.  A GET may fail,    *)
(* and so may what was done at the server already, as far as the page      *)
(* knows: nothing is loaded then.                                          *)
(***************************************************************************)
EXTENDS Integers, FiniteSets, FiniteSetsExt

CONSTANTS
  Pano,       \* panoramas that may be uploaded to the map
  MaxFloors,  \* bound: floors added to the map
  MaxChanges, \* bound: changes made
  None        \* no floor, no panorama, no request

ASSUME MapPageAssumption ==
  /\ IsFiniteSet(Pano) /\ MaxFloors \in Nat \ {0} /\ MaxChanges \in Nat
  /\ None \notin Pano /\ None \notin 1..MaxFloors

VARIABLES
  floors,   \* the server's floors: their ids with their numbers
  panos,    \* the server's panoramas: where each one is, or None
  changes,  \* how often the floors and the panoramas were changed
  editor,   \* the page (removed: the floors it has deleted, history)
  loads,    \* GETs of the page that are open
  action,   \* the request of a handler, with what the handler knows, or None
  odd       \* what the page may be behind with: "map", "panos"; "order" (history)

mapVars == <<floors, panos, changes, editor, loads, action, odd>>

\* A position is 0..1 of the plan; a pointer can be outside.
Pointer == -1..2
Place == 0..1

MapInit ==
  /\ floors = {} /\ panos = [p \in Pano |-> None]
  /\ changes = [map |-> 0, panos |-> 0]
  /\ editor = [floors |-> {}, loaded |-> FALSE, mapOf |-> 0, listed |-> [p \in Pano |-> None],
               listOf |-> 0, selected |-> None, drag |-> None, watched |-> None, removed |-> {}]
  /\ loads = {[of |-> "map", filter |-> {}, answer |-> None]}
  /\ action = None /\ odd = {}

Ids(fs) == {f.id : f \in fs}

-----------------------------------------------------------------------------
(* GETs.  Bound: two are open at a time; two that ask the same and are not *)
(* served yet are taken as one.  A GET keeps of its handler's render the   *)
(* floors of the map, or the floor that was selected.                      *)

LoadMap(selected) == [of |-> "map", filter |-> {selected} \ {None}, answer |-> None]
LoadPanos(fs) == [of |-> "panos", filter |-> Ids(fs), answer |-> None]

ServeLoad ==
  /\ \E g \in loads :
       /\ g.answer = None
       /\ loads' = (loads \ {g}) \cup
            {[g EXCEPT !.answer = IF g.of = "map" THEN [is |-> floors, at |-> changes.map]
                                  ELSE [is |-> panos, at |-> changes.panos]]}
  /\ UNCHANGED <<floors, panos, changes, editor, action, odd>>

\* The first floor is selected when none is, or none was when the handler was called;
\* a floor deleted since stays so.
Selection(fs, selected) ==
  IF fs # {} /\ (editor.selected = None \/ selected = {})
    THEN (CHOOSE f \in fs : \A g \in fs : f.number <= g.number).id
    ELSE editor.selected

\* An answer that was overtaken leaves the page behind, the latest one does not.
Behind(what, overtaken, latest) ==
  IF overtaken THEN odd \cup {what} ELSE IF latest THEN odd \ {what} ELSE odd

\* loadMap fills the form anew (its text is left out); the first map loads its
\* panoramas.
MapLoaded(g) ==
  /\ g.of = "map"
  /\ editor' = [editor EXCEPT !.floors = g.answer.is, !.loaded = TRUE, !.mapOf = g.answer.at,
                              !.selected = Selection(g.answer.is, g.filter)]
  /\ loads' = (loads \ {g}) \cup (IF editor.loaded THEN {} ELSE {LoadPanos(g.answer.is)})
  /\ odd' = Behind("map", g.answer.at < editor.mapOf, g.answer.at = changes.map)
              \cup (IF g.answer.at < editor.mapOf THEN {"order"} ELSE {})

Filtered(ps, ids) == [p \in Pano |-> IF ps[p] # None /\ ps[p].floor \in ids THEN ps[p] ELSE None]

\* A panorama is left out when its floor was not yet shown to the handler.
PanosLoaded(g) ==
  /\ g.of = "panos"
  /\ editor' = [editor EXCEPT !.listed = Filtered(g.answer.is, g.filter), !.listOf = g.answer.at]
  /\ loads' = loads \ {g}
  /\ odd' = Behind("panos", g.answer.at < editor.listOf \/ ~(Ids(editor.floors) \subseteq g.filter),
                   g.answer.at = changes.panos)

LoadAnswered ==
  /\ \E g \in loads : g.answer # None /\ (MapLoaded(g) \/ PanosLoaded(g))
  /\ UNCHANGED <<floors, panos, changes, action>>

\* What was shown stays; a page whose first GET fails shows nothing.
LoadFails ==
  /\ \E g \in loads :
       g.answer = None /\ loads' = loads \ {g} /\ odd' = odd \cup {g.of}
  /\ UNCHANGED <<floors, panos, changes, editor, action>>

-----------------------------------------------------------------------------
(* What the admin does.  Bound: one request of a handler at a time.        *)

\* Bound: beyond the last change only the form is saved.
ChangesMore == changes.map + changes.panos < MaxChanges

Ask(op, floor, pano, place) ==
  /\ editor.loaded /\ action = None
  /\ op = "save" \/ ChangesMore
  /\ action' = [op |-> op, floor |-> floor, pano |-> pano, place |-> place,
                known |-> editor.floors, selected |-> editor.selected, done |-> FALSE]
  /\ UNCHANGED <<floors, panos, changes, loads, odd>>

\* addFloor: the number after the highest one shown.
NextNumber == Max({f.number : f \in editor.floors} \cup {0}) + 1
AddFloor == Ask("addFloor", NextNumber, None, 0) /\ UNCHANGED editor

DeleteFloor == \E f \in editor.floors : Ask("deleteFloor", f.id, None, 0) /\ UNCHANGED editor

ReplaceImage == editor.floors # {} /\ Ask("image", None, None, 0) /\ UNCHANGED editor

DeletePano ==
  \E p \in Pano : editor.listed[p] # None /\ Ask("deletePano", None, p, 0) /\ UNCHANGED editor

\* The upload section sends a panorama to the floor selected; its row is there once
\* the upload URL was handed out.
UploadPano ==
  \E p \in Pano : /\ panos[p] = None /\ editor.selected # None
                  /\ Ask("upload", editor.selected, p, 0) /\ UNCHANGED editor

\* Mutant: a pointer outside the plan is taken as it is.
ToRelativeRaw(x) == x

ToRelative(x) == IF x < 0 THEN 0 ELSE IF x > 1 THEN 1 ELSE x

\* FloorPlan: a dot is pressed, and released or dragged off the plan.
StartDrag ==
  /\ ChangesMore /\ editor.drag = None
  /\ \E p \in Pano : /\ editor.listed[p] # None /\ editor.listed[p].floor \in Ids(editor.floors)
                     /\ editor' = [editor EXCEPT !.drag = p]
  /\ UNCHANGED <<floors, panos, changes, loads, action, odd>>

EndDrag ==
  /\ editor.drag # None
  /\ \E x \in Pointer : Ask("move", None, editor.drag, ToRelative(x))
  /\ editor' = [editor EXCEPT !.drag = None]

\* The form is saved; what is typed into it, and the map's own fields, are left out.
SaveEdit == Ask("save", None, None, 0) /\ UNCHANGED editor

SelectFloor ==
  /\ \E f \in editor.floors : editor' = [editor EXCEPT !.selected = f.id]
  /\ UNCHANGED <<floors, panos, changes, loads, action, odd>>

-----------------------------------------------------------------------------
(* The server.                                                             *)

\* The id of a floor is new: it is the number of floors ever added.
NewFloor ==
  LET id == Max(Ids(floors) \cup Ids(editor.floors) \cup editor.removed \cup {0}) + 1 IN
  /\ id <= MaxFloors /\ action.floor \notin {f.number : f \in floors}
  /\ floors' = floors \cup {[id |-> id, number |-> action.floor]} /\ panos' = panos

\* A floor takes its panoramas with it.
RemoveFloor ==
  /\ action.floor \in Ids(floors)
  /\ floors' = {f \in floors : f.id # action.floor}
  /\ panos' = [p \in Pano |-> IF panos[p] # None /\ panos[p].floor = action.floor THEN None
                              ELSE panos[p]]

PanoTo(at) == panos' = [panos EXCEPT ![action.pano] = at] /\ floors' = floors

Performed ==
  CASE action.op = "addFloor" -> NewFloor
    [] action.op = "deleteFloor" -> RemoveFloor
    [] action.op = "upload" ->
         action.floor \in Ids(floors) /\ PanoTo([floor |-> action.floor, place |-> 0])
    [] action.op = "move" ->
         /\ panos[action.pano] # None
         /\ PanoTo([panos[action.pano] EXCEPT !.place = action.place])
    [] action.op = "deletePano" -> panos[action.pano] # None /\ PanoTo(None)
    [] OTHER -> UNCHANGED <<floors, panos>>

ServeAction ==
  /\ action # None /\ ~action.done /\ (action.op = "save" \/ ChangesMore)
  /\ Performed
  /\ action' = [action EXCEPT !.done = TRUE]
  /\ changes' = [map |-> IF floors' = floors THEN changes.map ELSE changes.map + 1,
                 panos |-> IF panos' = panos THEN changes.panos ELSE changes.panos + 1]
  /\ editor' = [editor EXCEPT !.removed = @ \cup (Ids(floors) \ Ids(floors'))]
  /\ UNCHANGED <<loads, odd>>

\* Refused, or failed with nothing done: reported, and nothing loaded.
FailAction ==
  /\ action # None /\ ~action.done /\ action' = None
  /\ UNCHANGED <<floors, panos, changes, editor, loads, odd>>

-----------------------------------------------------------------------------
(* The handler goes on.                                                    *)

\* Mutant: a moved panorama is not fetched again.
ReloadsSome == IF action.op = "move" THEN {} ELSE IF action.op \in {"upload", "deletePano"}
                 THEN {LoadPanos(action.known)} ELSE {LoadMap(action.selected)}

\* Panoramas are loaded with the map known to the handler, the map otherwise;
\* deleting a floor does not load the panoramas.
Reloads ==
  IF action.op \in {"upload", "move", "deletePano"} THEN {LoadPanos(action.known)}
  ELSE {LoadMap(action.selected)}

ActionAnswered ==
  /\ action # None /\ action.done /\ action' = None
  /\ loads' = loads \cup Reloads /\ Cardinality(loads') <= 2
  /\ editor' = [editor EXCEPT !.watched = IF action.op = "upload"
                                            THEN LoadPanos(action.known) ELSE @]
  /\ UNCHANGED <<floors, panos, changes, odd>>

\* The answer to what was done is lost, or the PUT or the confirmation of an upload
\* fails whose row is there by now: reported as a failure too.
AnswerLost ==
  /\ action # None /\ action.done /\ action' = None
  /\ odd' = odd \cup {IF action.op \in {"upload", "move", "deletePano"} THEN "panos" ELSE "map"}
  /\ UNCHANGED <<floors, panos, changes, editor, loads>>

\* The WebSocket of an upload tells that its tiling ended: the panoramas are loaded
\* once more, with the map of the upload.  Bound: the latest upload is watched.
TilingReported ==
  /\ editor.watched # None
  /\ loads' = loads \cup {editor.watched} /\ Cardinality(loads') <= 2
  /\ editor' = [editor EXCEPT !.watched = None]
  /\ UNCHANGED <<floors, panos, changes, action, odd>>

AdminActs ==
  \/ AddFloor \/ DeleteFloor \/ ReplaceImage \/ DeletePano \/ UploadPano \/ StartDrag
  \/ EndDrag \/ SaveEdit \/ SelectFloor

MapNext ==
  \/ ServeLoad \/ LoadAnswered \/ LoadFails \/ AdminActs \/ ServeAction \/ FailAction
  \/ ActionAnswered \/ AnswerLost \/ TilingReported

MapSpec == MapInit /\ [][MapNext]_mapVars

-----------------------------------------------------------------------------
(* Properties.                                                             *)

Or(S) == S \cup {None}
FloorRecord == [id: 1..MaxFloors, number: 1..MaxFloors]
PlaceOn == [floor: 1..MaxFloors, place: Place]
MapAnswer == [is: SUBSET FloorRecord, at: 0..MaxChanges]
PanosAnswer == [is: [Pano -> Or(PlaceOn)], at: 0..MaxChanges]
MapLoad == [of: {"map"}, filter: SUBSET (1..MaxFloors), answer: Or(MapAnswer)]
PanosLoad(answers) == [of: {"panos"}, filter: SUBSET (1..MaxFloors), answer: answers]
EditorRecord ==
  [floors: SUBSET FloorRecord, loaded: BOOLEAN, mapOf: 0..MaxChanges,
   listed: [Pano -> Or(PlaceOn)], listOf: 0..MaxChanges, selected: Or(1..MaxFloors),
   drag: Or(Pano), watched: Or(PanosLoad({None})), removed: SUBSET (1..MaxFloors)]
ActionRecord ==
  [op: {"addFloor", "deleteFloor", "image", "deletePano", "upload", "move", "save"},
   floor: Or(1..(MaxFloors + 1)), pano: Or(Pano), place: Place, known: SUBSET FloorRecord,
   selected: Or(1..MaxFloors), done: BOOLEAN]

ASSUME NoneAssumption ==
  /\ None \notin 1..(MaxFloors + 1) /\ None \notin PlaceOn
  /\ None \notin MapAnswer /\ None \notin PanosAnswer
  /\ None \notin PanosLoad({None}) /\ None \notin ActionRecord

\* Every variable has its type; the places are within the plan wherever the pointer was.
MapTypeOK ==
  /\ floors \subseteq FloorRecord /\ panos \in [Pano -> Or(PlaceOn)]
  /\ changes \in [map: 0..MaxChanges, panos: 0..MaxChanges]
  /\ editor \in EditorRecord /\ action \in Or(ActionRecord)
  /\ \A g \in loads : IF g.of = "map" THEN g \in MapLoad ELSE g \in PanosLoad(Or(PanosAnswer))
  /\ IsFiniteSet(loads) /\ Cardinality(loads) <= 2
  /\ odd \subseteq {"order", "map", "panos"}

Settled == editor.loaded /\ loads = {} /\ action = None

\* Once nothing is open the page shows the floors as they are, and on each plan its
\* panoramas where they are.  It may be behind after a GET that failed, a change whose
\* answer was lost, an older answer that came last, and, with the panoramas, a handler
\* that filtered by floors added to since; but only until the latest is fetched.  (After
\* maps that came out of order nothing is said of the panoramas.)
ShowsTheMap ==
  Settled =>
    /\ "map" \notin odd => editor.floors = floors
    /\ odd \cap {"order", "panos"} = {} =>
         \A p \in Pano :
           panos[p] # None \/ (editor.listed[p] # None /\ editor.listed[p].floor \in Ids(floors))
             => editor.listed[p] = panos[p]

\* The floor that uploads go to is one of the map's, or one deleted from this very
\* page: the selection is not corrected then (nor when an older map came last).
SelectionOnMap ==
  editor.loaded /\ editor.floors # {} /\ "order" \notin odd =>
    editor.selected \in Ids(editor.floors) \cup editor.removed

\* The page is in step with the map.
MapInStep == ShowsTheMap /\ SelectionOnMap

=============================================================================
