---------------------------- MODULE DeskClients ----------------------------
(***************************************************************************)
(* The pages beside the game: signing in and out of the game and the admin *)
(* panel, registering, and the panel's pages on maps, panoramas and users. *)
(* A page knows nothing of another one: each behaviour is of one of them,  *)
(* and the others stay as they were opened.                                *)
(***************************************************************************)
EXTENDS SignIn, Registration, MapUpload, MapPage, AdminLists, UserList

VARIABLE desk  \* where the behaviour takes place

Desk == {"sign in", "register", "upload", "map", "list", "users"}
deskVars == <<desk, signVars, regVars, uploadVars, mapVars, listVars, userVars>>

\* Pages that are left alone need not be opened in more than one way.
LeftAlone ==
  /\ desk # "sign in" => {t \in Tab : tabPage[t] = "login"} = CHOOSE tabs \in Browsers : TRUE
  /\ desk # "list" => list = "dashboard" /\ items = [i \in Item |-> "gone"]
  /\ desk # "users" => users = CHOOSE s \in Starts : TRUE

DeskInit ==
  /\ desk \in Desk
  /\ SignInit /\ RegInit /\ UploadInit /\ MapInit /\ ListInit /\ UserInit
  /\ LeftAlone

DeskNext ==
  /\ \/ /\ desk = "sign in" /\ SignNext
        /\ UNCHANGED <<regVars, uploadVars, mapVars, listVars, userVars>>
     \/ /\ desk = "register" /\ RegNext
        /\ UNCHANGED <<signVars, uploadVars, mapVars, listVars, userVars>>
     \/ /\ desk = "upload" /\ UploadNext
        /\ UNCHANGED <<signVars, regVars, mapVars, listVars, userVars>>
     \/ /\ desk = "map" /\ MapNext
        /\ UNCHANGED <<signVars, regVars, uploadVars, listVars, userVars>>
     \/ /\ desk = "list" /\ ListNext
        /\ UNCHANGED <<signVars, regVars, uploadVars, mapVars, userVars>>
     \/ /\ desk = "users" /\ UserNext
        /\ UNCHANGED <<signVars, regVars, uploadVars, mapVars, listVars>>
  /\ UNCHANGED desk

\* Calls are answered; requests, sockets and tiling come to an end.
DeskFairness ==
  /\ \A t \in Tab : WF_signVars(desk = "sign in" /\ CallMoves(t))
  /\ WF_uploadVars(desk = "upload" /\ UploadProgress)

DeskSpec == DeskInit /\ [][DeskNext]_deskVars /\ DeskFairness

\* Every variable of every page has its type.
DeskTypeOK ==
  SignTypeOK /\ RegTypeOK /\ UploadTypeOK /\ MapTypeOK /\ ListTypeOK /\ UserTypeOK

\* What a page shows when it waits for nothing is what the server has, for the
\* tab, filter, search or floor that is chosen on it.  GETs, requests and answers may
\* be lost: a page may be behind after that, after an older answer that came last, and
\* after a handler that went on with what was chosen in an earlier render; but where
\* it fetches its rows again, only until it next fetches what is on show.
PagesInStep == MapInStep /\ ListInStep /\ UsersInStep

\* Nobody waits for ever: a call comes back through all its refreshes, an upload
\* ends, and the end of its tiling is shown.
DeskSettles == CallsEnd /\ UploadIsReported

=============================================================================
