--------------------------- MODULE MCDeskClients ---------------------------
(* DeskClients for TLC: what is chosen in the browser, and who is there.    *)
EXTENDS DeskClients

CONSTANTS p1, p2, a1, f1, f2

\* Two tabs of the game, or one of the game and one of the panel.
TwoTabs == {{p1, p2}, {p1, a1}}

\* One file, for the form, or a batch of two.
OneOrBoth == {<<f1>>, <<f2>>, <<f1, f2>>}

\* The second user registers while the page is open; either may be banned on it.
OneAndLater == {<<"active", "later">>}

=============================================================================
