-------------------------- MODULE MCAuthentication --------------------------
(* Two tabs of one browser, one with a socket, and one account.             *)
EXTENDS Authentication

CONSTANTS u1, b1, t1, t2, none

OneUser == {u1}
OneBrowser == {b1}
TwoTabs == {t1, t2}
OneHome == [t \in {t1, t2} |-> b1]
OneConsole == {t1}

=============================================================================
