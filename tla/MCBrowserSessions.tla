------------------------- MODULE MCBrowserSessions -------------------------
(***************************************************************************)
(* Model values for checking BrowserSessions with TLC: two accounts,       *)
(* each with one token.                                                    *)
(***************************************************************************)
EXTENDS BrowserSessions, TLC

CONSTANTS a, b, x, y

MCOwner == (x :> a) @@ (y :> b)
=============================================================================
