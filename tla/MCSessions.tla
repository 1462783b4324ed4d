----------------------------- MODULE MCSessions -----------------------------
(***************************************************************************)
(* Instances of Sessions for TLC.                                          *)
(***************************************************************************)
EXTENDS SessionsRefinement, TLC

CONSTANTS tab1, tab2, tab3, chrome, firefox

\* Two tabs share a cookie jar, the third has its own.
OneTab == (tab1 :> chrome)
SharedJar == (tab1 :> chrome) @@ (tab2 :> chrome)
ThreeTabs == (tab1 :> chrome) @@ (tab2 :> chrome) @@ (tab3 :> firefox)

\* One tab per browser.
OwnJars == (tab1 :> chrome) @@ (tab3 :> firefox)
=============================================================================
