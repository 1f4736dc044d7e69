---------------------------- MODULE MCWorkspaces ----------------------------
EXTENDS Workspaces
CONSTANTS run1, run2
MCTicket == (run1 :> "A") @@ (run2 :> "B")
Of(x, y) == ("A" :> x) @@ ("B" :> y)
MCKinds  == {Of("path", "sibling"), Of("slug", "herdr"), Of("main", "path")}
\* Two tickets of the plain kind.
MCPlain  == {Of("path", "path")}
=============================================================================
