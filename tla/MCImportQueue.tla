--------------------------- MODULE MCImportQueue ---------------------------
(***************************************************************************)
(* An instance of ImportQueue for TLC: three items, of one pull or of two. *)
(***************************************************************************)
EXTENDS ImportQueue

Source(k, s, f, u, p, i) ==
    [kind |-> k, select |-> s, folder |-> f, under |-> u, pull |-> p, key |-> i]

MCSources ==
    {Source("file", FALSE, {}, <<0, 0, 0>>, <<1, 2, 2>>, <<1, 1, 2>>),
     Source("url", FALSE, {}, <<0, 0, 0>>, <<1, 1, 2>>, <<1, 2, 1>>),
     \* a folder and what is in it
     Source("tree", TRUE, {1}, <<0, 1, 1>>, <<1, 1, 1>>, <<1, 2, 3>>),
     Source("tree", FALSE, {1, 2}, <<0, 1, 2>>, <<1, 1, 1>>, <<1, 2, 3>>),
     Source("drive", TRUE, {1, 2}, <<0, 0, 1>>, <<1, 1, 1>>, <<1, 2, 3>>),
     \* a folder that is empty when it is pulled first, and not when it is again
     Source("tree", FALSE, {1, 2}, <<0, 0, 2>>, <<1, 2, 2>>, <<1, 1, 2>>),
     Source("export", FALSE, {1, 2}, <<0, 0, 2>>, <<1, 2, 2>>, <<1, 1, 2>>),
     Source("drive", TRUE, {1, 2}, <<0, 0, 2>>, <<1, 2, 2>>, <<1, 1, 2>>),
     \* and the other way round: its document may come when its folder is gone
     Source("drive", TRUE, {1, 3}, <<0, 1, 0>>, <<1, 1, 2>>, <<1, 2, 1>>)}
=============================================================================
