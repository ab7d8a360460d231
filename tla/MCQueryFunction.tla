-------------------------- MODULE MCQueryFunction --------------------------
(***************************************************************************)
(* Collections of up to three entities on up to three pages of two hosts,  *)
(* scanned two rows to a tick, with the page cap and max_rows in the way.  *)
(***************************************************************************)
EXTENDS QueryFunction

CONSTANTS a, b, c, h1, h2, p1, p2

MCPayload == {a, b, c}

At(host, path) == [host |-> host, path |-> path]
OnPage(url, entities, form) == [at |-> url, items |-> entities, form |-> form]

MCLayouts ==
    { << OnPage(At(h1, p1), << >>, "absolute") >>,
      << OnPage(At(h1, p1), <<a>>, "relative"),
         OnPage(At(h1, p2), <<b, c>>, "absolute") >>,
      << OnPage(At(h1, p1), <<a, b>>, "absolute"),
         OnPage(At(h2, p2), << >>, "relative"),
         OnPage(At(h2, p1), <<c>>, "absolute") >> }

MCServices == {Served(l, v) : l \in MCLayouts, v \in BOOLEAN}
MCFirstURL == {At(h1, p1)}
MCMaxRowsArg == {-1, 0, 2, 3}
=============================================================================
