--------------------------- MODULE MCPagedService ---------------------------
(***************************************************************************)
(* Collections of up to four entities on up to four pages, some empty, at  *)
(* the URLs of two hosts that have the same paths.                         *)
(***************************************************************************)
EXTENDS PagedService

CONSTANTS a, b, c, e, h1, h2, p1, p2

MCPayload == {a, b, c, e}

MCSplits ==
    { << << >> >>,
      << <<a>>, <<b, c>> >>,
      << <<a, b>>, << >>, <<c, e>> >>,
      << << >>, <<a>>, <<b, c>>, <<e>> >> }

First == [host |-> h1, path |-> p1]

Places(n) == {w \in [1 .. n -> URL] : w[1] = First}

MCLayouts ==
    LET Placed(split) ==
            { [i \in DOMAIN split |->
                  [at |-> w[i], items |-> split[i], form |-> f[i]]] :
              w \in Places(Len(split)),
              f \in [DOMAIN split -> {"absolute", "relative"}] }
    IN  {l \in UNION {Placed(split) : split \in MCSplits} :
            /\ Sound(l)
            /\ l[Len(l)].form = "absolute"}

MCServices == {Served(l, v) : l \in MCLayouts, v \in BOOLEAN}
MCFirstURL == {First}
MCMaxRowsArg == {0, 1, 2, 3}
=============================================================================
