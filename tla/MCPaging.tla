------------------------------ MODULE MCPaging ------------------------------
(***************************************************************************)
(* Small instances of Paging: one host, two paths, and at every URL every  *)
(* body of a set that has each shape and each form of next link.           *)
(***************************************************************************)
EXTENDS Paging

CONSTANTS a, b, c, h, p1, p2

\* A body a v4 service sends, one a v2 service sends, and the rest.
V4(values, following) ==
    [json |-> TRUE, value |-> values, nextLink |-> following,
     d |-> "absent", elems |-> << >>, next |-> Empty]

V2(form, values, following) ==
    [json |-> TRUE, value |-> << >>, nextLink |-> Empty,
     d |-> form, elems |-> values, next |-> following]

Malformed == [V4(<< >>, Empty) EXCEPT !.json = FALSE]

MCBodies ==
    { Malformed,
      V4(<< >>, Empty),
      V4(<< >>, [path |-> p1]),
      V4(<<a, b>>, [host |-> h, path |-> p2]),
      V4(<<c>>, Empty),
      V4(<<c, a>>, Unparsable),
      V2("results", << >>, [path |-> p2]),
      V2("results", <<b, a>>, [host |-> h, path |-> p1]),
      V2("results", <<c>>, Empty),
      V2("array", <<a>>, Empty),
      V2("object", << >>, Empty) }

MCPayload == {a, b, c}
MCServices == {[u \in URL |-> MCBodies]}
MCFirstURL == {[host |-> h, path |-> p1], Unparsable}
MCMaxRowsArg == {-1, 0, 1, 2, 5}

\* Services whose every answer is a v2 collection.
V2Bodies == {body \in MCBodies : body.d \in {"array", "results"}}
V2Services == {[u \in URL |-> V2Bodies]}
=============================================================================
