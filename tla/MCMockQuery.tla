---------------------------- MODULE MCMockQuery ----------------------------
(***************************************************************************)
(* Service roots with and without a path and a query of their own, on the  *)
(* mock's host and on another, and the sets and options of a few calls.    *)
(***************************************************************************)
EXTENDS MockQuery

CONSTANTS h1, h2

MCWord == {"People", "Other", "api", "key", "page", "1", "2", "x"}
MCPeople == <<"russell", "scott", "ronald", "javier">>

P(k, v) == [key |-> k, value |-> <<v>>, ok |-> TRUE]
Bad(k) == [P(k, "x") EXCEPT !.ok = FALSE]
At(path, query) == [form |-> "absolute", host |-> h1, path |-> path, query |-> query]

MCRoots ==
    {At(<< >>, << >>), At(<<"/">>, << >>), At(<<"/", "api", "/", "/">>, << >>),
     At(<<"/", "api", "/">>, <<P("key", "1")>>), At(<<"/", "api", "%2F", "x", "%2F">>, << >>),
     At(<< >>, <<P("key", "1"), P("key", "2"), P("$top", "2")>>),
     At(<<"/">>, <<Bad("key"), P("$filter", "1")>>), At(<< >>, <<P("page", "2")>>),
     At(<<"/", "People">>, << >>),
     [At(<< >>, << >>) EXCEPT !.host = h2], [At(<< >>, << >>) EXCEPT !.form = "relative"],
     [At(<< >>, << >>) EXCEPT !.form = "unparsable"]}

MCSets == {<<"People">>, <<"/", "People">>, <<"Other">>, <<"$metadata">>, << >>}
Of(f, s, o, t) == [filter |-> f, select |-> s, orderby |-> o, top |-> t]
MCOptions == {Of(<< >>, << >>, << >>, << >>), Of(<<"1">>, <<"2">>, <<"x">>, <<"1", "/", "2">>),
              Of(<< >>, <<"x">>, << >>, <<"1">>)}

MCMaxRowsArg == {-1, 0, 1, 3, 5}
MCAsks ==
    {[fn |-> "query", root |-> r, set |-> s, filter |-> o.filter, select |-> o.select,
      orderby |-> o.orderby, top |-> o.top, max |-> m] :
        r \in MCRoots, s \in MCSets, o \in MCOptions, m \in MCMaxRowsArg}
    \cup
    {[fn |-> f, root |-> r, set |-> << >>, filter |-> << >>, select |-> << >>,
      orderby |-> << >>, top |-> << >>, max |-> 1] :
        f \in {"sets", "metadata"}, r \in MCRoots}
=============================================================================
