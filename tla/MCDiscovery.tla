---------------------------- MODULE MCDiscovery ----------------------------
(***************************************************************************)
(* Service documents with up to two names under each member, and EDMX      *)
(* documents with up to two schemas of up to two types, inside and outside *)
(* DataServices, with equal names in different places.                     *)
(***************************************************************************)
EXTENDS DiscoveryFunction

CONSTANTS a, b

MCName == {a, b}
Some(S, n) == UNION {[1 .. k -> S] : k \in 0 .. n}

MCServiceDocs ==
    [json : BOOLEAN, value : Some(AnyName, 2),
     d : {"absent", "array", "object"}, sets : {<< >>, <<a>>, <<b, NoName>>}]

Property(n, t) == [name |-> n, type |-> t]
NoProperties == [name |-> a, properties |-> << >>]
OneProperty == [name |-> b, properties |-> <<Property(a, a)>>]
TwoProperties == [name |-> a, properties |-> <<Property(a, b), Property(b, NoName)>>]
MCTypes == {NoProperties, OneProperty, TwoProperties}

MCEdmx ==
    [xml : BOOLEAN, schemas : Some(Some(MCTypes, 2), 2),
     bare : {<< >>, << <<OneProperty>>, <<TwoProperties, OneProperty>> >>}]

MCDocuments == MCServiceDocs \cup MCEdmx
=============================================================================
