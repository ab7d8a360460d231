------------------------------- MODULE Pages -------------------------------
(***************************************************************************)
(* The response pages of an OData entity set as client.go reads them: the  *)
(* shapes it decodes (v4 and v2), and the resolution of a page's next      *)
(* link.  A body is reduced to the members that the decoders look at; a    *)
(* URL to its authority and the rest.                                      *)
(***************************************************************************)
EXTENDS Integers, Sequences

CONSTANTS
    Payload,      \* the raw JSON entities a service can hold
    Host,         \* scheme and authority of a URL
    Path,         \* path and query of a URL
    Empty,        \* the empty string, read as "no next link"
    Unparsable    \* a string that url.Parse rejects

ASSUME NoLinkAssumption == Empty # Unparsable

URL      == [host : Host, path : Path]
Relative == [path : Path]

ASSUME StringsAssumption ==
    {Empty, Unparsable} \cap (URL \cup Relative) = {}

Link == {Empty, Unparsable} \cup URL \cup Relative

(***************************************************************************)
(* A response body.  "json" is false for one that no decoder accepts.      *)
(* "d" is the form of the v2 envelope: no member d (or null), d an array,  *)
(* d an object with an array "results", d an object without one.  An       *)
(* absent member reads as the empty sequence or the empty link.            *)
(***************************************************************************)
Body == [json : BOOLEAN,
         value : Seq(Payload), nextLink : Link,
         d : {"absent", "array", "results", "object"},
         elems : Seq(Payload), next : Link]

Page == [ok : BOOLEAN, items : Seq(Payload), link : Link]

Rejected == [ok |-> FALSE, items |-> << >>, link |-> Empty]

\* json.Unmarshal into v2Page, whose D is a struct: an array there is an error.
FitsV2Page(body) == body.json /\ body.d # "array"

\* json.Unmarshal into v2SingleD, whose D is a slice: an object is an error.
FitsV2SingleD(body) == body.json /\ body.d \in {"absent", "array"}

\* A slip: the v2 next link is looked for where v4 has it.
decodePageNextMisplaced(body, v2) ==
    IF v2 /\ FitsV2Page(body) /\ body.d = "results"
    THEN [ok |-> TRUE, items |-> body.elems, link |-> body.nextLink]
    ELSE [ok |-> body.json, items |-> body.value, link |-> body.nextLink]

decodePage(body, v2) ==
    IF v2
    THEN IF FitsV2Page(body) /\ body.d = "results"
         THEN [ok |-> TRUE, items |-> body.elems, link |-> body.next]
         ELSE IF FitsV2Page(body) /\ FitsV2SingleD(body)
         THEN [ok |-> TRUE,
               items |-> IF body.d = "array" THEN body.elems ELSE << >>,
               link |-> Empty]
         ELSE Rejected
    ELSE IF body.json
         THEN [ok |-> TRUE, items |-> body.value, link |-> body.nextLink]
         ELSE Rejected

(***************************************************************************)
(* url.Parse, then ResolveReference: a relative link keeps the authority   *)
(* of the page it was found on, an absolute one replaces it, and one that  *)
(* does not parse is passed on verbatim.                                   *)
(***************************************************************************)
\* The slip of following a link as it was sent.
followVerbatim(current, link) == link

resolveNext(current, link) ==
    IF link \in Relative /\ current \in URL
    THEN [host |-> current.host, path |-> link.path]
    ELSE link
=============================================================================
