----------------------------- MODULE Discovery -----------------------------
(***************************************************************************)
(* EntitySets and Metadata of client.go: one GET each, of the service      *)
(* document or of the $metadata document, and the rows made of it.         *)
(***************************************************************************)
EXTENDS Selection, FiniteSets

SeqExt == INSTANCE SequencesExt

CONSTANTS
    Name,      \* names of entity sets, entity types, properties and EDM types
    NoName,    \* the empty string: an absent or empty name
    Documents  \* the documents a service may answer with

ASSUME NoNameAssumption == NoName \notin Name

AnyName == Name \cup {NoName}

\* A service document: the names under "value", and under "d" an array, an
\* object with the names of "EntitySets", or nothing.
ServiceDoc == [json : BOOLEAN, value : Seq(AnyName),
               d : {"absent", "array", "object"}, sets : Seq(AnyName)]

\* An EDMX document: schemas inside DataServices, and outside it.
EntityType == [name : AnyName, properties : Seq([name : AnyName, type : AnyName])]
Edmx == [xml : BOOLEAN, schemas : Seq(Seq(EntityType)), bare : Seq(Seq(EntityType))]

ASSUME DocumentsAssumption == Documents \subseteq ServiceDoc \cup Edmx

VARIABLES
    doc,     \* the document the service has at the URL
    pc,      \* "get", "done" or "failed"
    err,     \* the error returned with, if any
    result   \* the rows returned

discoveryVars == <<doc, pc, err, result>>

Init == /\ doc \in Documents
        /\ pc = "get"
        /\ err = "none"
        /\ result = << >>

Fail(e) == /\ pc' = "failed"
           /\ err' = e
           /\ UNCHANGED result

Return(rows) == /\ pc' = "done"
                /\ result' = rows
                /\ UNCHANGED err

GetFails == pc = "get" /\ Fail("get") /\ UNCHANGED doc

\* The names that are not empty; the slip is to keep those too.
AllNames(names) == names
Named(names) == Without(names, {NoName})

\* The v2 member d is a struct: json.Unmarshal rejects an array there.
FitsServiceDoc(body) == body.json /\ body.d # "array"

\* d.EntitySets, empty when there is none.
InEnvelope(body) == IF body.d = "object" THEN body.sets ELSE << >>

EntitySets ==
    /\ pc = "get"
    /\ doc \in ServiceDoc
    /\ IF FitsServiceDoc(doc)
       THEN Return(IF Named(doc.value) # << >> THEN Named(doc.value) ELSE InEnvelope(doc))
       ELSE Fail("decode")
    /\ UNCHANGED doc

\* One row per property, in document order; the slip drops a type's last one.
PropertyRow(type, property) ==
    [entityType |-> type.name, property |-> property.name, type |-> property.type]

RowsButLast(type) ==
    [k \in 1 .. Len(type.properties) - 1 |-> PropertyRow(type, type.properties[k])]
Rows(type) ==
    [k \in 1 .. Len(type.properties) |-> PropertyRow(type, type.properties[k])]

Flat(schemas) ==
    LET types == SeqExt!FlattenSeq(schemas)
    IN  SeqExt!FlattenSeq([j \in DOMAIN types |-> Rows(types[j])])

Metadata ==
    /\ pc = "get"
    /\ doc \in Edmx
    /\ IF doc.xml
       THEN Return(Flat(IF doc.schemas # << >> THEN doc.schemas ELSE doc.bare))
       ELSE Fail("decode")
    /\ UNCHANGED doc

Fetch == GetFails \/ EntitySets \/ Metadata

(***************************************************************************)
(* What the rows should be, read off the document: what stands at some of  *)
(* its places, in the order of the places.                                 *)
(***************************************************************************)
Earlier(x, y) ==
    \/ x[1] < y[1]
    \/ x[1] = y[1] /\ x[2] < y[2]
    \/ x[1] = y[1] /\ x[2] = y[2] /\ x[3] < y[3]

InOrder(places) ==
    [n \in 1 .. Cardinality(places) |->
        CHOOSE x \in places : Cardinality({y \in places : Earlier(y, x)}) = n - 1]

PropertyPlaces(schemas) ==
    UNION {UNION {{<<i, j, k>> : k \in DOMAIN schemas[i][j].properties} :
                  j \in DOMAIN schemas[i]} : i \in DOMAIN schemas}

Declared(schemas) ==
    LET order == InOrder(PropertyPlaces(schemas))
    IN  [n \in DOMAIN order |->
            LET x == order[n]
                type == schemas[x[1]][x[2]]
                declared == type.properties[x[3]]
            IN  [entityType |-> type.name, property |-> declared.name, type |-> declared.type]]

NamePlaces(names) == {<<1, 1, k>> : k \in {j \in DOMAIN names : names[j] # NoName}}

Advertised(d) ==
    LET order == InOrder(NamePlaces(d.value))
    IN  CASE order # << >> -> [n \in DOMAIN order |-> d.value[order[n][3]]]
          [] order = << >> /\ d.d = "object" -> d.sets
          [] OTHER -> << >>

(***************************************************************************)
(* Properties                                                              *)
(***************************************************************************)
\* The nth row of odata_metadata is the property that n - 1 others precede in the
\* document, schema by schema, type by type: each is there once, with the name of
\* the type that declares it (client.go, the loops of Metadata).
DocumentOrder ==
    pc = "done" /\ doc \in Edmx =>
        result = Declared(IF doc.schemas = << >> THEN doc.bare ELSE doc.schemas)

\* A service document that names entity sets under "value" has each of them
\* listed in its order and nothing else, whatever is under "d", and one that does
\* not has those of d.EntitySets (client.go, EntitySets).
NamesListed ==
    pc = "done" /\ doc \in ServiceDoc => result = Advertised(doc)

\* client.go on serviceDoc: v2 service documents have their names "under
\* d.EntitySets or d", and whichever exists is read.  So a well-formed document
\* with d an array is not rejected.
V2DocAccepted ==
    doc \in ServiceDoc => (doc.json => err # "decode")
=============================================================================
