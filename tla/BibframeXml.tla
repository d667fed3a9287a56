------------------------------ MODULE BibframeXml ------------------------------
(***************************************************************************)
(* BIBFRAME as XML and as objects: MarcUtil.parseBibframeXML, which builds *)
(* the objects of a Work and of an Instance from a document, and           *)
(* propertiesToStrem, which writes them again.  Every class of items has a *)
(* buildBibToObj and a toBibFrameNode of its own; a missing child makes    *)
(* the first throw, and the exception is swallowed at the very top, so     *)
(* that one property can take all the others with it.                      *)
(*                                                                         *)
(* An element stands for a property (bf:title ...) with the element inside *)
(* it, its form; parts are the children that the code looks for, those     *)
(* that are always there together being one.  Of the texts of an element   *)
(* only counts what becomes of them when they are written, without being   *)
(* escaped and with their blanks trimmed and collapsed, and read again; of *)
(* the namespaces, which are declared at the root.                         *)
(***************************************************************************)
EXTENDS Integers, Sequences, FiniteSets

CONSTANTS
  Documents,  \* the documents that the program receives
  Null        \* no Work or Instance; no node

\* The children without which the exception is thrown, by form.
Needs ==
  [AdminMetadata |-> {}, Type |-> {"resource"}, Content |-> {"about", "label"},
   Issn |-> {"value"}, Lccn |-> {"value"}, Isbn |-> {"value"}, PublisherNumber |-> {"value"},
   OtherIdentifier |-> {}, Language |-> {"rdf:value"},
   Contribution |-> {"agent", "keys", "role"},
   AbbreviatedTitle |-> {"mainTitle", "code"}, Title |-> {"mainTitle"}, VariantTitle |-> {"mainTitle"},
   SeriesHub |-> {"about"}, ExpressionHub |-> {"about"}, RelatedHub |-> {"about"},
   Agent |-> {"about", "types", "labels"}, Topic |-> {"about", "type", "labels"},
   SubjectHub |-> {"about", "type", "labels", "title"},
   Issuance |-> {"about"}, ProvisionActivity |-> {"type", "place"}, Statement |-> {}]

\* Those that are read where they are.  otherPrimary: the primary name is not the
\* match key; seriesMark: not in a document, but what writing does to the title of
\* a series (Title.series).
Takes ==
  [f \in DOMAIN Needs |->
     CASE f = "AdminMetadata" -> {"status", "encodingLevel", "conventions", "local", "dates"}
       [] f = "Isbn"          -> {"status", "qualifier"}
       [] f = "Language"      -> {"part"}
       [] f = "Contribution"  -> {"type", "primary", "otherPrimary"}
       [] f = "Title"         -> {"sortKey", "titleKeys"}
       [] f = "Agent"         -> {"keys"}
       [] f = "ProvisionActivity" -> {"placeAbout", "placeValue"}
       [] f = "SeriesHub"     -> {"seriesMark"}
       [] OTHER               -> {}]

\* Those that make reading throw: titleNNMarcKey without titleNNMatchKey, a
\* nameNNMarcKey too short or without its match key, a bf:DescriptionConventions
\* without attribute, a comment where all children are gone through; and a text
\* that no XML parser takes.
Spoils == {"nameKeys", "emptyKeys", "bareConventions", "comment", "raw"}

\* bf:title, bf:subject and the like with an element inside that no branch is for; a
\* comment between the properties, or bf:Work or bf:Instance without attribute.
Unreadable == {"OtherTitle", "OtherSubject", "Comment"}

\* Properties that buildBibFrameObj does not know: bf:note, bf:genreForm, bf:hasInstance ...
Unknown == {"Other"}

Forms == DOMAIN Needs \cup Unreadable \cup Unknown

TitleForms == {"AbbreviatedTitle", "Title", "VariantTitle", "OtherTitle"}
Hubs       == {"SeriesHub", "ExpressionHub", "RelatedHub", "SubjectHub"}

Parts == Spoils \cup {"bf:value", "generation"} \cup UNION {Needs[f] \cup Takes[f] : f \in DOMAIN Needs}

\* What becomes of texts that are read and written, and on which trip to XML and
\* back (0: never).  The last of them has come to rest (it had blanks or tags in it,
\* or a reference in a reference); the first is no XML when written; a title is
\* nothing but blanks, on the next trip empty, and then without a node; a MARC key
\* is not one any more when trimmed.
Fates == {"settles", "breaks", "empties", "spoils"}
Texts == [Fates -> Nat]
Plain == [f \in Fates |-> 0]

Prefixes == {"rdfs", "bflc", "madsrdf"}   \* beside bf and rdf

\* Titles, contributions and others inside a hub, and elements; only hubs have the
\* properties inside them looked at.
KidType     == [form : TitleForms \cup {"Contribution", "Other"}, parts : SUBSET Parts,
            texts : Texts, kids : {<< >>}]
ElementType == {e \in [form : Forms, parts : SUBSET Parts, texts : Texts, kids : Seq(KidType)] :
              e.form \notin Hubs => e.kids = << >>}

Lists == Seq(ElementType) \cup {Null}

\* root: the prefixes declared there; scope: those known where the code uses them.
DocType == [root : SUBSET Prefixes, scope : SUBSET Prefixes, work : Lists, instance : Lists,
            wellFormed : BOOLEAN]

ASSUME DocumentAssumption ==
  Documents \subseteq
    {d \in DocType :
       /\ d.root \subseteq d.scope
       /\ \A p \in {"work", "instance"} :
            d[p] # Null => \A i \in DOMAIN d[p] : "seriesMark" \notin d[p][i].parts}
ASSUME NullAssumption ==
  /\ Null \notin Seq(ElementType) /\ Null \notin ElementType
  /\ Null \notin [root : SUBSET Prefixes, work : Lists, instance : Lists]

VARIABLES
  doc,     \* the document: namespaces, work and instance (sequences of elements, or
           \* Null) and whether it is well-formed
  bib,     \* the Bibframe: namespaces, work and instance, lists of items, or Null
  origin,  \* history: the Bibframe that doc was written from, or Null
  last     \* the last call: "none", "parsed", "edited", "written" or "throws"

vars == <<doc, bib, origin, last>>

NoBibframe == [root |-> {}, work |-> Null, instance |-> Null]

Init ==
  /\ doc \in Documents
  /\ bib = NoBibframe /\ origin = Null /\ last = "none"

------------------------------------------------------------------------------
\* Reading: buildBibToObj.
\* The elements of a list that have one of some forms, and the first of them.
Only(es, forms) ==
  LET kept[n \in 0 .. Len(es)] ==
        IF n = 0 THEN << >>
        ELSE IF es[n].form \in forms THEN Append(kept[n-1], es[n]) ELSE kept[n-1]
  IN  kept[Len(es)]

First(es, forms) == IF Only(es, forms) = << >> THEN << >> ELSE <<Head(Only(es, forms))>>

\* Of a hub, contributions and titles; of a series the first of each, of one that is
\* a subject the first title.
KnownKids(e) ==
  CASE e.form = "SeriesHub"  -> First(e.kids, {"Contribution"}) \o First(e.kids, TitleForms)
    [] e.form = "SubjectHub" -> First(e.kids, TitleForms)
    [] OTHER                 -> Only(e.kids, TitleForms \cup {"Contribution"})

\* A property without properties inside.
LeafReadable(e) ==
  /\ e.form \in DOMAIN Needs
  /\ Needs[e.form] \subseteq e.parts
  /\ e.parts \cap Spoils = {}

\* A hub is read with the contributions and titles inside it.
Readable(e) == LeafReadable(e) /\ \A i \in DOMAIN KnownKids(e) : LeafReadable(KnownKids(e)[i])

LeafItem(e) == [e EXCEPT !.parts = @ \cap (Needs[e.form] \cup Takes[e.form])]

Item(e) ==
  [LeafItem(e) EXCEPT !.kids = [i \in DOMAIN KnownKids(e) |-> LeafItem(KnownKids(e)[i])]]

\* The prefixes in the paths that it is searched with; one that is not in scope
\* makes the search throw.
LeafAsks(e) ==
  {p \in Prefixes :
     \/ p = "rdfs" /\ \/ e.form \in {"Content", "Contribution", "Agent", "ProvisionActivity"}
                      \/ e.form \in {"Isbn", "AdminMetadata"} /\ e.parts \cap {"status", "encodingLevel"} # {}
     \/ p = "bflc" /\ \/ e.form \in {"Contribution", "Title"}
                      \/ e.form = "Agent" /\ "keys" \in e.parts
                      \/ e.form = "AdminMetadata" /\ e.parts \ {"status"} # {}
     \/ p = "madsrdf" /\ e.form \in {"Agent", "Topic", "SubjectHub"}}

Inside(e) == {e} \cup {KnownKids(e)[i] : i \in DOMAIN KnownKids(e)}
Asks(e)   == UNION {LeafAsks(x) : x \in Inside(e)}

\* What becomes of the elements of a Work or Instance: all the known ones are
\* read, or an exception leaves nothing.
Known(es) == Only(es, Forms \ Unknown)

Throws(es, scope) ==
  es # Null /\ \E i \in DOMAIN Known(es) : ~ Readable(Known(es)[i]) \/ ~ Asks(Known(es)[i]) \subseteq scope

\* A slip: an item for the unknown elements, too.
ItemsOfAll(es) == IF es = Null THEN Null ELSE es

Items(es) == IF es = Null THEN Null ELSE [i \in DOMAIN Known(es) |-> Item(Known(es)[i])]

\* A slip: going on with the Instance when the Work has thrown.
ParsedApart(d) ==
  [root     |-> IF d.wellFormed THEN d.root ELSE {},
   work     |-> IF ~ d.wellFormed \/ Throws(d.work, d.scope) THEN Null ELSE Items(d.work),
   instance |-> IF ~ d.wellFormed \/ Throws(d.instance, d.scope) THEN Null ELSE Items(d.instance)]

\* parseBibframeXML: the Work first; the exception ends the Instance too.
Lost(d) == ~ d.wellFormed \/ Throws(d.work, d.scope)

Parsed(d) ==
  [root     |-> IF d.wellFormed THEN d.root ELSE {},
   work     |-> IF Lost(d) THEN Null ELSE Items(d.work),
   instance |-> IF Lost(d) \/ Throws(d.instance, d.scope) THEN Null ELSE Items(d.instance)]

------------------------------------------------------------------------------
\* Writing: toBibFrameNode.
\* A text on its next trip, and what its writing does to the element.
Aged(t) == [f \in Fates |-> IF t[f] = 0 THEN 0 ELSE t[f] - 1]

Damage(e) ==
  {p \in {"raw", "emptyKeys"} : \/ p = "raw" /\ e.texts["breaks"] = 1
                                \/ p = "emptyKeys" /\ "keys" \in e.parts /\ e.texts["spoils"] = 1}

\* A slip: the name that buildBibToObj looks for.
WrittenTitleRight(ps, series) == ps

\* The keys of a title are written under the names that a name's have.
WrittenTitle(ps, series) ==
  IF series \/ "titleKeys" \in ps THEN (ps \ {"titleKeys"}) \cup {"nameKeys"} ELSE ps

\* Whether descriptionConventions are written depends on the encoding level.
WrittenAdmin(ps) ==
  IF "encodingLevel" \in ps
    THEN IF "conventions" \in ps THEN ps ELSE ps \cup {"bareConventions"}
    ELSE ps \ {"conventions"}

\* The primary name is written from the match key; no title says that it is one of a
\* series.
WrittenParts(e, series) ==
  CASE e.form = "Language"      -> (e.parts \ {"rdf:value"}) \cup {"bf:value"}
    [] e.form = "AdminMetadata" -> WrittenAdmin(e.parts)
    [] e.form = "Agent"         -> IF "keys" \in e.parts THEN e.parts ELSE e.parts \cup {"emptyKeys"}
    [] e.form = "Title"         -> WrittenTitle(e.parts, series)
    [] e.form = "Contribution"  -> e.parts \ {"otherPrimary"}
    [] e.form = "SeriesHub"     -> e.parts \ {"seriesMark"}
    [] OTHER                    -> e.parts

WrittenLeaf(e, series) ==
  [e EXCEPT !.parts = WrittenParts(e, series) \cup Damage(e), !.texts = Aged(@)]

\* A slip: writing what follows the contribution.
SeriesKidsRest(kids) == IF kids = << >> THEN kids ELSE Tail(kids)

\* A series is written with its contribution, or else with its title.
SeriesKids(kids) ==
  LET names == First(kids, {"Contribution"})
  IN  IF names # << >> THEN names ELSE kids

KidsToWrite(o) == IF o.form = "SeriesHub" THEN SeriesKids(o.kids) ELSE o.kids

\* An identifier without a number of any kind has no node, nor has an empty title or a
\* hub that one is to be put into.
Empty(e) == e.form \in TitleForms /\ e.texts["empties"] = 1

Nodeless(o) ==
  o.form = "OtherIdentifier" \/ Empty(o) \/ \E i \in DOMAIN KidsToWrite(o) : Empty(KidsToWrite(o)[i])

\* The element that an item is written as.  A topic becomes an agent with one type.
Written(o) ==
  IF Nodeless(o) THEN Null
  ELSE IF o.form = "Topic"
    THEN [WrittenLeaf(o, FALSE) EXCEPT !.form = "Agent", !.parts = {"about", "labels", "emptyKeys"} \cup Damage(o)]
    ELSE [WrittenLeaf(o, FALSE) EXCEPT !.kids =
            [i \in DOMAIN KidsToWrite(o) |-> WrittenLeaf(KidsToWrite(o)[i], o.form = "SeriesHub")]]

\* Texts are written without escaping them, and prefixes whether declared or not.
LeafUses(e) ==
  {p \in Prefixes :
     \/ p = "rdfs" /\ \/ e.form \in {"Content", "Contribution", "Agent"}
                      \/ e.parts \cap {"status", "encodingLevel", "placeValue"} # {}
     \/ p = "bflc" /\ \/ e.form \in {"Contribution", "Agent"}
                      \/ e.parts \cap {"sortKey", "nameKeys", "encodingLevel"} # {}
     \/ p = "madsrdf" /\ e.form \in {"Agent", "SubjectHub"}}

Uses(e) == UNION {LeafUses(x) : x \in Inside(e)}

IllFormed(e, root) == (\E x \in Inside(e) : "raw" \in x.parts) \/ ~ Uses(e) \subseteq root

HasInstance == [form |-> "Other", parts |-> {}, texts |-> Plain, kids |-> << >>]

WrittenItems(os) == IF os = Null THEN Null ELSE [i \in DOMAIN os |-> Written(os[i])]

\* propertiesToStrem; bf:hasInstance is added to the Work.
WrittenDoc(b) ==
  LET work == WrittenItems(b.work)
      instance == WrittenItems(b.instance)
  IN  [root       |-> b.root,
       scope      |-> b.root,
       work       |-> IF b.instance = Null THEN work ELSE Append(work, HasInstance),
       instance   |-> instance,
       wellFormed |-> /\ \A i \in DOMAIN work : ~ IllFormed(work[i], b.root)
                      /\ instance = Null \/ \A i \in DOMAIN instance : ~ IllFormed(instance[i], b.root)]

\* It needs a Work, and a node for every item.
NoNode(os) == os # Null /\ \E i \in DOMAIN os : Written(os[i]) = Null

Writable(b) == b.work # Null /\ ~ NoNode(b.work) /\ ~ NoNode(b.instance)

\* Series.toBibFrameNode marks the title that it writes, in the object itself; an
\* Instance is come to only when the Work has been written.
Marked(o) ==
  IF o.form = "SeriesHub" /\ o.kids # << >> /\ First(o.kids, {"Contribution"}) = << >>
    THEN [o EXCEPT !.parts = @ \cup {"seriesMark"}] ELSE o

MarkedItems(os) == IF os = Null THEN Null ELSE [i \in DOMAIN os |-> Marked(os[i])]

AfterWriting(b) ==
  IF b.work = Null THEN b
  ELSE [b EXCEPT !.work = MarkedItems(@), !.instance = IF NoNode(b.work) THEN @ ELSE MarkedItems(@)]

------------------------------------------------------------------------------
ParseBibframeXML ==
  /\ bib' = Parsed(doc)
  /\ last' = "parsed"
  /\ UNCHANGED <<doc, origin>>

PropertiesToStrem ==
  /\ bib' = AfterWriting(bib)
  /\ \/ /\ Writable(bib)
        /\ doc' = WrittenDoc(bib') /\ origin' = bib' /\ last' = "written"
     \/ /\ ~ Writable(bib)
        /\ last' = "throws" /\ UNCHANGED <<doc, origin>>

Without(os, i) == SubSeq(os, 1, i-1) \o SubSeq(os, i+1, Len(os))

\* The program takes an item out of one of the lists.
RemoveItem ==
  /\ \E p \in {"work", "instance"} :
       /\ bib[p] # Null
       /\ \E i \in DOMAIN bib[p] : bib' = [bib EXCEPT ![p] = Without(@, i)]
  /\ last' = "edited"
  /\ UNCHANGED <<doc, origin>>

Next == ParseBibframeXML \/ PropertiesToStrem \/ RemoveItem

Spec == Init /\ [][Next]_vars

------------------------------------------------------------------------------
\* Properties.

\* The shape of the state.
TypeOK ==
  /\ doc \in DocType /\ bib.root \subseteq Prefixes
  /\ \A p \in {"work", "instance"} :
       /\ bib[p] \in Lists
       /\ bib[p] # Null => \A i \in DOMAIN bib[p] : bib[p][i].form \in DOMAIN Needs
  /\ last \in {"none", "parsed", "edited", "written", "throws"}
  /\ last = "written" => doc.work # Null /\ origin = bib

\* MarcUtil.java:1235-1271.  A list of items is never half full: it has an item of
\* the same class for every known element, in order, or is missing altogether;
\* and an Instance is never there without the Work of the same document.
AllOrNothing ==
  last = "parsed" =>
    /\ \A p \in {"work", "instance"} : bib[p] # Null =>
         /\ doc[p] # Null
         /\ [i \in DOMAIN bib[p] |-> bib[p][i].form] = [i \in DOMAIN Known(doc[p]) |-> Known(doc[p])[i].form]
    /\ bib.instance # Null /\ doc.work # Null => bib.work # Null

\* The items that survive being written and read again:
\*   - their texts are plain, no primary name differs from the match key;
\*   - no language, no topic, no agent without keys, no title with keys;
\*   - a series has no title but at most a contribution;
\*   - an encoding level and description conventions come together;
\*   - all the prefixes that come up are declared at the root.
LastingLeaf(e) == e.texts = Plain /\ e.parts \cap {"otherPrimary", "titleKeys", "seriesMark"} = {}

LastingItem(o) ==
  /\ \A x \in Inside(o) : LastingLeaf(x)
  /\ o.form \notin {"Language", "Topic"}
  /\ o.form = "Agent" => "keys" \in o.parts
  /\ o.form = "SeriesHub" => Len(o.kids) <= 1 /\ \A i \in DOMAIN o.kids : o.kids[i].form = "Contribution"
  /\ o.form = "AdminMetadata" => ("encodingLevel" \in o.parts <=> "conventions" \in o.parts)

Lasting(o, root) == LastingItem(o) /\ Asks(o) \cup Uses(o) \subseteq root

AllLasting(os, root) == os = Null \/ \A i \in DOMAIN os : Lasting(os[i], root)

\* What has been written is read back as the same objects exactly when all of its
\* items are lasting ones.
ComesBack ==
  (last = "parsed" /\ origin # Null) =>
    (bib = origin <=> AllLasting(origin.work, origin.root) /\ AllLasting(origin.instance, origin.root))

\* What has come back once comes back always, unless there are texts left that change
\* on every trip: all else that is lost is lost on the first way from objects to XML
\* and back.
AtRest(os) == os = Null \/ \A i \in DOMAIN os : \A x \in Inside(os[i]) : x.texts = Plain

StableAfterOneTrip ==
  (last = "parsed" /\ origin # Null /\ bib.work # Null /\ AtRest(bib.work) /\ AtRest(bib.instance)) =>
    Parsed(WrittenDoc(bib)) = bib

\* README.md:6, "converts between BIBFRAME XML and BIBFRAME": objects that were read
\* and written are the same when they are read again.
BothWays == (last = "parsed" /\ origin # Null) => bib = origin
==============================================================================
