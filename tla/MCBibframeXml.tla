---------------------------- MODULE MCBibframeXml ----------------------------
(***************************************************************************)
(* BibframeXml on documents with a Work of up to two elements and an       *)
(* Instance of up to one: all pairs of elements with plain texts, and each *)
(* element alone with texts that change and with any of the namespaces.    *)
(***************************************************************************)
EXTENDS BibframeXml, FiniteSetsExt

Element(form, parts, kids) == [form |-> form, parts |-> parts, texts |-> Plain, kids |-> kids]

\* Of each form the elements that have all they need, with any of the parts that
\* are read if they are there, and those that lack one.
Optional(form) ==
  {ps \in SUBSET (Takes[form] \ {"seriesMark"}) : "otherPrimary" \in ps => "primary" \in ps}
Complete(form, kids) == {Element(form, Needs[form] \cup ps, kids) : ps \in Optional(form)}
Lacking(form, kids)  == {Element(form, Needs[form] \ {p}, kids) : p \in Needs[form]}

\* Titles and contributions as they stand in hubs.
SomeTitle(parts) == Element("Title", {"mainTitle"} \cup parts, << >>)
SomeName         == Element("Contribution", Needs["Contribution"], << >>)
OtherName        == Element("Contribution", Needs["Contribution"] \cup {"primary", "otherPrimary"}, << >>)
NameWithoutRole  == Element("Contribution", {"agent", "keys"}, << >>)
Variant          == Element("VariantTitle", {"mainTitle"}, << >>)
KidLists ==
  {<< >>, <<SomeTitle({})>>, <<SomeTitle({"titleKeys"})>>, <<SomeName>>, <<NameWithoutRole>>,
   <<SomeName, SomeTitle({})>>, <<SomeName, Variant>>, <<OtherName, HasInstance>>, <<Variant>>,
   <<SomeTitle({"sortKey"}), NameWithoutRole, SomeTitle({})>>}

\* Hubs that are subjects have a title.
SubjectHubs == Complete("SubjectHub", <<SomeTitle({})>>)
                 \cup Complete("SubjectHub", <<NameWithoutRole, SomeTitle({"titleKeys"})>>)
                 \cup {Element("SubjectHub", {"about", "type", "labels"}, << >>)}

Various(forms) == UNION {Complete(f, << >>) \cup Lacking(f, << >>) : f \in forms}

InstanceForms == {"Issuance", "ProvisionActivity", "Statement", "Isbn", "OtherIdentifier", "Title"}

Elements ==
  Various(DOMAIN Needs \ (Hubs \cup {"AdminMetadata"}))
    \cup {Element("AdminMetadata", ps, << >>) : ps \in SUBSET {"status", "encodingLevel", "conventions"}}
    \cup {Element("AdminMetadata", {"generation"}, << >>)}
    \cup {Element(f, {"about"}, kids) : f \in Hubs \ {"SubjectHub"}, kids \in KidLists}
    \cup SubjectHubs
    \cup {Element(f, {}, << >>) : f \in Unreadable \cup Unknown}

\* Whether it has a text that is read and written.
TextParts == {"label", "labels", "value", "qualifier", "status", "part", "agent", "keys", "mainTitle",
              "code", "encodingLevel", "local", "dates", "placeValue"}

HasText(e) == e.form = "Statement" \/ e.parts \cap TextParts # {}

\* Texts of each kind, on the first trip and on the second, and of several kinds.
Once(f, n) == [Plain EXCEPT ![f] = n]
Kinds ==
  {Once(f, n) : f \in Fates, n \in 1 .. 2}
    \cup {[Once("settles", 2) EXCEPT !["breaks"] = 2], [Once("settles", 3) EXCEPT !["spoils"] = 1]}

\* Only a title can be empty, only a key can be spoiled.
Suits(t, e) ==
  /\ HasText(e)
  /\ t["empties"] # 0 => e.form \in TitleForms
  /\ t["spoils"] # 0 => "keys" \in e.parts

\* The elements with such texts, and the hubs with such texts inside.
Restless(es) ==
  UNION {{[e EXCEPT !.texts = t] : t \in {t \in Kinds : Suits(t, e)}} : e \in es}
    \cup {[e EXCEPT !.kids = [i \in DOMAIN @ |-> IF Suits(t, @[i]) THEN [@[i] EXCEPT !.texts = t] ELSE @[i]]] :
            e \in es, t \in Kinds}

Doc(root, scope, work, instance) ==
  [root |-> root, scope |-> scope, work |-> work, instance |-> instance, wellFormed |-> TRUE]

Usual(work, instance) == Doc(Prefixes, Prefixes, work, instance)

\* Any element alone, any two elements, and all of this with an Instance that has one
\* element, none, or is missing; the same with texts that change; and any element
\* with some of the namespaces declared at the root and the others below it or not
\* at all.
Singles == {<<e>> : e \in Elements}
Moving  == {<<e>> : e \in Restless(Elements)}

MCInstances == {Null, << >>} \cup {<<e>> : e \in Various(InstanceForms)}
SomeIssuance == <<Element("Issuance", {"about"}, << >>)>>

MCDocuments ==
  {Usual(w, i) : w \in {Null, << >>} \cup Singles, i \in MCInstances}
    \cup {Usual(w, i) : w \in {<<d, e>> : d, e \in Elements}, i \in {Null, SomeIssuance}}
    \cup {Usual(w, i) : w \in Moving, i \in {Null, SomeIssuance}}
    \cup {Usual(SomeIssuance, i) : i \in Moving}
    \cup {Doc(r, r \cup s, w, Null) : r \in SUBSET Prefixes, s \in SUBSET Prefixes, w \in Singles}

\* Documents with any one title in the Instance.
TitledDocuments ==
  {Usual(w, <<e>>) : w \in {<< >>, SomeIssuance}, e \in Various({"Title", "VariantTitle", "AbbreviatedTitle"})}
==============================================================================
