----------------------------- MODULE MCCommands -----------------------------
\* Three documents, two of whose paths give one id; the corpora the queries are
\* asked about, and the few the commands are run on.
EXTENDS Commands

Doc(front, id, vis, declared, body, hits, related, names) ==
  [front |-> front, id |-> id, vis |-> vis, declared |-> declared, body |-> body,
   hits |-> hits, related |-> related, names |-> names]

PathsModel == <<"docs/ATLAS.md", "docs/a-b.md", "docs/a/b.md">>
SlugModel == [p \in Path |-> IF p = "docs/ATLAS.md" THEN "DOC-ATLAS" ELSE "DOC-A-B"]
RequiredModel == <<"X">>
OptionalModel == <<"Y", "unknown">>
IncludeModel == <<"./docs/a-b.md", "X">>
StrippedModel == [ref \in {"X", "Y", "unknown", "DOC-ATLAS", "./docs/a-b.md"} |->
                    IF ref = "./docs/a-b.md" THEN "docs/a-b.md" ELSE ref]
PackOptionalModel == <<"DOC-ATLAS">>
LegacyModel == [p \in Path |-> Internal]

TextsModel ==
  { None, Broken,
    Doc(FALSE, None, None, 0, 1, 0, {}, {}),
    Doc(FALSE, None, None, 0, 2, 1, {}, {"docs/a-b.md"}),
    Doc(TRUE, None, Public, 0, 2, 2, {"DOC-ATLAS", "X"}, {}),
    Doc(TRUE, "X", None, 1, 3, 1, {"DOC-A-B"}, {}),
    Doc(TRUE, "X", Private, 3, 1, 0, {"X"}, {"docs/a/b.md"}),
    Doc(TRUE, "Y", Public, 0, 1, 2, {"X", "gone"}, {}),
    Doc(TRUE, "docs/ATLAS.md", Public, 0, 1, 1, {"Y"}, {}) }

EditsModel == {None, Broken, Doc(TRUE, "X", Private, 3, 1, 0, {"X"}, {"docs/a/b.md"})}

WorkedModel ==
  { [p \in Path |-> CASE p = "docs/ATLAS.md" -> Doc(FALSE, None, None, 0, 1, 0, {}, {})
                      [] p = "docs/a-b.md" -> Doc(TRUE, "Y", Public, 0, 1, 2, {"X", "gone"}, {})
                      [] OTHER -> Doc(TRUE, "X", Private, 3, 1, 0, {"X"}, {"docs/a/b.md"})] }
CorporaModel == [Path -> TextsModel]

ProcSymmetry == Permutations(Procs)

BudgetsModel == {[target |-> 2, max |-> 3], [target |-> 5, max |-> 8], [target |-> 20, max |-> 32]}
=============================================================================
