---------------------------- MODULE MCRedaction ----------------------------
(* Policies that chain rules, select nodes, lack a key, deny fields or ask a detector, over
   payloads that are JSON, prose or absent; names need escapes, a mail address may have some. *)
EXTENDS Redaction

MCFields == <<"content", "raw">>
In(node, quoted, word) == [node |-> node, quoted |-> quoted, form |-> "plain", atom |-> <<word>>]
Json(parts) == [json |-> TRUE, parts |-> parts]
Prose(parts) == [json |-> FALSE, parts |-> parts]
Ep(content, raw) == [f \in {"content", "raw"} |-> IF f = "content" THEN content ELSE raw]

MCWords == {"mail", "card", "name", "tok", "redacted", "detector", "escaped", "encoded",
            "r1", "r2", "r3", "r4", "r5"}
MCSpecial == {<<"name">>}

Mail == In("id", TRUE, "mail")
Card == In("id", FALSE, "card")
Name == In("note", TRUE, "name")
MCSamples == {
    Ep(Json(<<Mail, Name, In("id", TRUE, "card")>>), Prose(<<In("", FALSE, "name"), In("", FALSE, "mail")>>)),
    Ep(Json(<<Card, Name>>), Json(<<Mail>>)),
    Ep(Prose(<<In("", FALSE, "card")>>), Nothing),
    Ep(Json(<<[node |-> "id", quoted |-> TRUE, form |-> "plain", atom |-> <<>>], Mail>>),
       Json(<<In("note", TRUE, "card")>>)),
    Ep(Json(<<[Mail EXCEPT !.form = "escaped"], Name>>), Json(<<In("id", TRUE, "name"), Name>>)),
    Ep(Json(<<In("id", TRUE, "name"), Name>>), Nothing)}

Regex(id, action, re, fields) ==
    [id |-> id, action |-> action, re |-> re, where |-> "any", path |-> "", fields |-> fields]
Path(id, action, path, re) ==
    [id |-> id, action |-> action, re |-> re, where |-> "any", path |-> path, fields |-> {}]
MailRule == Regex("r1", "tokenize", {<<"mail">>, <<"tok", "card">>}, {})
CardRule == Regex("r2", "tokenize", {<<"card">>, <<"tok", "mail">>}, {})
NameRule == Regex("r3", "drop", {<<"name">>}, {"raw"})
LetterRule == Regex("r2", "tokenize", {<<"card">>, <<"name">>, <<"encoded", "name">>, <<"tok", "card">>}, {})
WholeRule == [Regex("r3", "drop", {<<"mail">>, <<"card">>}, {}) EXCEPT !.where = "alone"]
InRule == [MailRule EXCEPT !.where = "within"]
IdRule == Path("r4", "tokenize", "id", {})
NoteRule == Path("r5", "drop", "note", {<<"name">>})

Pol(rules, key, detector) ==
    [metadataOnly |-> FALSE, deny |-> {}, denyDefault |-> FALSE, allow |-> {},
     rules |-> rules, key |-> key, detector |-> detector]
MCPolicies == {
    Pol(<<MailRule, CardRule>>, TRUE, "none"),
    Pol(<<CardRule, MailRule, NameRule>>, TRUE, "none"),
    Pol(<<MailRule, NoteRule>>, TRUE, "none"),
    Pol(<<NoteRule, IdRule>>, TRUE, "none"),
    Pol(<<NameRule, IdRule>>, FALSE, "none"),
    Pol(<<MailRule, NoteRule, LetterRule>>, TRUE, "none"),
    Pol(<<InRule, CardRule>>, TRUE, "none"),
    Pol(<<LetterRule, WholeRule>>, TRUE, "none"),
    Pol(<<NameRule>>, TRUE, "drop"),
    [Pol(<<MailRule>>, TRUE, "tokenize") EXCEPT !.deny = {"raw"}],
    Pol(<<>>, FALSE, "tokenize"),
    [Pol(<<CardRule>>, TRUE, "none") EXCEPT !.deny = {"raw"}],
    [Pol(<<NameRule, CardRule>>, TRUE, "none") EXCEPT !.denyDefault = TRUE, !.allow = {"content"}],
    [Pol(<<MailRule>>, TRUE, "drop") EXCEPT !.metadataOnly = TRUE]}
\* Most sources have the global policy; some global ones differ from the source's.
MCConfigured ==
    {<<p, p>> : p \in MCPolicies}
    \cup MCPolicies \X {Pol(<<MailRule, CardRule>>, TRUE, "none"), Pol(<<NameRule, IdRule>>, FALSE, "none")}
=============================================================================
