----------------------------- MODULE Redaction -----------------------------
(***************************************************************************)
(* What happens to the payloads of one assembled episode: the redactor     *)
(* (collector/redact), its entity detector, the extraction of entity keys  *)
(* that follows it (collector/extract), the preview and the dry run an     *)
(* operator makes with a sample (cc redact --test, cc validate -sample),   *)
(* and the transformation of the keys of outcomes.                         *)
(*                                                                         *)
(* A text is a sequence of parts, each an atom of content in a node of the *)
(* JSON document the text may be.  An atom is a sequence of strings: a     *)
(* plain word <<w>>, the token of x is <<"tok">> \o x, the mark of a rule  *)
(* or of the detector <<"redacted", id>>.  A document may be written with  *)
(* escapes a decoder undoes and an encoder does not put back: the form of  *)
(* a part says how its atom is written, Written what the text then reads.  *)
(* A regular expression is the set of writings it matches, and whether it  *)
(* needs text around them ("within") or none ("alone", an anchored one); a *)
(* pattern for fields is the set of fields it covers.                      *)
(***************************************************************************)
EXTENDS Integers, Sequences, FiniteSets, SequencesExt, FiniteSetsExt

CONSTANTS
    Fields,      \* the fields of an episode, in the order of apply
    Content,     \* those the extractor reads: inline contents of tool steps
    KeyNode,     \* the node its expression selects
    Policies,    \* [metadataOnly, deny, denyDefault, allow, rules, key, detector]
    Configured,  \* pairs of them: the policy of a source, and the global one
    Samples,     \* episodes: for each field its text
    Words,       \* the strings atoms are made of
    Special,     \* the atoms json.Marshal writes with escapes
    Reach        \* bound: the detector answers with ranges over 0 .. Reach

Atoms == Seq(Words)
(* As it is, with escapes of the producer's, or with those of json.Marshal. *)
Forms == {"plain", "escaped", "encoded"}
Parts == [node : STRING, quoted : BOOLEAN, form : Forms, atom : Atoms]
Texts == [json : BOOLEAN, parts : Seq(Parts)]

Rules == [id : Words, action : {"tokenize", "drop"}, re : SUBSET Atoms, where : {"any", "alone", "within"},
          path : STRING, fields : SUBSET STRING]

(* Each field is visited once.  An expression that matches the empty text would match between
   any two characters: it does not cut a text into atoms.  Tokens and marks need no escape. *)
ASSUME RedactionAssumption ==
    /\ {"tok", "redacted", "detector", "escaped", "encoded"} \subseteq Words
    /\ Special \subseteq {<<w>> : w \in Words}
    /\ Fields \in Seq(STRING)
    /\ \A i, j \in DOMAIN Fields : Fields[i] = Fields[j] => i = j
    /\ Content \subseteq Range(Fields)
    /\ \A p \in Policies : /\ p.detector \in {"none", "tokenize", "drop"} /\ p.key \in BOOLEAN
                           /\ p.rules \in Seq(Rules)
                           /\ \A i \in DOMAIN p.rules : <<>> \notin p.rules[i].re
    /\ Configured \subseteq Policies \X Policies
    /\ \A s \in Samples : s \in [Range(Fields) -> Texts]
    /\ Reach \in Nat

VARIABLES
    policy,      \* the compiled policy of the episode's source
    global,      \* the one of the configuration, which outcomes and commands go through
    given,       \* history: the episode as it was assembled
    body,        \* its texts, and those of the copy in the process of an operator's command
    pass,        \* the pass of the redactor that runs: [mode, at, entries]
    previewed,   \* history: <<>>, or what the command printed
    reported,    \* history: <<>>, or the manifest of the live pass
    detected,    \* history: <<>>, or what the detector did to the last text of the live pass
    phase,       \* "assembled", "redacted", "kept" or "quarantined"
    keys,        \* Episode.EntityKeys
    posted       \* outcomes stored: the raw key and the one in the lake

vars == <<policy, global, given, body, pass, previewed, reported, detected, phase, keys, posted>>

Nothing == [json |-> FALSE, parts |-> <<>>]
NoTexts == [f \in Range(Fields) |-> Nothing]
Idle == [mode |-> "none", at |-> 0, entries |-> {}]

-----------------------------------------------------------------------------
(* Rules: [id, action, re, where, path, fields]; re = {} is no regex, path = "" no path. *)

Written(p) == IF p.form = "plain" THEN p.atom ELSE <<p.form>> \o p.atom

Alone(text) == Len(text.parts) = 1 /\ ~text.parts[1].quoted

(* In a text, and in a value by itself: a decoded node, or a key. *)
Finds(rule, text, p) ==
    Written(p) \in rule.re /\ rule.where # (IF Alone(text) THEN "within" ELSE "alone")
FindsAlone(rule, atom) == atom \in rule.re /\ rule.where # "within"

Covers(patterns, f) == f \in patterns

Replacement(rule, atom) ==
    IF rule.action = "tokenize" THEN <<"tok">> \o atom ELSE <<"redacted", rule.id>>

(* applyAction, redactWhole: tokenize needs a key. *)
Refuses(pol, rule) == rule.action = "tokenize" /\ ~pol.key

Failed == [ok |-> FALSE, text |-> Nothing, entries |-> {}]

Entry(id, f, n) == [rule |-> id, field |-> f, matches |-> n]

Changed(pol, acc, rule, f, n, text) ==
    IF n = 0 THEN acc
    ELSE IF Refuses(pol, rule) THEN Failed
    ELSE [acc EXCEPT !.text = text, !.entries = @ \cup {Entry(rule.id, f, n)}]

(* A regex rewrites the string as it is written, escapes and all.  A number that becomes a
   token is no longer JSON, and neither is a text that lost the syntax around a match. *)
RegexRule(pol, acc, rule, f) ==
    LET parts == acc.text.parts
        hits == {i \in DOMAIN parts : Finds(rule, acc.text, parts[i])}
    IN Changed(pol, acc, rule, f, Cardinality(hits),
          [json |-> acc.text.json /\ \A i \in hits : parts[i].quoted /\ rule.where # "within",
           parts |-> [i \in DOMAIN parts |->
               IF i \in hits
               THEN [parts[i] EXCEPT !.atom = Replacement(rule, Written(parts[i])), !.form = "plain"]
               ELSE parts[i]]])

(* What json.Marshal makes of a part of the decoded document. *)
Encoded(p) == [p EXCEPT !.form = IF p.atom \in Special THEN "encoded" ELSE "plain"]

(* applyPathRule: Path.Set writes to every node of the path, so the last replacement stays,
   and the whole document is encoded again, the nodes the rule left alone as well. *)
PathRule(pol, acc, rule, f) ==
    LET parts == acc.text.parts
        found == {i \in DOMAIN parts : acc.text.json /\ parts[i].node = rule.path}
        hits == {i \in found : parts[i].atom # <<>> /\ (rule.re = {} \/ FindsAlone(rule, parts[i].atom))}
        mark == Replacement(rule, parts[Max(hits)].atom)
    IN IF hits = {} THEN acc
       ELSE Changed(pol, acc, rule, f, Cardinality(hits),
              [acc.text EXCEPT !.parts = [i \in DOMAIN parts |->
                 IF i \in found THEN [parts[i] EXCEPT !.atom = mark, !.quoted = TRUE, !.form = "plain"]
                 ELSE Encoded(parts[i])]])

RunRule(pol, acc, rule, f) ==
    IF ~acc.ok \/ (rule.fields # {} /\ ~Covers(rule.fields, f)) THEN acc
    ELSE IF rule.path # "" THEN PathRule(pol, acc, rule, f) ELSE RegexRule(pol, acc, rule, f)

\* fault: one rule for each field
RunFirstRule(pol, f, text) ==
    LET start == [ok |-> TRUE, text |-> text, entries |-> {}]
    IN FoldLeft(LAMBDA acc, rule : IF acc.entries # {} THEN acc ELSE RunRule(pol, acc, rule, f),
                start, pol.rules)

RunRules(pol, f, text) ==
    LET start == [ok |-> TRUE, text |-> text, entries |-> {}]
    IN FoldLeft(LAMBDA acc, rule : RunRule(pol, acc, rule, f), start, pol.rules)

-----------------------------------------------------------------------------
(* The detector: an answer is [fails, found], a finding [from, to], offsets the code takes as
   they are for positions in the text. *)

Findings == {r \in [from : 0 .. Reach, to : 0 .. Reach] : r.from <= r.to}
NoAnswer == [fails |-> TRUE, found |-> {}]
Answers ==
    {NoAnswer, [fails |-> FALSE, found |-> {}]}
    \cup {[fails |-> FALSE, found |-> {r, s}] : r, s \in Findings}

(* Detect keeps the ranges that lie in the text; the others are dropped, without an error. *)
Valid(found, text) == {r \in found : r.from < r.to /\ r.to <= Len(text.parts)}

(* Merge overlaps, in the order of their starts. *)
Merged(found) ==
    FoldLeft(LAMBDA m, r : IF m # <<>> /\ r.from < Last(m).to
                           THEN [m EXCEPT ![Len(m)].to = Max({@, r.to})] ELSE Append(m, r),
             <<>>, SetToSortSeq(found, LAMBDA r, s : r.from < s.from \/ (r.from = s.from /\ r.to < s.to)))

DetectorMark(pol, atoms) ==
    IF pol.detector = "tokenize" THEN <<"tok">> \o FlattenSeq(atoms) ELSE <<"redacted", "detector">>

Substitute(pol, parts, r) ==
    LET cut == SubSeq(parts, r.from + 1, r.to)
        atoms == [i \in DOMAIN cut |-> Written(cut[i])]
    IN SubSeq(parts, 1, r.from) \o <<[cut[1] EXCEPT !.atom = DetectorMark(pol, atoms), !.form = "plain"]>>
       \o SubSeq(parts, r.to + 1, Len(parts))

(* Replace from the end, so that earlier offsets stay valid. *)
ReplaceFromEnd(pol, parts, merged) ==
    FoldLeft(LAMBDA acc, r : Substitute(pol, acc, r), parts, Reverse(merged))

ApplyDetector(pol, acc, f, answer) ==
    LET merged == Merged(Valid(answer.found, acc.text))
        parts == acc.text.parts
    IN IF answer.fails THEN Failed
       ELSE IF merged = <<>> THEN acc
       ELSE IF pol.detector = "tokenize" /\ ~pol.key THEN Failed
       ELSE [acc EXCEPT
               !.text = [json |-> acc.text.json /\ \A i \in DOMAIN merged :
                                     merged[i].to = merged[i].from + 1 /\ parts[merged[i].to].quoted,
                         parts |-> ReplaceFromEnd(pol, parts, merged)],
               !.entries = @ \cup {Entry("detector", f, Len(merged))}]

Asked(pol, acc) == acc.ok /\ pol.detector # "none" /\ acc.text.parts # <<>>

-----------------------------------------------------------------------------
(* applyField and apply *)

Denied(pol, f) ==
    \/ pol.metadataOnly
    \/ Covers(pol.deny, f)
    \/ pol.denyDefault /\ ~Covers(pol.allow, f)

ApplyField(pol, f, text, answer) ==
    LET ruled == RunRules(pol, f, text)
    IN IF Denied(pol, f) THEN [ok |-> TRUE, text |-> Nothing, entries |-> {Entry("deny", f, 1)}]
       ELSE IF Asked(pol, ruled) THEN ApplyDetector(pol, ruled, f, answer) ELSE ruled

\* fault: the copy shares its texts with the episode
SharedTarget(mode) == "episode"

(* cloneAssembled, and the episode a dry run builds from its sample. *)
Target(mode) == IF mode \in {"preview", "dry run"} THEN "copy" ELSE "episode"

(* A source may have a redactor of its own (redactorFor).  The one of a command is global: that
   of the configuration, or for a dry run that of its first source. *)
PolicyFor(mode) == IF mode \in {"preview", "dry run"} THEN global ELSE policy

Begin(mode) ==
    /\ phase = "assembled" /\ pass = Idle
    /\ pass' = [mode |-> mode, at |-> 1, entries |-> {}]
    /\ UNCHANGED <<policy, global, given, previewed, reported, detected, phase, keys, posted>>

(* onEpisode, with the episode itself. *)
Process == Begin("live") /\ UNCHANGED body

(* One command, on a sample that has the same texts. *)
OnSample(mode) ==
    /\ previewed = <<>>
    /\ Begin(mode)
    /\ body' = [body EXCEPT !.copy = given]

Preview == OnSample("preview")
DryRun == OnSample("dry run")

(* Extractor.Process: a number and a string that read alike are one key. *)
KeysIn(text) ==
    {p.atom : p \in {p \in Range(text.parts) : text.json /\ p.node = KeyNode /\ p.atom # <<>>}}

ExtractedKeys(texts) == UNION {KeysIn(texts[f]) : f \in Content}

(* A dry run goes on with the extractor, unless the redactor failed. *)
DryRunKeys(ok) ==
    IF pass.mode = "dry run" /\ ok THEN <<ExtractedKeys(body[Target(pass.mode)])>> ELSE <<>>

(* The pass is over: Preview returns its entries, Process reports them in a manifest. *)
Return(ok) ==
    /\ pass' = Idle /\ detected' = <<>>
    /\ IF pass.mode # "live"
       THEN /\ previewed' = <<[ok |-> ok, entries |-> IF ok THEN pass.entries ELSE {},
                               keys |-> DryRunKeys(ok)]>>
            /\ body' = [body EXCEPT !.copy = NoTexts]
            /\ UNCHANGED <<reported, phase>>
       ELSE /\ reported' = <<[ok |-> ok, entries |-> IF ok THEN pass.entries ELSE {}]>>
            /\ phase' = IF ok THEN "redacted" ELSE "quarantined"
            /\ UNCHANGED <<previewed, body>>

(* What the detector may answer for the field at hand, if it is asked. *)
Replies ==
    LET pol == PolicyFor(pass.mode)
    IN IF /\ pass.at \in DOMAIN Fields /\ ~Denied(pol, Fields[pass.at])
          /\ Asked(pol, RunRules(pol, Fields[pass.at], body[Target(pass.mode)][Fields[pass.at]]))
       THEN Answers ELSE {NoAnswer}

SkipField ==
    /\ pass.at \in DOMAIN Fields /\ body[Target(pass.mode)][Fields[pass.at]] = Nothing
    /\ pass' = [pass EXCEPT !.at = @ + 1]
    /\ UNCHANGED <<policy, global, given, body, previewed, reported, detected, phase, keys, posted>>

(* One field of the pass; what an earlier one became stays when this one fails. *)
NextField(answer) ==
    LET target == Target(pass.mode)
        pol == PolicyFor(pass.mode)
        f == Fields[pass.at]
        text == body[target][f]
        ruled == RunRules(pol, f, text)
        out == ApplyField(pol, f, text, answer)
    IN /\ pass.at \in DOMAIN Fields /\ text # Nothing
       /\ IF out.ok
          THEN /\ pass' = [pass EXCEPT !.at = @ + 1, !.entries = @ \cup out.entries]
               /\ body' = [body EXCEPT ![target][f] = out.text]
               /\ detected' = IF pass.mode = "live" /\ Asked(pol, ruled) /\ ~Denied(pol, f)
                              THEN <<[before |-> ruled.text, found |-> answer.found, after |-> out.text]>>
                              ELSE <<>>
               /\ UNCHANGED <<previewed, reported, phase>>
          ELSE Return(FALSE)
       /\ UNCHANGED <<policy, global, given, keys, posted>>

End ==
    /\ pass.at = Len(Fields) + 1
    /\ Return(TRUE)
    /\ UNCHANGED <<policy, global, given, keys, posted>>

-----------------------------------------------------------------------------
(* What follows the redactor: the extractor. *)
Extract ==
    /\ phase = "redacted"
    /\ phase' = "kept"
    /\ keys' = ExtractedKeys(body.episode)
    /\ UNCHANGED <<policy, global, given, body, pass, previewed, reported, detected, posted>>

(* TransformKey: the regex rules, whatever their fields, on the key by itself. *)
KeyRule(pol, acc, rule) ==
    IF ~acc.ok \/ rule.path # "" \/ ~FindsAlone(rule, acc.atom) THEN acc
    ELSE IF Refuses(pol, rule) THEN [acc EXCEPT !.ok = FALSE]
    ELSE [acc EXCEPT !.atom = Replacement(rule, @)]

\* fault: the first rule that matches has the last word
TransformKeyOnce(pol, atom) ==
    FoldLeft(LAMBDA acc, rule : IF acc.atom # atom THEN acc ELSE KeyRule(pol, acc, rule),
             [ok |-> TRUE, atom |-> atom], pol.rules)

TransformKey(pol, atom) ==
    FoldLeft(LAMBDA acc, rule : KeyRule(pol, acc, rule), [ok |-> TRUE, atom |-> atom], pol.rules)

(* An outcome with a key of this episode is posted; IngestOutcomes rejects it, or stores it.
   It shares nothing with a pass, so it is enough to post between passes. *)
Post(atom) ==
    LET key == TransformKey(global, atom)
    IN /\ key.ok /\ pass = Idle
       /\ posted' = posted \cup {[raw |-> atom, key |-> key.atom]}
       /\ UNCHANGED <<policy, global, given, body, pass, previewed, reported, detected, phase, keys>>

RawKeys == ExtractedKeys(given)

Init ==
    /\ \E both \in Configured : policy = both[1] /\ global = both[2]
    /\ given \in Samples
    /\ body = [episode |-> given, copy |-> NoTexts]
    /\ pass = Idle /\ previewed = <<>> /\ reported = <<>> /\ detected = <<>>
    /\ phase = "assembled" /\ keys = {} /\ posted = {}

Next ==
    \/ Process \/ Preview \/ DryRun
    \/ SkipField
    \/ \E answer \in Replies : NextField(answer)
    \/ End
    \/ Extract
    \/ \E atom \in RawKeys : Post(atom)

Spec == Init /\ [][Next]_vars

-----------------------------------------------------------------------------
(* Properties. *)

Plain(atom) == Len(atom) = 1

Applies(rule, f) == rule.fields = {} \/ Covers(rule.fields, f)

(* Encoding the document once more, for a path rule behind the i-th, changed how p is written. *)
WrittenAnew(f, i, p) ==
    /\ \E j \in DOMAIN policy.rules : i < j /\ policy.rules[j].path # "" /\ Applies(policy.rules[j], f)
    /\ \E q \in Range(given[f].parts) : q.atom = p.atom /\ q.form # p.form

(* No word is left that a rule for the field finds; path rules need a text that is JSON. *)
RulesApplied ==
    \A f \in Range(Fields), i \in DOMAIN policy.rules :
        LET rule == policy.rules[i]
            text == body.episode[f]
        IN Applies(rule, f) =>
             \A p \in Range(text.parts) : Plain(p.atom) =>
                IF rule.path = "" THEN Finds(rule, text, p) => WrittenAnew(f, i, p)
                ELSE text.json /\ p.node = rule.path => rule.re # {} /\ ~FindsAlone(rule, p.atom)

Within(found, i) == \E r \in found : r.from < i /\ i <= r.to

(* What lies in a range that Detect kept is gone, and nothing else. *)
DetectionApplied ==
    detected = <<>> \/ (\E p \in Range(detected[1].before.parts) : p.atom = DetectorMark(policy, <<>>)) \/
        LET d == detected[1]
            left == {i \in DOMAIN d.before.parts : ~Within(Valid(d.found, d.before), i)}
        IN SelectSeq(d.after.parts, LAMBDA p : p \in Range(d.before.parts))
             = [i \in 1 .. Cardinality(left) |-> d.before.parts[SetToSortSeq(left, <)[i]]]

\* Every exit path of Process either fully redacts or returns an error (redact.go, Process):
\* once the live pass has returned without an error, no rule for a field finds a word in it,
\* whatever the rules before it and after it made of the text.  The one exception is of the
\* code: a path rule encodes the whole document again, and the rules before it are not run
\* on what it wrote, so a word whose escapes it changed may be one they would now find.  The
\* ranges of the detector that lie in the text, overlapping or adjacent, are replaced exactly
\* at the offsets it gave; a range that ends behind the text is dropped and not an error.
FullyRedacted ==
    /\ phase \in {"redacted", "kept"} => RulesApplied
    /\ DetectionApplied

\* A preview or a dry run changes nothing and tells the truth (redact.go, Preview; clone.go;
\* dryrun.go): the live pass over an episode with these texts reports the same entries, or
\* is quarantined as well, and the keys a dry run predicts are the ones extracted.  The
\* answers of a detector may differ between the two, and a command tells nothing of a source
\* with another policy than the one it takes.
PreviewIsTrue ==
    policy.detector = "none" /\ global = policy /\ previewed # <<>> /\ reported # <<>> =>
        /\ previewed[1].ok = reported[1].ok
        /\ previewed[1].entries = reported[1].entries
        /\ phase = "kept" /\ previewed[1].keys # <<>> => previewed[1].keys[1] = keys

(* Only rules for every field that rewrite strings touch the key, and the text stays JSON. *)
OnlyRegex(f) ==
    /\ policy.detector = "none" /\ ~Denied(policy, f) /\ body.episode[f].json
    /\ \A i \in DOMAIN policy.rules :
          /\ policy.rules[i].fields = {}
          /\ IF policy.rules[i].path = "" THEN policy.rules[i].where # "alone"
             ELSE policy.rules[i].path # KeyNode

(* The keys are written in the document as they are, and stay so. *)
KeysUnescaped(f) ==
    \A p \in Range(given[f].parts) : p.node = KeyNode =>
        /\ p.form = "plain"
        /\ p.atom \in Special => \A i \in DOMAIN policy.rules : policy.rules[i].path = ""

\* An outcome's key goes through the same rules as the payloads, which is the only way the
\* two sides meet (redact.go, TransformKey; extract.go): the key stored for an outcome is
\* one of the keys extracted from the redacted episode it was in, through any number of
\* rules that rewrite each other's tokens, and none is extracted that no outcome can have.
\* The payload is matched as it is written and the key by itself: the two meet for a key
\* that needs no escapes, rules that are not anchored to the ends of the text, and a source
\* without a policy of its own (outcomes.go takes the global one).
KeysMeet ==
    phase = "kept" /\ global = policy => \A f \in Content : OnlyRegex(f) /\ KeysUnescaped(f) =>
        /\ \A o \in posted : o.raw \in KeysIn(given[f]) => o.key \in keys
        /\ \A k \in KeysIn(body.episode[f]) : \E raw \in KeysIn(given[f]) : TransformKey(policy, raw).atom = k
=============================================================================
