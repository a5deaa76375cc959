--------------------------- MODULE RedactionProofs ---------------------------
(***************************************************************************)
(* What module Redaction promises for every policy, every sample and every *)
(* number of fields and rules.                                             *)
(***************************************************************************)
EXTENDS Redaction, SequenceFacts

-----------------------------------------------------------------------------
(* A pass without a detector, field by field. *)

(* What the pass makes of the field at n, which no field before it has a part in. *)
Out(n) == ApplyField(policy, Fields[n], given[Fields[n]], NoAnswer)
Blank(n) == given[Fields[n]] = Nothing
Fine(n) == Blank(n) \/ Out(n).ok
TextOf(n) == IF Blank(n) THEN Nothing ELSE Out(n).text
EntriesOf(n) == IF Blank(n) THEN {} ELSE Out(n).entries

AllFine == \A n \in DOMAIN Fields : Fine(n)
AllEntries == UNION {EntriesOf(n) : n \in DOMAIN Fields}

(* The pass has done the fields before n, with these texts and entries. *)
Halfway(texts, n, entries) ==
    /\ n \in 1 .. Len(Fields) + 1
    /\ \A i \in DOMAIN Fields : i < n => Fine(i) /\ texts[Fields[i]] = TextOf(i)
    /\ \A i \in DOMAIN Fields : i >= n => texts[Fields[i]] = given[Fields[i]]
    /\ entries = UNION {EntriesOf(i) : i \in {j \in DOMAIN Fields : j < n}}

(* The keys a whole pass leaves. *)
AllKeys == UNION {KeysIn(TextOf(n)) : n \in {i \in DOMAIN Fields : Fields[i] \in Content}}

Honest(told) ==
    /\ told.ok = AllFine
    /\ told.entries = IF AllFine THEN AllEntries ELSE {}

BodyShape ==
    /\ DOMAIN body = {"episode", "copy"}
    /\ \A w \in {"episode", "copy"} : DOMAIN body[w] = Range(Fields)

ModeInv ==
    /\ policy \in Policies /\ given \in Samples
    /\ pass.mode \in {"none", "live", "preview", "dry run"}
    /\ pass.mode = "none" => pass = Idle
    /\ pass.mode # "none" => phase = "assembled"
    /\ phase \in {"assembled", "redacted", "kept", "quarantined"}
    /\ DOMAIN pass = {"mode", "at", "entries"}

(* The pass runs the policy of the source. *)
Same(mode) == PolicyFor(mode) = policy

PassInv ==
    /\ pass.mode # "none" /\ Same(pass.mode) => Halfway(body[Target(pass.mode)], pass.at, pass.entries)
    /\ phase = "assembled" /\ pass.mode # "live" => \A f \in Range(Fields) : body.episode[f] = given[f]

ToldInv ==
    /\ previewed # <<>> /\ global = policy =>
         /\ Honest(previewed[1])
         /\ previewed[1].keys # <<>> => previewed[1].keys[1] = AllKeys
    /\ phase = "assembled" => reported = <<>>
    /\ reported # <<>> => Honest(reported[1])
    /\ phase \in {"redacted", "kept"} =>
         AllFine /\ \A n \in DOMAIN Fields : body.episode[Fields[n]] = TextOf(n)
    /\ phase = "kept" => keys = AllKeys

PreviewInv == BodyShape /\ ModeInv /\ (policy.detector = "none" => PassInv /\ ToldInv)

-----------------------------------------------------------------------------

LEMMA FieldAt ==
    ASSUME NEW n \in DOMAIN Fields
    PROVE  /\ n \in Nat /\ n <= Len(Fields) /\ Len(Fields) \in Nat /\ 1 <= n
           /\ Fields[n] \in Range(Fields)
           /\ \A i \in DOMAIN Fields : Fields[i] = Fields[n] => i = n
BY RedactionAssumption DEF Range

LEMMA FieldsAre == Len(Fields) \in Nat /\ DOMAIN Fields = 1 .. Len(Fields)
<1>1. Fields \in Seq(STRING)
  BY RedactionAssumption
<1> QED BY <1>1

LEMMA FieldOf ==
    ASSUME NEW f \in Range(Fields)
    PROVE  \E n \in DOMAIN Fields : Fields[n] = f
BY DEF Range

(* The answer of a detector that is not there plays no part. *)
LEMMA NoDetector ==
    ASSUME policy.detector = "none", NEW f, NEW text, NEW answer
    PROVE  ApplyField(policy, f, text, answer) = ApplyField(policy, f, text, NoAnswer)
BY DEF ApplyField, Asked

LEMMA KeysOfAll ==
    ASSUME NEW texts, \A n \in DOMAIN Fields : texts[Fields[n]] = TextOf(n)
    PROVE  ExtractedKeys(texts) = AllKeys
<1>1. ASSUME NEW f \in Content
      PROVE  \E n \in {i \in DOMAIN Fields : Fields[i] \in Content} : KeysIn(texts[f]) = KeysIn(TextOf(n))
  <2>1. PICK n \in DOMAIN Fields : Fields[n] = f
    BY FieldOf, RedactionAssumption
  <2> QED BY <2>1
<1>2. ASSUME NEW n \in {i \in DOMAIN Fields : Fields[i] \in Content}
      PROVE  \E f \in Content : KeysIn(texts[f]) = KeysIn(TextOf(n))
  OBVIOUS
<1> HIDE DEF TextOf, KeysIn
<1> QED BY <1>1, <1>2 DEF ExtractedKeys, AllKeys

(* A field more. *)
LEMMA OneMoreField ==
    ASSUME NEW texts, NEW entries, NEW n \in DOMAIN Fields, Halfway(texts, n, entries), Fine(n),
           NEW next, \A i \in DOMAIN Fields : next[Fields[i]] = IF i = n THEN TextOf(n) ELSE texts[Fields[i]]
    PROVE  Halfway(next, n + 1, entries \cup EntriesOf(n))
<1>0. n \in Nat /\ Len(Fields) \in Nat /\ n \in 1 .. Len(Fields) /\ DOMAIN Fields = 1 .. Len(Fields)
  BY FieldAt, RedactionAssumption
<1>1. n + 1 \in 1 .. Len(Fields) + 1
  BY <1>0
<1>2. ASSUME NEW i \in DOMAIN Fields, i < n + 1 PROVE Fine(i) /\ next[Fields[i]] = TextOf(i)
  <2>1. CASE i = n
    BY <2>1
  <2>2. CASE i # n
    <3>1. i < n
      BY <1>0, <1>2, <2>2
    <3> QED BY <2>2, <3>1 DEF Halfway
  <2> QED BY <2>1, <2>2
<1>3. ASSUME NEW i \in DOMAIN Fields, i >= n + 1 PROVE next[Fields[i]] = given[Fields[i]]
  <2>1. i # n /\ i >= n
    BY <1>0, <1>3
  <2> QED BY <2>1 DEF Halfway
<1>4. {j \in DOMAIN Fields : j < n + 1} = {j \in DOMAIN Fields : j < n} \cup {n}
  BY <1>0
<1>5. UNION {EntriesOf(i) : i \in {j \in DOMAIN Fields : j < n + 1}}
      = (UNION {EntriesOf(i) : i \in {j \in DOMAIN Fields : j < n}}) \cup EntriesOf(n)
  <2> HIDE DEF EntriesOf
  <2> QED BY <1>4
<1> QED BY <1>1, <1>2, <1>3, <1>5 DEF Halfway

LEMMA HalfwayAt ==
    ASSUME NEW texts, NEW n \in DOMAIN Fields, NEW entries, Halfway(texts, n, entries)
    PROVE  texts[Fields[n]] = given[Fields[n]]
<1>1. n >= n
  BY FieldAt
<1> QED BY <1>1 DEF Halfway

LEMMA HalfwayStart ==
    ASSUME NEW texts, \A f \in Range(Fields) : texts[f] = given[f]
    PROVE  Halfway(texts, 1, {})
<1>1. PICK N \in Nat : N = Len(Fields) /\ DOMAIN Fields = 1 .. N
  BY FieldsAre
<1>2. 1 \in 1 .. N + 1 /\ \A i \in DOMAIN Fields : ~(i < 1)
  BY <1>1
<1>3. {j \in DOMAIN Fields : j < 1} = {}
  BY <1>2
<1>4. UNION {EntriesOf(i) : i \in {j \in DOMAIN Fields : j < 1}} = {}
  BY <1>3
<1>5. \A i \in DOMAIN Fields : texts[Fields[i]] = given[Fields[i]]
  BY FieldAt
<1> QED BY <1>1, <1>2, <1>4, <1>5 DEF Halfway

LEMMA WholePass ==
    ASSUME NEW texts, NEW entries, Halfway(texts, Len(Fields) + 1, entries)
    PROVE  AllFine /\ entries = AllEntries /\ \A n \in DOMAIN Fields : texts[Fields[n]] = TextOf(n)
<1>1. \A i \in DOMAIN Fields : i < Len(Fields) + 1
  BY RedactionAssumption
<1>2. {j \in DOMAIN Fields : j < Len(Fields) + 1} = DOMAIN Fields
  BY <1>1
<1> QED BY <1>1, <1>2 DEF Halfway, AllFine, AllEntries

-----------------------------------------------------------------------------
(* The step of a pass. *)

LEMMA InPass ==
    ASSUME ModeInv, pass.at \in Nat \ {0}
    PROVE  pass.mode # "none" /\ phase = "assembled"
<1>1. Idle.at = 0
  BY DEF Idle
<1>2. pass # Idle
  BY <1>1
<1> QED BY <1>2 DEF ModeInv

LEMMA TargetIs ==
    ASSUME NEW mode \in {"live", "preview", "dry run"}
    PROVE  Target(mode) = IF mode = "live" THEN "episode" ELSE "copy"
BY DEF Target

(* What a whole pass comes to is settled when the episode is assembled. *)
Frozen ==
    /\ \A n : Fine(n)' = Fine(n) /\ TextOf(n)' = TextOf(n) /\ EntriesOf(n)' = EntriesOf(n)
    /\ AllFine' = AllFine /\ AllEntries' = AllEntries /\ AllKeys' = AllKeys

LEMMA StaysFrozen ==
    ASSUME UNCHANGED <<policy, global, given>>
    PROVE  Frozen
<1>1. \A n : Out(n)' = Out(n) /\ Blank(n)' = Blank(n)
  BY DEF Out, Blank
<1>2. \A n : Fine(n)' = Fine(n) /\ TextOf(n)' = TextOf(n) /\ EntriesOf(n)' = EntriesOf(n)
  BY <1>1 DEF Fine, TextOf, EntriesOf
<1> QED BY <1>2 DEF Frozen, AllFine, AllEntries, AllKeys

(* What has to be shown of a step that keeps the policy and the episode. *)
LEMMA StepKeeps ==
    ASSUME UNCHANGED <<policy, global, given>>,
           BodyShape', ModeInv',
           policy.detector = "none" =>
             /\ pass'.mode # "none" /\ Same(pass'.mode) => Halfway(body'[Target(pass'.mode)], pass'.at, pass'.entries)
             /\ phase' = "assembled" /\ pass'.mode # "live" =>
                  \A f \in Range(Fields) : body'.episode[f] = given[f]
             /\ previewed' # <<>> /\ global = policy =>
                  /\ Honest(previewed'[1])
                  /\ previewed'[1].keys # <<>> => previewed'[1].keys[1] = AllKeys
             /\ phase' = "assembled" => reported' = <<>>
             /\ reported' # <<>> => Honest(reported'[1])
             /\ phase' \in {"redacted", "kept"} =>
                  AllFine /\ \A n \in DOMAIN Fields : body'.episode[Fields[n]] = TextOf(n)
             /\ phase' = "kept" => keys' = AllKeys
    PROVE  PreviewInv'
<1> SUFFICES ASSUME policy.detector = "none" PROVE PassInv' /\ ToldInv'
  BY DEF PreviewInv
<1>1. Frozen
  BY StaysFrozen
<1>2. PassInv'
  <2>1. \A i \in DOMAIN Fields : given'[Fields[i]] = given[Fields[i]]
    OBVIOUS
  <2>2. UNION {EntriesOf(i)' : i \in {j \in DOMAIN Fields : j < pass'.at}}
        = UNION {EntriesOf(i) : i \in {j \in DOMAIN Fields : j < pass'.at}}
    BY <1>1 DEF Frozen
  <2>4. Same(pass.mode)' <=> Same(pass'.mode)
    BY DEF Same, PolicyFor
  <2>3. (pass.mode # "none" /\ Same(pass.mode) => Halfway(body[Target(pass.mode)], pass.at, pass.entries))'
    BY <1>1, <2>1, <2>2, <2>4 DEF Halfway, Frozen
  <2> QED BY <2>3 DEF PassInv
<1>3. ToldInv'
  BY <1>1 DEF ToldInv, Frozen, Honest
<1> QED BY <1>2, <1>3

LEMMA BeginKeeps ==
    ASSUME PreviewInv, Process \/ Preview \/ DryRun
    PROVE  PreviewInv'
<1>1. PICK mode \in {"live", "preview", "dry run"} :
        /\ Begin(mode)
        /\ IF mode = "live" THEN body' = body ELSE body' = [body EXCEPT !.copy = given]
  BY DEF Process, Preview, DryRun, OnSample
<1>2. /\ UNCHANGED <<policy, global, given, previewed, reported, phase, keys>>
      /\ pass' = [mode |-> mode, at |-> 1, entries |-> {}]
      /\ phase = "assembled" /\ pass.mode = "none"
  BY <1>1 DEF Begin, Idle
<1>3. DOMAIN given = Range(Fields)
  BY RedactionAssumption DEF PreviewInv, ModeInv
<1>4. BodyShape' /\ body'.episode = body.episode
  BY <1>1, <1>3 DEF PreviewInv, BodyShape
<1>5. ModeInv'
  BY <1>2 DEF PreviewInv, ModeInv
<1>6. ASSUME policy.detector = "none" PROVE Halfway(body'[Target(mode)], 1, {})
  <2>0. PassInv
    BY <1>6 DEF PreviewInv
  <2>1. \A f \in Range(Fields) : body'[Target(mode)][f] = given[f]
    <3>1. CASE mode = "live"
      BY <1>1, <1>2, <2>0, <3>1, TargetIs DEF PassInv
    <3>2. CASE mode # "live"
      BY <1>1, <1>2, <3>2, TargetIs DEF PreviewInv, BodyShape
    <3> QED BY <3>1, <3>2
  <2>2. PICK texts : texts = body'[Target(mode)]
    OBVIOUS
  <2>3. Halfway(texts, 1, {})
    BY <2>1, <2>2, HalfwayStart
  <2> QED BY <2>2, <2>3
<1>7. policy.detector = "none" => PassInv /\ ToldInv
  BY DEF PreviewInv
<1> QED BY <1>2, <1>4, <1>5, <1>6, <1>7, StepKeeps DEF PassInv, ToldInv

LEMMA ReportIsHonest ==
    ASSUME NEW told, NEW ok \in BOOLEAN, NEW entries, ok = AllFine, ok => entries = AllEntries,
           told.ok = ok, told.entries = IF ok THEN entries ELSE {}
    PROVE  Honest(told)
<1>1. CASE ok = TRUE
  BY <1>1 DEF Honest
<1>2. CASE ok = FALSE
  BY <1>2 DEF Honest
<1> QED BY <1>1, <1>2

(* The pass returns, with the outcome of a whole pass. *)
LEMMA ReturnKeeps ==
    ASSUME PreviewInv, NEW ok \in BOOLEAN, Return(ok), pass.mode # "none",
           UNCHANGED <<policy, global, given, keys>>,
           policy.detector = "none" /\ Same(pass.mode) =>
             /\ ok = AllFine
             /\ ok => /\ pass.entries = AllEntries
                      /\ \A n \in DOMAIN Fields : body[Target(pass.mode)][Fields[n]] = TextOf(n)
    PROVE  PreviewInv'
<1>0. PICK mode \in {"live", "preview", "dry run"} : mode = pass.mode
  BY DEF PreviewInv, ModeInv
<1>1. pass' = Idle /\ phase = "assembled" /\ Idle.mode = "none" /\ DOMAIN Idle = {"mode", "at", "entries"}
  BY DEF PreviewInv, ModeInv, Return, Idle
<1>2. policy.detector = "none" => PassInv /\ ToldInv
  BY DEF PreviewInv
<1>3. CASE mode = "live"
  <2>1. /\ reported' = <<[ok |-> ok, entries |-> IF ok THEN pass.entries ELSE {}]>>
        /\ phase' = IF ok THEN "redacted" ELSE "quarantined"
        /\ UNCHANGED <<previewed, body>>
    BY <1>0, <1>3 DEF Return
  <2>2. BodyShape' /\ ModeInv'
    BY <1>1, <2>1 DEF PreviewInv, BodyShape, ModeInv
  <2>8. Same(pass.mode)
    BY <1>0, <1>3 DEF Same, PolicyFor
  <2>3. policy.detector = "none" => Honest(reported'[1])
    BY <2>1, <2>8, ReportIsHonest
  <2>4. Target(pass.mode) = "episode"
    BY <1>0, <1>3, TargetIs
  <2>5. policy.detector = "none" /\ phase' \in {"redacted", "kept"} =>
          AllFine /\ \A n \in DOMAIN Fields : body'.episode[Fields[n]] = TextOf(n)
    BY <2>1, <2>4, <2>8
  <2>6. policy.detector = "none" /\ previewed' # <<>> /\ global = policy =>
          /\ Honest(previewed'[1])
          /\ previewed'[1].keys # <<>> => previewed'[1].keys[1] = AllKeys
    BY <1>2, <2>1 DEF ToldInv
  <2>7. phase' \notin {"assembled", "kept"}
    BY <2>1
  <2> QED BY <1>1, <2>2, <2>3, <2>5, <2>6, <2>7, StepKeeps
<1>4. CASE mode # "live"
  <2>1. /\ previewed' = <<[ok |-> ok, entries |-> IF ok THEN pass.entries ELSE {}, keys |-> DryRunKeys(ok)]>>
        /\ body' = [body EXCEPT !.copy = NoTexts]
        /\ UNCHANGED <<reported, phase>>
    BY <1>0, <1>4 DEF Return
  <2>2. BodyShape' /\ body'.episode = body.episode
    BY <2>1 DEF PreviewInv, BodyShape, NoTexts
  <2>3. ModeInv'
    BY <1>1, <2>1 DEF PreviewInv, ModeInv
  <2>8. global = policy => Same(pass.mode)
    BY DEF Same, PolicyFor
  <2>4. policy.detector = "none" /\ global = policy => Honest(previewed'[1])
    BY <2>1, <2>8, ReportIsHonest
  <2>5. policy.detector = "none" /\ global = policy /\ DryRunKeys(ok) # <<>> => DryRunKeys(ok)[1] = AllKeys
    BY <2>8, KeysOfAll DEF DryRunKeys
  <2>6. previewed'[1].keys = DryRunKeys(ok)
    BY <2>1
  <2>7. policy.detector = "none" => /\ reported' = <<>>
                                    /\ \A f \in Range(Fields) : body'.episode[f] = given[f]
    BY <1>0, <1>1, <1>2, <1>4, <2>1, <2>2 DEF ToldInv, PassInv
  <2> QED BY <1>1, <2>1, <2>2, <2>3, <2>4, <2>5, <2>6, <2>7, StepKeeps
<1> QED BY <1>3, <1>4

(* The pass goes on behind field n. *)
LEMMA GoesOn ==
    ASSUME PreviewInv, NEW n \in DOMAIN Fields, n = pass.at, NEW text, NEW entries,
           pass' = [pass EXCEPT !.at = n + 1, !.entries = entries],
           body' = [body EXCEPT ![Target(pass.mode)] = [@ EXCEPT ![Fields[n]] = text]],
           UNCHANGED <<policy, global, given, previewed, reported, phase, keys>>,
           policy.detector = "none" /\ Same(pass.mode) =>
             Fine(n) /\ text = TextOf(n) /\ entries = pass.entries \cup EntriesOf(n)
    PROVE  PreviewInv'
<1>0. pass.mode # "none" /\ phase = "assembled"
  BY FieldAt, InPass DEF PreviewInv
<1>1. PICK mode \in {"live", "preview", "dry run"} : mode = pass.mode
  BY <1>0 DEF PreviewInv, ModeInv
<1>2. PICK w \in {"episode", "copy"} : w = Target(pass.mode) /\ (w = "episode" <=> mode = "live")
  BY <1>1, TargetIs
<1>3. /\ pass'.mode = mode /\ pass'.at = n + 1 /\ pass'.entries = entries
      /\ DOMAIN pass' = {"mode", "at", "entries"}
  BY <1>1 DEF PreviewInv, ModeInv
<1>4. /\ BodyShape' /\ body'[w] = [body[w] EXCEPT ![Fields[n]] = text]
      /\ w # "episode" => body'.episode = body.episode
  BY <1>2 DEF PreviewInv, BodyShape
<1>5. ModeInv'
  BY <1>0, <1>1, <1>3 DEF PreviewInv, ModeInv
<1>6. ASSUME policy.detector = "none", Same(pass.mode)
      PROVE  Halfway(body'[w], n + 1, entries)
  <2>3. PICK next, texts, had : next = body'[w] /\ texts = body[w] /\ had = pass.entries
    OBVIOUS
  <2>1. Halfway(texts, n, had)
    BY <1>0, <1>2, <1>6, <2>3 DEF PreviewInv, PassInv
  <2>2. \A i \in DOMAIN Fields : next[Fields[i]] = IF i = n THEN TextOf(n) ELSE texts[Fields[i]]
    BY <1>2, <1>4, <1>6, <2>3, FieldAt DEF PreviewInv, BodyShape
  <2>5. Fine(n)
    BY <1>6
  <2>4. Halfway(next, n + 1, had \cup EntriesOf(n))
    BY <2>5, <2>1, <2>2, OneMoreField
  <2> QED BY <1>6, <2>3, <2>4
<1>7. policy.detector = "none" => PassInv /\ ToldInv
  BY DEF PreviewInv
<1> QED BY <1>0, <1>1, <1>2, <1>3, <1>4, <1>5, <1>6, <1>7, StepKeeps DEF PassInv, ToldInv

LEMMA SkipKeeps ==
    ASSUME PreviewInv, SkipField
    PROVE  PreviewInv'
<1>1. PICK n \in DOMAIN Fields : n = pass.at
  BY DEF SkipField
<1>2. /\ body[Target(pass.mode)][Fields[n]] = Nothing
      /\ pass' = [pass EXCEPT !.at = n + 1]
      /\ UNCHANGED <<policy, global, given, body, previewed, reported, phase, keys>>
  BY <1>1 DEF SkipField
<1>3. pass.mode # "none" /\ phase = "assembled"
  BY <1>1, FieldAt, InPass DEF PreviewInv
<1>4. PICK mode \in {"live", "preview", "dry run"} : mode = pass.mode
  BY <1>3 DEF PreviewInv, ModeInv
<1>5. /\ pass'.mode = mode /\ pass'.at = n + 1 /\ pass'.entries = pass.entries
      /\ DOMAIN pass' = {"mode", "at", "entries"}
  BY <1>2, <1>4 DEF PreviewInv, ModeInv
<1>6. BodyShape' /\ ModeInv'
  BY <1>2, <1>3, <1>4, <1>5 DEF PreviewInv, ModeInv, BodyShape
<1>7. ASSUME policy.detector = "none", Same(pass.mode)
      PROVE  Halfway(body[Target(pass.mode)], n + 1, pass.entries)
  <2>1. PICK texts, had : texts = body[Target(pass.mode)] /\ had = pass.entries
    OBVIOUS
  <2>2. Halfway(texts, n, had)
    BY <1>1, <1>3, <1>7, <2>1 DEF PreviewInv, PassInv
  <2>3. texts[Fields[n]] = given[Fields[n]]
    BY <1>1, <2>2, HalfwayAt
  <2>4. Blank(n) /\ Fine(n) /\ TextOf(n) = Nothing /\ EntriesOf(n) = {}
    BY <1>2, <2>1, <2>3 DEF Blank, Fine, TextOf, EntriesOf
  <2>5. \A i \in DOMAIN Fields : texts[Fields[i]] = IF i = n THEN TextOf(n) ELSE texts[Fields[i]]
    BY <1>2, <2>1, <2>4
  <2>6. Halfway(texts, n + 1, had \cup EntriesOf(n))
    BY <2>2, <2>4, <2>5, OneMoreField
  <2> QED BY <2>1, <2>4, <2>6
<1>8. policy.detector = "none" => PassInv /\ ToldInv
  BY DEF PreviewInv
<1> QED BY <1>2, <1>3, <1>4, <1>5, <1>6, <1>7, <1>8, StepKeeps DEF PassInv, ToldInv

LEMMA FieldKeeps ==
    ASSUME PreviewInv, NEW answer, NextField(answer)
    PROVE  PreviewInv'
<1>1. PICK n \in DOMAIN Fields : n = pass.at
  BY DEF NextField
<1>2. PICK text, out : /\ text = body[Target(pass.mode)][Fields[n]] /\ text # Nothing
                       /\ out = ApplyField(PolicyFor(pass.mode), Fields[n], text, answer)
  BY <1>1 DEF NextField
<1>3. pass.mode # "none" /\ phase = "assembled"
  BY <1>1, FieldAt, InPass DEF PreviewInv
<1>4. ASSUME policy.detector = "none", Same(pass.mode)
      PROVE  (out.ok <=> Fine(n)) /\ TextOf(n) = out.text /\ EntriesOf(n) = out.entries
  <2>1. Halfway(body[Target(pass.mode)], n, pass.entries)
    BY <1>1, <1>3, <1>4 DEF PreviewInv, PassInv
  <2>2. text = given[Fields[n]] /\ ~Blank(n)
    BY <1>2, <2>1, HalfwayAt DEF Blank
  <2>3. out = Out(n)
    BY <1>2, <1>4, <2>2, NoDetector DEF Out, Same
  <2> QED BY <2>2, <2>3 DEF Fine, TextOf, EntriesOf
<1>5. CASE out.ok
  <2>1. /\ pass' = [pass EXCEPT !.at = n + 1, !.entries = pass.entries \cup out.entries]
        /\ body' = [body EXCEPT ![Target(pass.mode)] = [@ EXCEPT ![Fields[n]] = out.text]]
        /\ UNCHANGED <<policy, global, given, previewed, reported, phase, keys>>
    BY <1>1, <1>2, <1>5 DEF NextField
  <2>2. PICK entries, new : entries = pass.entries \cup out.entries /\ new = out.text
    OBVIOUS
  <2> QED BY <1>1, <1>4, <1>5, <2>1, <2>2, GoesOn
<1>6. CASE ~out.ok
  <2>1. Return(FALSE) /\ UNCHANGED <<policy, global, given, keys>>
    BY <1>1, <1>2, <1>6 DEF NextField
  <2>2. policy.detector = "none" /\ Same(pass.mode) => FALSE = AllFine
    BY <1>4, <1>6 DEF AllFine
  <2> QED BY <1>3, <2>1, <2>2, ReturnKeeps
<1> QED BY <1>5, <1>6

LEMMA EndKeeps ==
    ASSUME PreviewInv, End
    PROVE  PreviewInv'
<1>1. pass.at = Len(Fields) + 1 /\ Return(TRUE) /\ UNCHANGED <<policy, global, given, keys>>
  BY DEF End
<1>2. pass.at \in Nat \ {0}
  BY <1>1, FieldsAre
<1>3. pass.mode # "none"
  BY <1>2, InPass DEF PreviewInv
<1>4. ASSUME policy.detector = "none", Same(pass.mode)
      PROVE  /\ TRUE = AllFine /\ pass.entries = AllEntries
             /\ \A n \in DOMAIN Fields : body[Target(pass.mode)][Fields[n]] = TextOf(n)
  <2>1. PICK texts, had : texts = body[Target(pass.mode)] /\ had = pass.entries
    OBVIOUS
  <2>2. Halfway(texts, Len(Fields) + 1, had)
    BY <1>1, <1>3, <1>4, <2>1 DEF PreviewInv, PassInv
  <2>3. AllFine /\ had = AllEntries /\ \A n \in DOMAIN Fields : texts[Fields[n]] = TextOf(n)
    BY <2>2, WholePass
  <2>4. TRUE = AllFine
    BY <2>3 DEF AllFine
  <2> QED BY <2>1, <2>3, <2>4
<1> QED BY <1>1, <1>3, <1>4, ReturnKeeps

LEMMA RestKeeps ==
    ASSUME PreviewInv, Extract \/ (\E atom \in RawKeys : Post(atom)) \/ UNCHANGED vars
    PROVE  PreviewInv'
<1>1. policy.detector = "none" => PassInv /\ ToldInv
  BY DEF PreviewInv
<1>2. CASE Extract
  <2>1. /\ phase = "redacted" /\ phase' = "kept" /\ keys' = ExtractedKeys(body.episode)
        /\ UNCHANGED <<policy, global, given, body, pass, previewed, reported>>
    BY <1>2 DEF Extract
  <2>2. BodyShape' /\ ModeInv' /\ pass.mode = "none"
    BY <2>1 DEF PreviewInv, BodyShape, ModeInv
  <2>3. policy.detector = "none" => keys' = AllKeys
    BY <1>1, <2>1, KeysOfAll DEF ToldInv
  <2> QED BY <1>1, <2>1, <2>2, <2>3, StepKeeps DEF PassInv, ToldInv
<1>3. CASE (\E atom \in RawKeys : Post(atom)) \/ UNCHANGED vars
  <2>1. UNCHANGED <<policy, global, given, body, pass, previewed, reported, phase, keys>>
    BY <1>3 DEF Post, vars
  <2>2. BodyShape' /\ ModeInv'
    BY <2>1 DEF PreviewInv, BodyShape, ModeInv
  <2> QED BY <1>1, <2>1, <2>2, StepKeeps DEF PassInv, ToldInv
<1> QED BY <1>2, <1>3

LEMMA InitPreview == Init => PreviewInv
<1> SUFFICES ASSUME Init PROVE PreviewInv
  OBVIOUS
<1>1. DOMAIN given = Range(Fields) /\ policy \in Policies /\ given \in Samples
  BY RedactionAssumption DEF Init
<1>2. BodyShape /\ body.episode = given
  BY <1>1 DEF Init, BodyShape, NoTexts
<1>3. ModeInv
  BY <1>1 DEF Init, ModeInv, Idle
<1>4. pass.mode = "none" /\ phase = "assembled" /\ previewed = <<>> /\ reported = <<>>
  BY DEF Init, Idle
<1> QED BY <1>2, <1>3, <1>4 DEF PreviewInv, PassInv, ToldInv

LEMMA PreviewInvHolds == Spec => []PreviewInv
<1>1. PreviewInv /\ [Next]_vars => PreviewInv'
  BY BeginKeeps, SkipKeeps, FieldKeeps, EndKeeps, RestKeeps DEF Next
<1> QED BY <1>1, InitPreview, PTL DEF Spec

\* A preview or a dry run tells the truth, for every policy without a detector and every
\* sample: whether the live pass reports entries or quarantines the episode, which entries,
\* and which keys are extracted, is what a command with the policy of the episode's source
\* printed (redact.go, Preview; clone.go).
THEOREM PreviewsAreTrue == Spec => []PreviewIsTrue
<1>1. PreviewInv => PreviewIsTrue
  <2> SUFFICES ASSUME PreviewInv, policy.detector = "none", global = policy, previewed # <<>>, reported # <<>>
               PROVE  /\ previewed[1].ok = reported[1].ok
                      /\ previewed[1].entries = reported[1].entries
                      /\ phase = "kept" /\ previewed[1].keys # <<>> => previewed[1].keys[1] = keys
    BY DEF PreviewIsTrue
  <2>1. ToldInv
    BY DEF PreviewInv
  <2> QED BY <2>1 DEF ToldInv, Honest
<1> QED BY <1>1, PreviewInvHolds, PTL

-----------------------------------------------------------------------------
(* One rule. *)

Entries == [rule : Words, field : STRING, matches : Nat]
Accs == [ok : BOOLEAN, text : Texts, entries : SUBSET Entries]

Succeeds(acc) == acc.ok = TRUE

(* An atom that is a token or a mark. *)
Hidden(atom) == Len(atom) >= 2

LEMMA ReplacementIs ==
    ASSUME NEW rule \in Rules, NEW atom \in Atoms
    PROVE  /\ Replacement(rule, atom) \in Atoms
           /\ Replacement(rule, atom) # <<>>
           /\ atom # <<>> => Hidden(Replacement(rule, atom))
<1>0. rule.id \in Words /\ "tok" \in Words /\ "redacted" \in Words
  BY RedactionAssumption DEF Rules
<1>1. CASE rule.action = "tokenize"
  <2>1. Replacement(rule, atom) = <<"tok">> \o atom
    BY <1>1 DEF Replacement
  <2>7. PICK w \in Words : w = "tok"
    BY <1>0
  <2>8. <<w>> \in Seq(Words) /\ Len(<<w>>) = 1
    OBVIOUS
  <2>2. <<"tok">> \in Seq(Words) /\ Len(<<"tok">>) = 1 /\ Len(atom) \in Nat
    BY <2>7, <2>8 DEF Atoms
  <2>3. /\ <<"tok">> \o atom \in Seq(Words)
        /\ Len(<<"tok">> \o atom) = 1 + Len(atom)
    BY <2>2 DEF Atoms
  <2>4. atom # <<>> => Len(atom) # 0
    BY DEF Atoms
  <2>5. Len(<<>>) = 0
    OBVIOUS
  <2> QED BY <2>1, <2>2, <2>3, <2>4, <2>5 DEF Hidden, Atoms
<1>2. CASE rule.action # "tokenize"
  <2>1. Replacement(rule, atom) = <<"redacted", rule.id>>
    BY <1>2 DEF Replacement
  <2>4. PICK v \in Words, w \in Words : v = "redacted" /\ w = rule.id
    BY <1>0
  <2>5. <<v, w>> \in Seq(Words) /\ Len(<<v, w>>) = 2
    OBVIOUS
  <2>2. <<"redacted", rule.id>> \in Seq(Words) /\ Len(<<"redacted", rule.id>>) = 2
    BY <2>4, <2>5
  <2>3. Len(<<>>) = 0
    OBVIOUS
  <2> QED BY <2>1, <2>2, <2>3 DEF Hidden, Atoms
<1> QED BY <1>1, <1>2

LEMMA TextIs ==
    ASSUME NEW text \in Texts
    PROVE  /\ text.json \in BOOLEAN /\ text.parts \in Seq(Parts)
           /\ Len(text.parts) \in Nat /\ DOMAIN text.parts = 1 .. Len(text.parts)
           /\ \A i \in DOMAIN text.parts :
                /\ text.parts[i] \in Parts /\ text.parts[i].node \in STRING
                /\ text.parts[i].quoted \in BOOLEAN /\ text.parts[i].atom \in Atoms
                /\ text.parts[i].form \in Forms
<1>1. text.json \in BOOLEAN /\ text.parts \in Seq(Parts)
  BY DEF Texts
<1>2. PICK parts \in Seq(Parts) : parts = text.parts
  BY <1>1
<1>3. /\ Len(parts) \in Nat /\ DOMAIN parts = 1 .. Len(parts)
      /\ \A i \in DOMAIN parts : parts[i] \in Parts
  OBVIOUS
<1>4. \A p \in Parts : /\ p.node \in STRING /\ p.quoted \in BOOLEAN /\ p.atom \in Atoms
                        /\ p.form \in Forms
  BY DEF Parts
<1> QED BY <1>1, <1>2, <1>3, <1>4

LEMMA HitsAreCounted ==
    ASSUME NEW n \in Nat, NEW hits \in SUBSET (1 .. n)
    PROVE  Cardinality(hits) \in Nat /\ (Cardinality(hits) = 0 <=> hits = {})
<1>1. IsFiniteSet(1 .. n)
  BY FS_Interval
<1>2. IsFiniteSet(hits)
  BY <1>1, FS_Subset
<1> QED BY <1>2, FS_EmptySet, FS_CardinalityType

(* A rule that has something to change changes it, or refuses. *)
LEMMA ChangedIs ==
    ASSUME NEW pol, NEW acc \in Accs, NEW rule \in Rules, NEW f \in STRING, NEW n \in Nat \ {0},
           NEW text \in Texts
    PROVE  /\ Changed(pol, acc, rule, f, n, text) \in Accs
           /\ Succeeds(Changed(pol, acc, rule, f, n, text)) =>
                Changed(pol, acc, rule, f, n, text).text = text /\ ~Refuses(pol, rule)
<1> DEFINE out == Changed(pol, acc, rule, f, n, text)
<1> SUFFICES out \in Accs /\ (Succeeds(out) => out.text = text /\ ~Refuses(pol, rule))
  OBVIOUS
<1>0. rule.id \in Words
  BY DEF Rules
<1>1. CASE Refuses(pol, rule)
  <2>1. out = [ok |-> FALSE, text |-> Nothing, entries |-> {}]
    BY <1>1 DEF Changed, Failed
  <2>2. Nothing \in Texts
    BY DEF Nothing, Texts
  <2> QED BY <2>1, <2>2 DEF Accs, Succeeds
<1>2. CASE ~Refuses(pol, rule)
  <2>1. PICK e : e = [rule |-> rule.id, field |-> f, matches |-> n]
    OBVIOUS
  <2>2. out = [acc EXCEPT !.text = text, !.entries = @ \cup {e}]
    BY <1>2, <2>1 DEF Changed, Entry
  <2>3. e \in Entries
    BY <1>0, <2>1 DEF Entries
  <2> QED BY <1>2, <2>2, <2>3 DEF Accs
<1> QED BY <1>1, <1>2

LEMMA WrittenIs ==
    ASSUME NEW p \in Parts
    PROVE  Written(p) \in Atoms /\ (p.form = "plain" => Written(p) = p.atom)
<1>1. p.form \in Forms /\ p.atom \in Seq(Words)
  BY DEF Parts, Atoms
<1>2. CASE p.form = "plain"
  BY <1>1, <1>2 DEF Written, Atoms
<1>3. CASE p.form # "plain"
  <2>1. PICK w \in Words : w = p.form
    BY <1>1, <1>3, RedactionAssumption DEF Forms
  <2>2. <<w>> \in Seq(Words)
    OBVIOUS
  <2>3. Written(p) = <<w>> \o p.atom
    BY <1>3, <2>1 DEF Written
  <2>4. <<w>> \o p.atom \in Seq(Words)
    BY <1>1, <2>2
  <2> QED BY <1>3, <2>3, <2>4 DEF Atoms
<1> QED BY <1>2, <1>3

(* A part with another atom, written as it is. *)
Hide(p, atom) == [p EXCEPT !.atom = atom, !.form = "plain"]

LEMMA HideIs ==
    ASSUME NEW p \in Parts, NEW atom \in Atoms
    PROVE  /\ Hide(p, atom) \in Parts /\ Hide(p, atom).node = p.node
           /\ Hide(p, atom).atom = atom /\ Hide(p, atom).form = "plain"
BY DEF Hide, Parts, Forms

Rewritten(rule, text, p) == IF Finds(rule, text, p) THEN Hide(p, Replacement(rule, Written(p))) ELSE p

LEMMA RewrittenIs ==
    ASSUME NEW rule \in Rules, <<>> \notin rule.re, NEW text, NEW p \in Parts,
           NEW q, q = Rewritten(rule, text, p)
    PROVE  /\ q \in Parts /\ q.node = p.node
           /\ Finds(rule, text, p) => /\ q.atom = Replacement(rule, Written(p)) /\ q.form = "plain"
                                     /\ Hidden(q.atom)
           /\ ~Finds(rule, text, p) => q = p
<1>1. CASE Finds(rule, text, p)
  <2>1. PICK atom \in Atoms : atom = Written(p) /\ atom \in rule.re
    BY <1>1, WrittenIs DEF Finds
  <2>2. PICK new \in Atoms : new = Replacement(rule, atom) /\ Hidden(new)
    BY <2>1, ReplacementIs
  <2>3. q = Hide(p, new)
    BY <1>1, <2>1, <2>2 DEF Rewritten
  <2> QED BY <1>1, <2>1, <2>2, <2>3, HideIs
<1>2. CASE ~Finds(rule, text, p)
  BY <1>2 DEF Rewritten
<1> QED BY <1>1, <1>2

(* Where the expression of a rule matches, and what it makes of a text. *)
Hits(rule, text) == {i \in DOMAIN text.parts : Finds(rule, text, text.parts[i])}
RegexText(rule, text) ==
    [json |-> text.json /\ \A i \in Hits(rule, text) : text.parts[i].quoted /\ rule.where # "within",
     parts |-> [i \in DOMAIN text.parts |-> Rewritten(rule, text, text.parts[i])]]

LEMMA RegexTextIs ==
    ASSUME NEW rule \in Rules, <<>> \notin rule.re, NEW text \in Texts
    PROVE  /\ RegexText(rule, text) \in Texts
           /\ DOMAIN RegexText(rule, text).parts = DOMAIN text.parts
           /\ RegexText(rule, text).json => text.json
           /\ RegexText(rule, text).json /\ Hits(rule, text) # {} => rule.where # "within"
           /\ \A i \in DOMAIN text.parts : RegexText(rule, text).parts[i] = Rewritten(rule, text, text.parts[i])
<1>1. PICK parts \in Seq(Parts), n \in Nat : parts = text.parts /\ n = Len(parts) /\ DOMAIN parts = 1 .. n
  BY TextIs
<1>2. PICK new : new = [i \in 1 .. n |-> Rewritten(rule, text, parts[i])]
  OBVIOUS
<1>3. new \in Seq(Parts) /\ DOMAIN new = 1 .. n
  BY <1>1, <1>2, RewrittenIs
<1>4. PICK json \in BOOLEAN :
        json = (text.json /\ \A i \in Hits(rule, text) : text.parts[i].quoted /\ rule.where # "within")
  OBVIOUS
<1>5. RegexText(rule, text) = [json |-> json, parts |-> new]
  BY <1>1, <1>2, <1>4 DEF RegexText
<1>6. RegexText(rule, text) \in Texts
  BY <1>3, <1>5 DEF Texts
<1>7. RegexText(rule, text).parts = new /\ RegexText(rule, text).json = json
  BY <1>5
<1> QED BY <1>1, <1>2, <1>3, <1>4, <1>6, <1>7

(* A regex rule that succeeds. *)
RegexStep(pol, rule, old, new) ==
    /\ DOMAIN new.parts = DOMAIN old.parts
    /\ new.json => old.json
    /\ \A i \in DOMAIN old.parts :
         /\ new.parts[i] = Rewritten(rule, old, old.parts[i])
         /\ Finds(rule, old, old.parts[i]) =>
              ~Refuses(pol, rule) /\ (new.json => rule.where # "within")

LEMMA RegexRuleIs ==
    ASSUME NEW pol, NEW acc \in Accs, NEW rule \in Rules, <<>> \notin rule.re, NEW f \in STRING,
           NEW out, out = RegexRule(pol, acc, rule, f)
    PROVE  /\ out \in Accs
           /\ Succeeds(out) => RegexStep(pol, rule, acc.text, out.text)
<1>1. PICK old \in Texts : old = acc.text
  BY DEF Accs
<1>2. PICK parts \in Seq(Parts), n \in Nat : parts = old.parts /\ n = Len(parts) /\ DOMAIN parts = 1 .. n
  BY TextIs
<1>3. PICK hits \in SUBSET (1 .. n) : hits = Hits(rule, old)
  BY <1>2 DEF Hits
<1>4. PICK text \in Texts : text = RegexText(rule, old)
  BY RegexTextIs
<1>7. RegexRule(pol, acc, rule, f)
      = Changed(pol, acc, rule, f, Cardinality(Hits(rule, acc.text)), RegexText(rule, acc.text))
  BY Zenon DEF RegexRule, Hits, RegexText, Rewritten, Hide
<1>8. out = Changed(pol, acc, rule, f, Cardinality(hits), text)
  BY <1>1, <1>2, <1>3, <1>4, <1>7
<1>9. CASE hits = {}
  <2>1. out = acc
    BY <1>8, <1>9, HitsAreCounted DEF Changed
  <2>2. \A i \in DOMAIN parts : ~Finds(rule, old, parts[i])
    BY <1>2, <1>3, <1>9 DEF Hits
  <2>3. \A i \in DOMAIN parts : parts[i] = Rewritten(rule, old, parts[i])
    BY <2>2 DEF Rewritten
  <2>4. out.text = old
    BY <1>1, <2>1
  <2> QED BY <1>1, <1>2, <2>1, <2>2, <2>3, <2>4 DEF RegexStep
<1>10. CASE hits # {}
  <2>1. PICK c \in Nat \ {0} : c = Cardinality(hits)
    BY <1>10, HitsAreCounted
  <2>3. out = Changed(pol, acc, rule, f, c, text)
    BY <1>8, <2>1
  <2>2. out \in Accs /\ (Succeeds(out) => out.text = text /\ ~Refuses(pol, rule))
    BY <1>4, <2>1, <2>3, ChangedIs
  <2>4. ASSUME Succeeds(out) PROVE RegexStep(pol, rule, acc.text, out.text)
    <3>1. out.text = text /\ ~Refuses(pol, rule)
      BY <2>2, <2>4
    <3>2. \A i \in DOMAIN old.parts : Finds(rule, old, old.parts[i]) => Hits(rule, old) # {}
      BY DEF Hits
    <3> HIDE DEF Hits
    <3> QED BY <1>1, <1>4, <3>1, <3>2, RegexTextIs DEF RegexStep
  <2> QED BY <2>2, <2>4
<1> QED BY <1>9, <1>10

LEMMA MaxIs ==
    ASSUME NEW n \in Nat, NEW s \in SUBSET (1 .. n), s # {}
    PROVE  Max(s) \in s /\ \A y \in s : y <= Max(s)
<1>1. PICK x \in s : \A y \in s : y <= x
  BY Greatest
<1>2. \A y \in s : x >= y
  BY <1>1
<1>3. Max(s) \in s /\ \A y \in s : Max(s) >= y
  BY <1>2 DEF Max
<1> QED BY <1>3

(* The nodes a path rule finds, those it replaces for, and what it makes of a text. *)
Found(rule, text) == {i \in DOMAIN text.parts : text.json /\ text.parts[i].node = rule.path}
PathHits(rule, text) ==
    {i \in Found(rule, text) :
        text.parts[i].atom # <<>> /\ (rule.re = {} \/ FindsAlone(rule, text.parts[i].atom))}
Marked(p, atom) == [p EXCEPT !.atom = atom, !.quoted = TRUE, !.form = "plain"]
PathPart(rule, text, i) ==
    IF i \in Found(rule, text)
    THEN Marked(text.parts[i], Replacement(rule, text.parts[Max(PathHits(rule, text))].atom))
    ELSE Encoded(text.parts[i])
PathText(rule, text) == [text EXCEPT !.parts = [i \in DOMAIN text.parts |-> PathPart(rule, text, i)]]

(* Encoding writes every part in the one way its atom has. *)
LEMMA EncodedIs ==
    ASSUME NEW p \in Parts
    PROVE  /\ Encoded(p) \in Parts /\ Encoded(p).node = p.node /\ Encoded(p).atom = p.atom
           /\ Encoded(p).quoted = p.quoted
           /\ Encoded(p).form = IF p.atom \in Special THEN "encoded" ELSE "plain"
           /\ Encoded(p) = p \/ Encoded(p).form # p.form
           /\ Encoded(Encoded(p)) = Encoded(p)
<1>1. ASSUME NEW q \in Parts, NEW form \in Forms, form = IF q.atom \in Special THEN "encoded" ELSE "plain"
      PROVE  /\ Encoded(q) \in Parts /\ Encoded(q).node = q.node /\ Encoded(q).atom = q.atom
             /\ Encoded(q).quoted = q.quoted /\ Encoded(q).form = form
             /\ form = q.form => Encoded(q) = q
  BY <1>1 DEF Encoded, Parts
<1>2. PICK form \in Forms : form = IF p.atom \in Special THEN "encoded" ELSE "plain"
  BY DEF Forms
<1>3. PICK q \in Parts : q = Encoded(p) /\ q.atom = p.atom /\ q.form = form
  BY <1>1, <1>2
<1>4. Encoded(q) = q
  BY <1>1, <1>2, <1>3
<1> QED BY <1>1, <1>2, <1>3, <1>4

LEMMA PathPartIs ==
    ASSUME NEW rule \in Rules, NEW text \in Texts, PathHits(rule, text) # {}, NEW i \in DOMAIN text.parts,
           NEW q, q = PathPart(rule, text, i)
    PROVE  /\ q \in Parts /\ q.node = text.parts[i].node
           /\ i \in Found(rule, text) => Hidden(q.atom)
           /\ i \notin Found(rule, text) => q = Encoded(text.parts[i])
<1>1. PICK n \in Nat : DOMAIN text.parts = 1 .. n
  BY TextIs
<1>2. PathHits(rule, text) \in SUBSET (1 .. n)
  BY <1>1 DEF PathHits, Found
<1>3. PICK m \in PathHits(rule, text) : m = Max(PathHits(rule, text))
  BY <1>2, MaxIs
<1>4. m \in DOMAIN text.parts /\ text.parts[m].atom # <<>>
  BY <1>3 DEF PathHits, Found
<1>5. PICK atom \in Atoms : atom = text.parts[m].atom /\ atom # <<>>
  BY <1>4, TextIs
<1>6. PICK p \in Parts : p = text.parts[i]
  BY TextIs
<1>7. PICK new \in Atoms : new = Replacement(rule, atom) /\ Hidden(new)
  BY <1>5, ReplacementIs
<1>8. CASE i \in Found(rule, text)
  <2>1. q = [p EXCEPT !.atom = new, !.quoted = TRUE, !.form = "plain"]
    BY <1>3, <1>5, <1>6, <1>7, <1>8 DEF PathPart, Marked
  <2> QED BY <1>6, <1>7, <1>8, <2>1 DEF Parts, Forms
<1>9. CASE i \notin Found(rule, text)
  BY <1>6, <1>9, EncodedIs DEF PathPart
<1> QED BY <1>8, <1>9

LEMMA PathTextIs ==
    ASSUME NEW rule \in Rules, NEW text \in Texts, PathHits(rule, text) # {}
    PROVE  /\ PathText(rule, text) \in Texts
           /\ DOMAIN PathText(rule, text).parts = DOMAIN text.parts
           /\ PathText(rule, text).json = text.json
           /\ \A i \in DOMAIN text.parts : PathText(rule, text).parts[i] = PathPart(rule, text, i)
<1>1. PICK n \in Nat : DOMAIN text.parts = 1 .. n
  BY TextIs
<1>2. PICK new : new = [i \in 1 .. n |-> PathPart(rule, text, i)]
  OBVIOUS
<1>3. new \in Seq(Parts) /\ DOMAIN new = 1 .. n
  BY <1>1, <1>2, PathPartIs
<1>4. PathText(rule, text) = [text EXCEPT !.parts = new]
  BY <1>1, <1>2 DEF PathText
<1>5. /\ [text EXCEPT !.parts = new] \in Texts
      /\ [text EXCEPT !.parts = new].parts = new /\ [text EXCEPT !.parts = new].json = text.json
  BY <1>3 DEF Texts
<1> QED BY <1>1, <1>2, <1>3, <1>4, <1>5

PathStep(rule, old, new) ==
    IF PathHits(rule, old) = {} THEN new = old ELSE new = PathText(rule, old)

LEMMA PathRuleIs ==
    ASSUME NEW pol, NEW acc \in Accs, NEW rule \in Rules, NEW f \in STRING,
           NEW out, out = PathRule(pol, acc, rule, f)
    PROVE  /\ out \in Accs
           /\ Succeeds(out) => PathStep(rule, acc.text, out.text)
<1>1. PICK old \in Texts : old = acc.text
  BY DEF Accs
<1>2. PICK n \in Nat : DOMAIN old.parts = 1 .. n
  BY TextIs
<1>3. PICK hits \in SUBSET (1 .. n) : hits = PathHits(rule, old)
  BY <1>2 DEF PathHits, Found
<1>4. PathRule(pol, acc, rule, f)
      = IF PathHits(rule, acc.text) = {} THEN acc
        ELSE Changed(pol, acc, rule, f, Cardinality(PathHits(rule, acc.text)), PathText(rule, acc.text))
  BY Zenon DEF PathRule, PathHits, Found, PathText, PathPart, Marked
<1>5. CASE hits = {}
  BY <1>1, <1>3, <1>4, <1>5 DEF PathStep
<1>6. CASE hits # {}
  <2>1. PICK c \in Nat \ {0} : c = Cardinality(hits)
    BY <1>6, HitsAreCounted
  <2>2. PICK text \in Texts : text = PathText(rule, old)
    BY <1>3, <1>6, PathTextIs
  <2>3. out = Changed(pol, acc, rule, f, c, text)
    BY <1>1, <1>3, <1>4, <1>6, <2>1, <2>2
  <2>4. out \in Accs /\ (Succeeds(out) => out.text = text)
    BY <2>1, <2>2, <2>3, ChangedIs
  <2> QED BY <1>1, <1>3, <1>6, <2>2, <2>4 DEF PathStep
<1> QED BY <1>5, <1>6

(* The rule runs on the string. *)
OnText(rule) == rule.path = ""

(* What a rule may do to a text: hide parts of it, or encode the others once more. *)
Stays(rule, f, p, q) ==
    q = p \/ (~OnText(rule) /\ Applies(rule, f) /\ q = Encoded(p))

Turns(rule, f, old, new) ==
    /\ DOMAIN new.parts = DOMAIN old.parts
    /\ new.json => old.json
    /\ \A i \in DOMAIN old.parts :
         /\ new.parts[i].node = old.parts[i].node
         /\ Stays(rule, f, old.parts[i], new.parts[i]) \/ Hidden(new.parts[i].atom)

(* The rule finds nothing in the part. *)
CleanPart(rule, text, p) ==
    Plain(p.atom) => IF OnText(rule) THEN ~Finds(rule, text, p)
                     ELSE text.json /\ p.node = rule.path => rule.re # {} /\ ~FindsAlone(rule, p.atom)

Clean(rule, text) == \A i \in DOMAIN text.parts : CleanPart(rule, text, text.parts[i])

LEMMA HiddenIsNotPlain ==
    ASSUME NEW atom \in Atoms, Hidden(atom)
    PROVE  ~Plain(atom)
<1>1. PICK n : n = Len(atom)
  OBVIOUS
<1>2. n >= 2
  BY <1>1 DEF Hidden
<1>3. n # 1
  BY <1>2
<1> QED BY <1>1, <1>3 DEF Plain

LEMMA PlainIsSomething ==
    ASSUME NEW atom, Plain(atom)
    PROVE  atom # <<>>
<1>1. ASSUME atom = <<>> PROVE FALSE
  <2>1. Len(<<>>) = 1
    BY <1>1, Zenon DEF Plain
  <2> QED BY <2>1
<1> QED BY <1>1

(* A plain part of a text by itself was quoted as it was before. *)
LEMMA AloneStays ==
    ASSUME NEW old \in Texts, NEW new \in Texts, DOMAIN new.parts = DOMAIN old.parts,
           NEW i \in DOMAIN old.parts, new.parts[i].quoted = old.parts[i].quoted
    PROVE  Alone(new) <=> Alone(old)
<1>1. PICK n \in Nat, m \in Nat : /\ n = Len(old.parts) /\ m = Len(new.parts)
                                 /\ DOMAIN old.parts = 1 .. n /\ DOMAIN new.parts = 1 .. m
  BY TextIs
<1>2. n = m
  BY <1>1
<1>3. i \in 1 .. n
  BY <1>1
<1>4. n = 1 => i = 1
  BY <1>3
<1> QED BY <1>1, <1>2, <1>4 DEF Alone

LEMMA RegexCleans ==
    ASSUME NEW pol, NEW acc \in Accs, NEW rule \in Rules, <<>> \notin rule.re, OnText(rule),
           NEW f \in STRING, NEW out, out = RegexRule(pol, acc, rule, f), Succeeds(out)
    PROVE  Turns(rule, f, acc.text, out.text) /\ Clean(rule, out.text)
<1>0. out \in Accs /\ RegexStep(pol, rule, acc.text, out.text)
  BY RegexRuleIs
<1>5. acc.text \in Texts /\ out.text \in Texts
  BY <1>0 DEF Accs
<1>1. PICK old \in Texts, new \in Texts : old = acc.text /\ new = out.text
  BY <1>5
<1>2. /\ DOMAIN new.parts = DOMAIN old.parts /\ (new.json => old.json)
      /\ \A i \in DOMAIN old.parts : new.parts[i] = Rewritten(rule, old, old.parts[i])
  BY <1>0, <1>1 DEF RegexStep
<1>3. ASSUME NEW i \in DOMAIN old.parts
      PROVE  /\ new.parts[i].node = old.parts[i].node
             /\ Stays(rule, f, old.parts[i], new.parts[i]) \/ Hidden(new.parts[i].atom)
             /\ CleanPart(rule, new, new.parts[i])
  <2>1. PICK p \in Parts, q \in Parts : p = old.parts[i] /\ q = new.parts[i] /\ q = Rewritten(rule, old, p)
    BY <1>2, TextIs
  <2>5. new.parts[i].atom \in Atoms /\ i \in DOMAIN new.parts
    BY <1>2, TextIs
  <2>6. q.node = p.node
    BY <2>1, RewrittenIs
  <2>2. q.atom \in Atoms /\ q.node = p.node
    BY <2>1, <2>5, <2>6
  <2>3. CASE Finds(rule, old, p)
    <3>1. Hidden(q.atom)
      BY <2>1, <2>3, RewrittenIs
    <3> QED BY <2>1, <2>2, <3>1, HiddenIsNotPlain DEF CleanPart
  <2>4. CASE ~Finds(rule, old, p)
    <3>1. q = p
      BY <2>1, <2>4, RewrittenIs
    <3>2. Alone(new) <=> Alone(old)
      BY <1>2, <2>1, <3>1, AloneStays
    <3>3. ~Finds(rule, new, q)
      BY <2>4, <3>1, <3>2 DEF Finds
    <3> QED BY <2>1, <2>2, <3>1, <3>3 DEF CleanPart, Stays
  <2> QED BY <2>3, <2>4
<1> QED BY <1>1, <1>2, <1>3 DEF Turns, Clean

LEMMA PathCleans ==
    ASSUME NEW pol, NEW acc \in Accs, NEW rule \in Rules, ~OnText(rule),
           NEW f \in STRING, Applies(rule, f), NEW out, out = PathRule(pol, acc, rule, f), Succeeds(out)
    PROVE  Turns(rule, f, acc.text, out.text) /\ Clean(rule, out.text)
<1>0. out \in Accs /\ PathStep(rule, acc.text, out.text)
  BY PathRuleIs
<1>5. acc.text \in Texts /\ out.text \in Texts
  BY <1>0 DEF Accs
<1>1. PICK old \in Texts, new \in Texts : old = acc.text /\ new = out.text
  BY <1>5
<1>2. CASE PathHits(rule, old) = {}
  <2>1. new = old
    BY <1>0, <1>1, <1>2 DEF PathStep
  <2>2. ASSUME NEW i \in DOMAIN old.parts, Plain(old.parts[i].atom), old.json, old.parts[i].node = rule.path
        PROVE  rule.re # {} /\ ~FindsAlone(rule, old.parts[i].atom)
    <3>1. i \in Found(rule, old)
      BY <2>2 DEF Found
    <3>2. old.parts[i].atom # <<>>
      BY <2>2, PlainIsSomething
    <3> QED BY <1>2, <3>1, <3>2 DEF PathHits
  <2>3. Turns(rule, f, old, old)
    BY DEF Turns, Stays
  <2> QED BY <1>1, <2>1, <2>2, <2>3 DEF Clean, CleanPart
<1>3. CASE PathHits(rule, old) # {}
  <2>1. new = PathText(rule, old)
    BY <1>0, <1>1, <1>3 DEF PathStep
  <2>2. /\ DOMAIN new.parts = DOMAIN old.parts /\ new.json = old.json
        /\ \A i \in DOMAIN old.parts : new.parts[i] = PathPart(rule, old, i)
    BY <1>3, <2>1, PathTextIs
  <2>3. ASSUME NEW i \in DOMAIN old.parts
        PROVE  /\ new.parts[i].node = old.parts[i].node
               /\ Stays(rule, f, old.parts[i], new.parts[i]) \/ Hidden(new.parts[i].atom)
               /\ CleanPart(rule, new, new.parts[i])
    <3>1. PICK q \in Parts : q = new.parts[i] /\ q = PathPart(rule, old, i) /\ q.atom \in Atoms
      BY <2>2, TextIs
    <3>2. CASE i \in Found(rule, old)
      <4>1. Hidden(q.atom) /\ q.node = old.parts[i].node
        BY <1>3, <3>1, <3>2, PathPartIs
      <4> QED BY <3>1, <4>1, HiddenIsNotPlain DEF CleanPart
    <3>3. CASE i \notin Found(rule, old)
      <4>1. q = Encoded(old.parts[i]) /\ q.node = old.parts[i].node
        BY <1>3, <3>1, <3>3, PathPartIs
      <4>2. ~(old.json /\ old.parts[i].node = rule.path)
        BY <3>3 DEF Found
      <4> QED BY <2>2, <3>1, <4>1, <4>2 DEF CleanPart, Stays
    <3> QED BY <3>2, <3>3
  <2> QED BY <1>1, <2>2, <2>3 DEF Turns, Clean
<1> QED BY <1>2, <1>3

LEMMA RunRuleIs ==
    ASSUME NEW pol, NEW acc \in Accs, NEW rule \in Rules, <<>> \notin rule.re, NEW f \in STRING,
           NEW out, out = RunRule(pol, acc, rule, f)
    PROVE  /\ out \in Accs
           /\ Succeeds(out) => Succeeds(acc) /\ Turns(rule, f, acc.text, out.text) /\ (Applies(rule, f) => Clean(rule, out.text))
<1>1. CASE ~Succeeds(acc) \/ ~Applies(rule, f)
  <2>2. acc.ok \in BOOLEAN
    BY DEF Accs
  <2>1. out = acc
    BY <1>1, <2>2 DEF RunRule, Applies, Succeeds
  <2> QED BY <1>1, <2>1 DEF Turns, Stays
<1>2. CASE Succeeds(acc) /\ Applies(rule, f) /\ rule.path = ""
  <2>1. out = RegexRule(pol, acc, rule, f)
    BY <1>2 DEF RunRule, Applies, Succeeds
  <2> QED BY <1>2, <2>1, RegexRuleIs, RegexCleans DEF OnText
<1>3. CASE Succeeds(acc) /\ Applies(rule, f) /\ rule.path # ""
  <2>1. out = PathRule(pol, acc, rule, f)
    BY <1>3 DEF RunRule, Applies, Succeeds
  <2> QED BY <1>3, <2>1, PathRuleIs, PathCleans DEF OnText
<1> QED BY <1>1, <1>2, <1>3

-----------------------------------------------------------------------------
(* The rules in turn. *)

LEMMA PolicyIs ==
    ASSUME NEW pol \in Policies
    PROVE  /\ pol.rules \in Seq(Rules)
           /\ Len(pol.rules) \in Nat /\ DOMAIN pol.rules = 1 .. Len(pol.rules)
           /\ pol.key \in BOOLEAN
           /\ \A k \in DOMAIN pol.rules : pol.rules[k] \in Rules /\ <<>> \notin pol.rules[k].re
<1>1. PICK rules \in Seq(Rules) : rules = pol.rules
  BY RedactionAssumption
<1>2. /\ Len(rules) \in Nat /\ DOMAIN rules = 1 .. Len(rules)
      /\ \A k \in DOMAIN rules : rules[k] \in Rules
  OBVIOUS
<1>3. pol.key \in BOOLEAN /\ \A k \in DOMAIN pol.rules : <<>> \notin pol.rules[k].re
  BY RedactionAssumption
<1> QED BY <1>1, <1>2, <1>3

Fresh(text) == [ok |-> TRUE, text |-> text, entries |-> {}]

(* What is accumulated after each rule. *)
Chain(pol, f, text, a) ==
    /\ a \in [0 .. Len(pol.rules) -> Accs]
    /\ a[0] = Fresh(text)
    /\ \A k \in 1 .. Len(pol.rules) : a[k] = RunRule(pol, a[k - 1], pol.rules[k], f)

LEMMA RulesInTurn ==
    ASSUME NEW pol \in Policies, NEW f \in STRING, NEW text \in Texts
    PROVE  \E a : Chain(pol, f, text, a) /\ RunRules(pol, f, text) = a[Len(pol.rules)]
<1>1. PICK n \in Nat, rules \in Seq(Rules) : n = Len(pol.rules) /\ rules = pol.rules /\ DOMAIN rules = 1 .. n
  BY PolicyIs
<1> DEFINE D == 1 .. n
           F == [x \in D \X Accs |-> RunRule(pol, x[2], rules[x[1]], f)]
           ch == [s \in SUBSET D |-> Max(s)]
           start == Fresh(text)
<1>2. IsFiniteSet(D)
  BY FS_Interval
<1>3. F \in [D \X Accs -> Accs]
  <2>1. ASSUME NEW x \in D \X Accs PROVE RunRule(pol, x[2], rules[x[1]], f) \in Accs
    <3>1. PICK acc \in Accs, rule \in Rules : acc = x[2] /\ rule = rules[x[1]] /\ <<>> \notin rule.re
      BY <1>1, PolicyIs
    <3>2. RunRule(pol, acc, rule, f) \in Accs
      BY <3>1, RunRuleIs
    <3> QED BY <3>1, <3>2
  <2> QED BY <2>1
<1>4. start \in Accs
  BY DEF Accs, Fresh
<1>5. \A s \in SUBSET D : s # {} => ch[s] \in s
  BY MaxIs
<1> HIDE DEF F, ch, start
<1>7. PICK g \in [SUBSET D -> Accs] : IsFold(g, SUBSET D, start, F, ch)
  BY <1>2, <1>3, <1>4, <1>5, FoldExists
<1> DEFINE Passes(h) == h = [s \in SUBSET DOMAIN rules |->
             IF s = {} THEN start ELSE RunRule(pol, h[s \ {Max(s)}], rules[Max(s)], f)]
<1>8. ASSUME NEW s \in SUBSET D
      PROVE  g[s] = IF s = {} THEN start ELSE RunRule(pol, g[s \ {Max(s)}], rules[Max(s)], f)
  <2>1. CASE s = {}
    BY <1>7, <2>1 DEF IsFold
  <2>2. CASE s # {}
    <3>1. g[s] = F[<<ch[s], g[s \ {ch[s]}]>>] /\ ch[s] = Max(s)
      BY <1>7, <2>2 DEF IsFold, ch
    <3>2. PICK m \in D, y \in Accs : m = Max(s) /\ y = g[s \ {m}]
      BY <2>2, MaxIs
    <3>3. F[<<m, y>>] = RunRule(pol, y, rules[m], f)
      BY DEF F
    <3> QED BY <2>2, <3>1, <3>2, <3>3
  <2> QED BY <2>1, <2>2
<1>9. Passes(g)
  BY <1>1, <1>8
<1>10. PICK h : h = CHOOSE k : Passes(k)
  OBVIOUS
<1>11. RunRules(pol, f, text) = h[DOMAIN rules]
  BY <1>1, <1>10, Zenon DEF RunRules, FoldLeft, MapThenFoldSet, start, Fresh
<1> HIDE DEF Passes
<1>12. Passes(h)
  BY <1>9, <1>10
<1>13. PICK a : a = [k \in 0 .. n |-> h[1 .. k]]
  OBVIOUS
<1>14. a[0] = start /\ a[n] = h[DOMAIN rules]
  <2>1. 1 .. 0 = {} /\ 0 \in 0 .. n /\ n \in 0 .. n
    OBVIOUS
  <2>2. h[{}] = start
    BY <1>12 DEF Passes
  <2> QED BY <1>1, <1>13, <2>1, <2>2
<1>15. ASSUME NEW k \in 1 .. n PROVE a[k] = RunRule(pol, a[k - 1], rules[k], f)
  <2>6. 1 .. k \in SUBSET D /\ k \in 1 .. k
    OBVIOUS
  <2>7. (1 .. k) \ {k} = 1 .. k - 1
    OBVIOUS
  <2>1. PICK s \in SUBSET D : s = 1 .. k /\ s # {} /\ k \in s /\ s \ {k} = 1 .. k - 1
    BY <2>6, <2>7
  <2>2. PICK m \in s : m = Max(s) /\ \A y \in s : y <= m
    BY <2>1, MaxIs
  <2>3. m = k
    BY <2>1, <2>2
  <2>4. h[s] = RunRule(pol, h[s \ {Max(s)}], rules[Max(s)], f)
    BY <1>1, <1>12, <2>1 DEF Passes
  <2>5. k \in 0 .. n /\ k - 1 \in 0 .. n
    OBVIOUS
  <2> QED BY <1>13, <2>1, <2>2, <2>3, <2>4, <2>5
<1>16. \A k \in 0 .. n : a[k] \in Accs
  <2> DEFINE Bad == {k \in 0 .. n : a[k] \notin Accs}
  <2> SUFFICES ASSUME Bad # {} PROVE FALSE
    OBVIOUS
  <2>1. Bad \in SUBSET Nat
    OBVIOUS
  <2> HIDE DEF Bad
  <2>2. PICK k \in Bad : \A j \in Bad : k <= j
    BY <2>1, Least
  <2>3. k \in 1 .. n /\ k - 1 \in 0 .. n /\ a[k] \notin Accs
    BY <1>4, <1>14 DEF Bad
  <2>4. a[k - 1] \in Accs
    BY <2>2, <2>3 DEF Bad
  <2>5. PICK acc \in Accs, rule \in Rules : acc = a[k - 1] /\ rule = rules[k] /\ <<>> \notin rule.re
    BY <1>1, <2>3, <2>4, PolicyIs
  <2>6. RunRule(pol, acc, rule, f) \in Accs
    BY <2>5, RunRuleIs
  <2> QED BY <1>15, <2>3, <2>5, <2>6
<1>17. a \in [0 .. n -> Accs]
  BY <1>13, <1>16
<1>18. Chain(pol, f, text, a)
  BY <1>1, <1>14, <1>15, <1>17 DEF Chain, start
<1> QED BY <1>1, <1>11, <1>14, <1>18

(* What a part was at first: hidden now, or as it was, or encoded once more. *)
Kept(o, p) == Hidden(p.atom) \/ p = o \/ p = Encoded(o)

(* A path rule after rule j, and not after rule k, changed how the part is written. *)
Anew(rules, f, j, k, o, p) ==
    /\ p.atom = o.atom /\ p.form # o.form
    /\ \E m \in DOMAIN rules : j < m /\ m <= k /\ ~OnText(rules[m]) /\ Applies(rules[m], f)

(* After rule k, rule j finds nothing in the part, unless it was written anew since. *)
CleanAt(rules, f, j, k, o, text, p) ==
    CleanPart(rules[j], text, p) \/ (OnText(rules[j]) /\ Anew(rules, f, j, k, o, p))

PartOk(rules, f, k, o, text, p) ==
    /\ p.node = o.node /\ Kept(o, p)
    /\ \A j \in 1 .. k : Applies(rules[j], f) => CleanAt(rules, f, j, k, o, text, p)

CleanUpTo(rules, f, k, first, text) ==
    /\ DOMAIN text.parts = DOMAIN first.parts
    /\ \A i \in DOMAIN first.parts : PartOk(rules, f, k, first.parts[i], text, text.parts[i])

(* The rules before have done their work, and what comes after does not undo it. *)
LEMMA StaysClean ==
    ASSUME NEW rules \in Seq(Rules), NEW f, NEW h \in Nat, NEW k \in DOMAIN rules, k = h + 1,
           NEW first \in Texts, NEW old \in Texts, NEW new \in Texts,
           Turns(rules[k], f, old, new), Applies(rules[k], f) => Clean(rules[k], new),
           CleanUpTo(rules, f, h, first, old)
    PROVE  CleanUpTo(rules, f, k, first, new)
<1>0. DOMAIN new.parts = DOMAIN old.parts /\ DOMAIN old.parts = DOMAIN first.parts
  BY DEF Turns, CleanUpTo
<1> SUFFICES ASSUME NEW i \in DOMAIN first.parts PROVE PartOk(rules, f, k, first.parts[i], new, new.parts[i])
  BY <1>0 DEF CleanUpTo
<1>1. PICK o \in Parts, p \in Parts, q \in Parts : o = first.parts[i] /\ p = old.parts[i] /\ q = new.parts[i]
  BY <1>0, TextIs
<1>2. PICK rule : rule = rules[k]
  OBVIOUS
<1>3. /\ q.node = p.node /\ (Stays(rule, f, p, q) \/ Hidden(q.atom))
      /\ new.json => old.json
  BY <1>0, <1>1, <1>2 DEF Turns
<1>4. PartOk(rules, f, h, o, old, p)
  BY <1>1 DEF CleanUpTo
<1>5. q.node = o.node
  BY <1>3, <1>4 DEF PartOk
<1>6. CASE Hidden(q.atom)
  <2>1. q.atom \in Atoms
    BY DEF Parts
  <2>2. \A j \in 1 .. k : CleanAt(rules, f, j, k, o, new, q)
    BY <1>6, <2>1, HiddenIsNotPlain DEF CleanAt, CleanPart
  <2> QED BY <1>1, <1>5, <1>6, <2>2 DEF PartOk, Kept
<1>7. CASE ~Hidden(q.atom) /\ Stays(rule, f, p, q)
  <2>1. q.atom = p.atom /\ q.quoted = p.quoted /\ ~Hidden(p.atom) /\ (q = p \/ q = Encoded(p))
    BY <1>7, EncodedIs DEF Stays
  <2>2. p = o \/ p = Encoded(o)
    BY <1>4, <2>1 DEF PartOk, Kept
  <2>3. Kept(o, q)
    BY <2>1, <2>2, EncodedIs DEF Kept
  <2>4. Alone(new) <=> Alone(old)
    BY <1>0, <1>1, <2>1, AloneStays
  <2>5. ASSUME NEW j \in 1 .. k, Applies(rules[j], f) PROVE CleanAt(rules, f, j, k, o, new, q)
    <3>1. CASE j = k
      BY <1>0, <1>1, <2>5, <3>1 DEF Clean, CleanAt
    <3>2. CASE j # k
      <4>1. j \in 1 .. h /\ j < k /\ h <= k /\ k <= k
        BY <3>2
      <4>2. CleanAt(rules, f, j, h, o, old, p)
        BY <1>4, <2>5, <4>1 DEF PartOk
      <4>3. CASE q = p
        <5>1. CASE CleanPart(rules[j], old, p)
          <6>1. CleanPart(rules[j], new, q)
            BY <1>3, <2>4, <4>3, <5>1 DEF CleanPart, Finds
          <6> QED BY <6>1 DEF CleanAt
        <5>2. CASE OnText(rules[j]) /\ Anew(rules, f, j, h, o, p)
          <6>1. PICK m \in DOMAIN rules : j < m /\ m <= h /\ ~OnText(rules[m]) /\ Applies(rules[m], f)
            BY <5>2 DEF Anew
          <6>2. m <= k
            BY <4>1, <6>1
          <6> QED BY <4>3, <5>2, <6>1, <6>2 DEF CleanAt, Anew
        <5> QED BY <4>2, <5>1, <5>2 DEF CleanAt
      <4>4. CASE q # p
        <5>1. ~OnText(rule) /\ Applies(rule, f) /\ q = Encoded(p)
          BY <1>7, <4>4 DEF Stays
        <5>2. p = o /\ q.form # o.form
          BY <2>2, <4>4, <5>1, EncodedIs
        <5>3. Anew(rules, f, j, k, o, q)
          BY <1>2, <2>1, <4>1, <5>1, <5>2 DEF Anew
        <5>4. CASE OnText(rules[j])
          BY <5>3, <5>4 DEF CleanAt
        <5>5. CASE ~OnText(rules[j])
          <6>1. CleanPart(rules[j], old, p)
            BY <4>2, <5>5 DEF CleanAt
          <6>2. CleanPart(rules[j], new, q)
            BY <1>3, <2>1, <5>5, <6>1 DEF CleanPart
          <6> QED BY <6>2 DEF CleanAt
        <5> QED BY <5>4, <5>5
      <4> QED BY <4>3, <4>4
    <3> QED BY <3>1, <3>2
  <2> QED BY <1>1, <1>5, <2>3, <2>5 DEF PartOk
<1> QED BY <1>3, <1>6, <1>7

LEMMA RulesClean ==
    ASSUME NEW pol \in Policies, NEW f \in STRING, NEW text \in Texts, NEW a, Chain(pol, f, text, a)
    PROVE  \A k \in 0 .. Len(pol.rules) : Succeeds(a[k]) => CleanUpTo(pol.rules, f, k, text, a[k].text)
<1>1. PICK n \in Nat, rules \in Seq(Rules) : n = Len(pol.rules) /\ rules = pol.rules /\ DOMAIN rules = 1 .. n
  BY PolicyIs
<1>2. /\ a \in [0 .. n -> Accs] /\ a[0] = Fresh(text)
      /\ \A k \in 1 .. n : a[k] = RunRule(pol, a[k - 1], rules[k], f)
  BY <1>1 DEF Chain
<1> DEFINE Good(k) == Succeeds(a[k]) => CleanUpTo(rules, f, k, text, a[k].text)
           Bad == {k \in 0 .. n : ~Good(k)}
<1>3. Good(0)
  <2>1. a[0].text = text
    BY <1>2 DEF Fresh
  <2> QED BY <2>1 DEF CleanUpTo, PartOk, Kept
<1>4. ASSUME NEW h \in 0 .. n, NEW k \in 1 .. n, k = h + 1, Good(h) PROVE Good(k)
  <2>1. h \in Nat /\ k - 1 = h /\ k \in 0 .. n /\ k \in DOMAIN rules
    BY <1>1, <1>4
  <2>2. a[h] \in Accs /\ a[k] = RunRule(pol, a[h], rules[k], f)
    BY <1>2, <2>1
  <2>3. rules[k] \in Rules /\ <<>> \notin rules[k].re
    BY <1>1, PolicyIs
  <2>6. PICK x \in Accs, rule \in Rules : x = a[h] /\ rule = rules[k] /\ <<>> \notin rule.re
    BY <2>2, <2>3
  <2>4. PICK y : y = a[k] /\ y = RunRule(pol, x, rule, f)
    BY <2>2, <2>6
  <2>5. ASSUME Succeeds(y) PROVE CleanUpTo(rules, f, k, text, y.text)
    <3>1. y \in Accs /\ Succeeds(x) /\ Turns(rule, f, x.text, y.text) /\ (Applies(rule, f) => Clean(rule, y.text))
      BY <2>4, <2>5, <2>6, RunRuleIs
    <3>2. PICK old \in Texts, new \in Texts : old = x.text /\ new = y.text
      BY <3>1 DEF Accs
    <3>3. CleanUpTo(rules, f, h, text, old)
      BY <1>4, <2>4, <2>6, <3>1, <3>2
    <3>4. Turns(rules[k], f, old, new) /\ (Applies(rules[k], f) => Clean(rules[k], new))
      BY <2>4, <2>6, <3>1, <3>2
    <3>5. CleanUpTo(rules, f, k, text, new)
      BY <1>4, <2>1, <3>3, <3>4, StaysClean
    <3> QED BY <3>2, <3>5
  <2> QED BY <2>4, <2>5
<1>5. ASSUME Bad # {} PROVE FALSE
  <2>1. Bad \in SUBSET Nat
    <3>1. 0 .. n \subseteq Nat
      OBVIOUS
    <3> QED BY <3>1
  <2> HIDE DEF Bad, Good
  <2>2. PICK k \in Bad : \A j \in Bad : k <= j
    BY <1>5, <2>1, Least
  <2>3. k \in 0 .. n /\ ~Good(k)
    BY DEF Bad
  <2>7. k # 0
    BY <1>3, <2>3
  <2>4. PICK h \in 0 .. n : k = h + 1 /\ k \in 1 .. n /\ ~(k <= h)
    <3>1. k - 1 \in 0 .. n /\ k = (k - 1) + 1 /\ k \in 1 .. n /\ ~(k <= k - 1)
      BY <2>3, <2>7
    <3> QED BY <3>1
  <2>5. h \notin Bad
    BY <2>2, <2>4
  <2>6. Good(h)
    BY <2>4, <2>5 DEF Bad
  <2> QED BY <1>4, <2>3, <2>4, <2>6
<1> HIDE DEF Good
<1>6. \A k \in 0 .. n : Good(k)
  BY <1>5
<1> QED BY <1>1, <1>6 DEF Good

(* A text through all the rules. *)
LEMMA RunRulesIs ==
    ASSUME NEW pol \in Policies, NEW f \in STRING, NEW text \in Texts,
           NEW out, out = RunRules(pol, f, text)
    PROVE  /\ out \in Accs
           /\ Succeeds(out) => CleanUpTo(pol.rules, f, Len(pol.rules), text, out.text)
<1>1. PICK a : Chain(pol, f, text, a) /\ out = a[Len(pol.rules)]
  BY RulesInTurn
<1>2. Len(pol.rules) \in 0 .. Len(pol.rules)
  BY PolicyIs
<1> QED BY <1>1, <1>2, RulesClean DEF Chain

-----------------------------
(* What the live pass leaves. *)

LEMMA GivenIs ==
    ASSUME PreviewInv, NEW n \in DOMAIN Fields
    PROVE  policy \in Policies /\ Fields[n] \in STRING /\ given[Fields[n]] \in Texts
<1>1. policy \in Policies /\ given \in [Range(Fields) -> Texts]
  BY RedactionAssumption DEF PreviewInv, ModeInv
<1>2. Fields[n] \in STRING /\ Fields[n] \in Range(Fields)
  BY RedactionAssumption DEF Range
<1> QED BY <1>1, <1>2

(* A field that is not blank and not denied has been through every rule. *)
LEMMA FieldLeft ==
    ASSUME PreviewInv, policy.detector = "none", phase \in {"redacted", "kept"}, NEW n \in DOMAIN Fields
    PROVE  \/ body.episode[Fields[n]] = Nothing
           \/ \E out \in Accs : /\ out = RunRules(policy, Fields[n], given[Fields[n]]) /\ Succeeds(out)
                               /\ body.episode[Fields[n]] = out.text
<1>1. Fine(n) /\ body.episode[Fields[n]] = TextOf(n)
  BY DEF PreviewInv, ToldInv, AllFine
<1>2. CASE Blank(n)
  BY <1>1, <1>2 DEF TextOf
<1>3. CASE ~Blank(n) /\ Denied(policy, Fields[n])
  BY <1>1, <1>3 DEF TextOf, Out, ApplyField
<1>4. CASE ~Blank(n) /\ ~Denied(policy, Fields[n])
  <2>1. PICK out : out = RunRules(policy, Fields[n], given[Fields[n]])
    OBVIOUS
  <2>2. out \in Accs
    BY <2>1, GivenIs, RunRulesIs
  <2>3. ~Asked(policy, out)
    BY DEF Asked
  <2>4. Out(n) = out
    BY <1>4, <2>1, <2>3 DEF Out, ApplyField
  <2>5. out.ok /\ out.ok \in BOOLEAN /\ body.episode[Fields[n]] = out.text
    BY <1>1, <1>4, <2>2, <2>4 DEF Fine, TextOf, Accs
  <2>6. Succeeds(out)
    BY <2>5 DEF Succeeds
  <2> QED BY <2>1, <2>2, <2>5, <2>6
<1> QED BY <1>2, <1>3, <1>4

(* Without a detector there is nothing it did. *)
NoneDetected == policy.detector = "none" => detected = <<>>

LEMMA NoneDetectedHolds == Spec => []NoneDetected
<1>1. Init => NoneDetected
  BY DEF Init, NoneDetected
<1>2. NoneDetected /\ [Next]_vars => NoneDetected'
  <2> SUFFICES ASSUME NoneDetected, [Next]_vars PROVE NoneDetected'
    OBVIOUS
  <2>1. CASE Process \/ Preview \/ DryRun \/ SkipField \/ Extract \/ UNCHANGED vars
             \/ (\E atom \in RawKeys : Post(atom))
    BY <2>1 DEF NoneDetected, Process, Preview, DryRun, OnSample, Begin, SkipField, Extract, Post, vars
  <2>2. CASE End
    BY <2>2 DEF NoneDetected, End, Return
  <2>3. ASSUME NEW answer, NextField(answer) PROVE NoneDetected'
    <3>4. PICK pol, ruled, out :
            /\ pol = PolicyFor(pass.mode)
            /\ ruled = RunRules(pol, Fields[pass.at], body[Target(pass.mode)][Fields[pass.at]])
            /\ out = ApplyField(pol, Fields[pass.at], body[Target(pass.mode)][Fields[pass.at]], answer)
      OBVIOUS
    <3>5. ASSUME out.ok, detected' # <<>>
          PROVE  pass.mode = "live" /\ PolicyFor(pass.mode).detector # "none"
      <4>1. ~(pass.mode = "live" /\ Asked(pol, ruled)) => detected' = <<>>
        BY <2>3, <3>4, <3>5 DEF NextField
      <4> QED BY <3>4, <3>5, <4>1 DEF Asked
    <3>6. ASSUME ~out.ok PROVE detected' = <<>>
      BY <2>3, <3>4, <3>6 DEF NextField, Return
    <3>1. detected' # <<>> => pass.mode = "live" /\ PolicyFor(pass.mode).detector # "none"
      BY <3>5, <3>6
    <3>2. policy' = policy
      BY <2>3 DEF NextField
    <3> QED BY <3>1, <3>2 DEF NoneDetected, PolicyFor
  <2> QED BY <2>1, <2>2, <2>3 DEF Next
<1> QED BY <1>1, <1>2, PTL DEF Spec

LEMMA AllRulesApplied ==
    ASSUME PreviewInv, policy.detector = "none", phase \in {"redacted", "kept"}
    PROVE  RulesApplied
<1> SUFFICES ASSUME NEW f \in Range(Fields), NEW k \in DOMAIN policy.rules, Applies(policy.rules[k], f),
                    NEW text, text = body.episode[f], NEW p \in Range(text.parts)
             PROVE  \/ CleanPart(policy.rules[k], text, p)
                    \/ OnText(policy.rules[k]) /\ WrittenAnew(f, k, p)
  BY Zenon DEF RulesApplied, CleanPart, OnText
<1>1. PICK n \in DOMAIN Fields : Fields[n] = f
  BY DEF Range
<1>2. PICK i \in DOMAIN text.parts : p = text.parts[i]
  BY DEF Range
<1>3. text # Nothing
  <2>1. ASSUME text = Nothing PROVE FALSE
    BY <1>2, <2>1 DEF Nothing
  <2> QED BY <2>1
<1>4. PICK out \in Accs : /\ out = RunRules(policy, f, given[f]) /\ Succeeds(out) /\ text = out.text
  BY <1>1, <1>3, FieldLeft
<1>5. policy \in Policies /\ f \in STRING /\ given[f] \in Texts
  BY <1>1, GivenIs
<1>13. PICK first \in Texts : first = given[f]
  BY <1>5
<1>15. PICK rules : rules = policy.rules
  OBVIOUS
<1>14. PICK N \in Nat : N = Len(rules) /\ DOMAIN rules = 1 .. N
  BY <1>5, <1>15, PolicyIs
<1>6. N = Len(policy.rules) /\ rules = policy.rules /\ first = given[f] /\ DOMAIN rules = 1 .. N
  BY <1>13, <1>14, <1>15
<1>7. CleanUpTo(rules, f, N, first, text)
  BY <1>4, <1>5, <1>6, RunRulesIs
<1>8. k \in 1 .. N
  BY <1>6
<1>9. PICK o : o = first.parts[i] /\ i \in DOMAIN first.parts /\ PartOk(rules, f, N, o, text, p)
  BY <1>2, <1>7 DEF CleanUpTo
<1>10. CleanAt(rules, f, k, N, o, text, p)
  BY <1>6, <1>8, <1>9 DEF PartOk
<1>11. CASE CleanPart(rules[k], text, p)
  BY <1>6, <1>11
<1>12. CASE OnText(rules[k]) /\ Anew(rules, f, k, N, o, p)
  <2>1. o \in Range(first.parts)
    BY <1>9 DEF Range
  <2>2. WrittenAnew(f, k, p)
    BY <1>6, <1>12, <2>1, Zenon DEF Anew, WrittenAnew, OnText
  <2> QED BY <1>6, <1>12, <2>2
<1> QED BY <1>10, <1>11, <1>12 DEF CleanAt

\* An episode that leaves the redactor is redacted (redact.go, Process): for every policy
\* without a detector, every text and any number of rules, no rule for a field finds a plain
\* word in it, although the rules after it rewrote the text once more; but for a word that a
\* later path rule, which encodes the whole document again, wrote otherwise than it came.
THEOREM EpisodesAreRedacted == Spec => [](policy.detector = "none" => FullyRedacted)
<1>1. PreviewInv /\ NoneDetected => (policy.detector = "none" => FullyRedacted)
  BY AllRulesApplied DEF NoneDetected, FullyRedacted, DetectionApplied
<1> QED BY <1>1, PreviewInvHolds, NoneDetectedHolds, PTL

-----------------------------------------------------------------------------
(* The key of an outcome, through the rules in turn. *)

KeyAccs == [ok : BOOLEAN, atom : Atoms]

LEMMA KeyRuleIs ==
    ASSUME NEW pol, NEW acc \in KeyAccs, NEW rule \in Rules
    PROVE  KeyRule(pol, acc, rule) \in KeyAccs
<1>1. acc.atom \in Atoms /\ acc.ok \in BOOLEAN
  BY DEF KeyAccs
<1>2. PICK new \in Atoms : new = Replacement(rule, acc.atom)
  BY <1>1, ReplacementIs
<1>3. [acc EXCEPT !.ok = FALSE] \in KeyAccs /\ [acc EXCEPT !.atom = new] \in KeyAccs
  BY DEF KeyAccs
<1> QED BY <1>2, <1>3 DEF KeyRule

KeyChain(pol, atom, b) ==
    /\ b[0] = [ok |-> TRUE, atom |-> atom]
    /\ \A k \in 1 .. Len(pol.rules) : b[k] = KeyRule(pol, b[k - 1], pol.rules[k])

LEMMA KeyInTurn ==
    ASSUME NEW pol \in Policies, NEW atom \in Atoms
    PROVE  \E b : KeyChain(pol, atom, b) /\ TransformKey(pol, atom) = b[Len(pol.rules)]
<1>1. PICK n \in Nat, rules \in Seq(Rules) : n = Len(pol.rules) /\ rules = pol.rules /\ DOMAIN rules = 1 .. n
  BY PolicyIs
<1> DEFINE D == 1 .. n
           F == [x \in D \X KeyAccs |-> KeyRule(pol, x[2], rules[x[1]])]
           ch == [s \in SUBSET D |-> Max(s)]
           start == [ok |-> TRUE, atom |-> atom]
<1>2. IsFiniteSet(D)
  BY FS_Interval
<1>3. F \in [D \X KeyAccs -> KeyAccs]
  <2>1. ASSUME NEW x \in D \X KeyAccs PROVE KeyRule(pol, x[2], rules[x[1]]) \in KeyAccs
    <3>1. PICK acc \in KeyAccs, rule \in Rules : acc = x[2] /\ rule = rules[x[1]]
      BY <1>1, PolicyIs
    <3>2. KeyRule(pol, acc, rule) \in KeyAccs
      BY <3>1, KeyRuleIs
    <3> QED BY <3>1, <3>2
  <2> QED BY <2>1
<1>4. start \in KeyAccs
  BY DEF KeyAccs
<1>5. \A s \in SUBSET D : s # {} => ch[s] \in s
  BY MaxIs
<1> HIDE DEF F, ch, start
<1>7. PICK g \in [SUBSET D -> KeyAccs] : IsFold(g, SUBSET D, start, F, ch)
  BY <1>2, <1>3, <1>4, <1>5, FoldExists
<1> DEFINE Passes(h) == h = [s \in SUBSET DOMAIN rules |->
             IF s = {} THEN start ELSE KeyRule(pol, h[s \ {Max(s)}], rules[Max(s)])]
<1>8. ASSUME NEW s \in SUBSET D
      PROVE  g[s] = IF s = {} THEN start ELSE KeyRule(pol, g[s \ {Max(s)}], rules[Max(s)])
  <2>1. CASE s = {}
    BY <1>7, <2>1 DEF IsFold
  <2>2. CASE s # {}
    <3>1. g[s] = F[<<ch[s], g[s \ {ch[s]}]>>] /\ ch[s] = Max(s)
      BY <1>7, <2>2 DEF IsFold, ch
    <3>2. PICK m \in D, y \in KeyAccs : m = Max(s) /\ y = g[s \ {m}]
      BY <2>2, MaxIs
    <3>3. F[<<m, y>>] = KeyRule(pol, y, rules[m])
      BY DEF F
    <3> QED BY <2>2, <3>1, <3>2, <3>3
  <2> QED BY <2>1, <2>2
<1>9. Passes(g)
  BY <1>1, <1>8
<1>10. PICK h : h = CHOOSE k : Passes(k)
  OBVIOUS
<1>11. TransformKey(pol, atom) = h[DOMAIN rules]
  BY <1>1, <1>10, Zenon DEF TransformKey, FoldLeft, MapThenFoldSet, start
<1> HIDE DEF Passes
<1>12. Passes(h)
  BY <1>9, <1>10
<1>13. PICK b : b = [k \in 0 .. n |-> h[1 .. k]]
  OBVIOUS
<1>14. b[0] = start /\ b[n] = h[DOMAIN rules]
  <2>1. 1 .. 0 = {} /\ 0 \in 0 .. n /\ n \in 0 .. n
    OBVIOUS
  <2>2. h[{}] = start
    BY <1>12 DEF Passes
  <2> QED BY <1>1, <1>13, <2>1, <2>2
<1>15. ASSUME NEW k \in 1 .. n PROVE b[k] = KeyRule(pol, b[k - 1], rules[k])
  <2>6. 1 .. k \in SUBSET D /\ k \in 1 .. k
    OBVIOUS
  <2>7. (1 .. k) \ {k} = 1 .. k - 1
    OBVIOUS
  <2>1. PICK s \in SUBSET D : s = 1 .. k /\ s # {} /\ k \in s /\ s \ {k} = 1 .. k - 1
    BY <2>6, <2>7
  <2>2. PICK m \in s : m = Max(s) /\ \A y \in s : y <= m
    BY <2>1, MaxIs
  <2>3. m = k
    BY <2>1, <2>2
  <2>4. h[s] = KeyRule(pol, h[s \ {Max(s)}], rules[Max(s)])
    BY <1>1, <1>12, <2>1 DEF Passes
  <2>5. k \in 0 .. n /\ k - 1 \in 0 .. n
    OBVIOUS
  <2> QED BY <1>13, <2>1, <2>2, <2>3, <2>4, <2>5
<1>16. KeyChain(pol, atom, b)
  BY <1>1, <1>14, <1>15 DEF KeyChain, start
<1> QED BY <1>1, <1>11, <1>14, <1>16

(* Once the last rule has succeeded on JSON, every one did. *)
LEMMA ChainBackwards ==
    ASSUME NEW pol \in Policies, NEW f \in STRING, NEW text \in Texts, NEW a, Chain(pol, f, text, a),
           Succeeds(a[Len(pol.rules)]), a[Len(pol.rules)].text.json = TRUE
    PROVE  \A k \in 0 .. Len(pol.rules) : Succeeds(a[k]) /\ a[k].text.json = TRUE
<1>1. PICK n \in Nat, rules \in Seq(Rules) : n = Len(pol.rules) /\ rules = pol.rules /\ DOMAIN rules = 1 .. n
  BY PolicyIs
<1> DEFINE Good(k) == Succeeds(a[k]) /\ a[k].text.json = TRUE
           Bad == {j \in 0 .. n : ~Good(n - j)}
<1>2. ASSUME Bad # {} PROVE FALSE
  <2>1. Bad \in SUBSET Nat
    <3>1. 0 .. n \subseteq Nat
      OBVIOUS
    <3> QED BY <3>1
  <2> HIDE DEF Bad
  <2>2. PICK j \in Bad : \A i \in Bad : j <= i
    BY <1>2, <2>1, Least
  <2>3. j \in 0 .. n /\ ~Good(n - j)
    BY DEF Bad
  <2>4. Good(n)
    BY <1>1
  <2>5. j # 0
    BY <2>3, <2>4
  <2>6. PICK k \in 1 .. n : k = n - (j - 1) /\ k - 1 = n - j /\ j - 1 \in 0 .. n /\ j \in Nat
    BY <2>3, <2>5
  <2>7. Good(k)
    <3>1. ~(j <= j - 1)
      BY <2>6
    <3>2. j - 1 \notin Bad
      BY <2>2, <3>1
    <3> QED BY <2>6, <3>2 DEF Bad
  <2>8. k - 1 \in 0 .. n /\ k \in 0 .. n
    BY <2>6
  <2>9. /\ a[k - 1] \in Accs /\ a[k] \in Accs
        /\ a[k] = RunRule(pol, a[k - 1], rules[k], f)
    <3>1. /\ a \in [0 .. n -> Accs]
          /\ \A i \in 1 .. n : a[i] = RunRule(pol, a[i - 1], rules[i], f)
      BY <1>1 DEF Chain
    <3> QED BY <2>6, <2>8, <3>1
  <2>10. rules[k] \in Rules /\ <<>> \notin rules[k].re
    BY <1>1, PolicyIs
  <2>11. PICK acc \in Accs, out \in Accs, rule \in Rules :
           /\ acc = a[k - 1] /\ out = a[k] /\ rule = rules[k] /\ <<>> \notin rule.re
           /\ out = RunRule(pol, acc, rule, f)
    BY <2>9, <2>10
  <2>12. Succeeds(acc) /\ Turns(rule, f, acc.text, out.text)
    BY <2>7, <2>11, RunRuleIs
  <2>13. acc.text.json \in BOOLEAN
    BY DEF Accs, Texts
  <2>14. acc.text.json = TRUE
    BY <2>7, <2>11, <2>12, <2>13 DEF Turns
  <2> QED BY <2>3, <2>6, <2>11, <2>12, <2>14
<1>3. ASSUME NEW k \in 0 .. n PROVE Good(k)
  <2>1. n - k \in 0 .. n /\ n - (n - k) = k
    OBVIOUS
  <2>2. n - k \notin Bad
    BY <1>2
  <2> QED BY <2>1, <2>2
<1> QED BY <1>1, <1>3

(* The part at the key's node and the outcome's key go through the rules side by side. *)
SameKey(acc, b, i) == b.ok = TRUE /\ b.atom = acc.text.parts[i].atom

(* The key is written as it is; it stays so because no path rule encodes it, or none can tell. *)
KeyPart(old, acc, i, pathless) ==
    /\ i \in DOMAIN acc.text.parts /\ acc.text.parts[i].node = KeyNode
    /\ acc.text.parts[i].atom = <<>> <=> old.parts[i].atom = <<>>
    /\ acc.text.parts[i].form = "plain"
    /\ pathless \/ acc.text.parts[i].atom \notin Special

Untouched(rule) == rule.fields = {} /\ IF OnText(rule) THEN rule.where # "alone" ELSE rule.path # KeyNode

RuleStep(pol, f, rule, acc, out, pathless) ==
    /\ rule \in Rules /\ <<>> \notin rule.re /\ Untouched(rule) /\ (pathless => OnText(rule))
    /\ acc \in Accs /\ out \in Accs /\ Succeeds(acc) /\ Succeeds(out) /\ out.text.json = TRUE
    /\ out = RunRule(pol, acc, rule, f)

Paired(old, acc, b, i, pathless) == b \in KeyAccs /\ SameKey(acc, b, i) /\ KeyPart(old, acc, i, pathless)

LEMMA HiddenIsNotSpecial ==
    ASSUME NEW atom, Hidden(atom)
    PROVE  atom \notin Special
<1>1. ASSUME atom \in Special PROVE FALSE
  <2>1. PICK w \in Words : atom = <<w>>
    BY <1>1, RedactionAssumption
  <2>2. Len(<<w>>) = 1
    OBVIOUS
  <2> QED BY <2>1, <2>2 DEF Hidden
<1> QED BY <1>1

(* A rule that is not anchored finds a key written as it is in both, or in neither. *)
LEMMA FoundInBoth ==
    ASSUME NEW rule \in Rules, rule.where # "alone", NEW text, NEW p \in Parts, p.form = "plain",
           Finds(rule, text, p) => rule.where # "within"
    PROVE  Finds(rule, text, p) <=> FindsAlone(rule, p.atom)
<1>1. rule.where \in {"any", "alone", "within"}
  BY DEF Rules
<1>2. Written(p) = p.atom
  BY DEF Written
<1> QED BY <1>1, <1>2 DEF Finds, FindsAlone

LEMMA OneRuleForBoth ==
    ASSUME NEW pol, NEW f \in STRING, NEW rule, NEW acc, NEW out, NEW pathless \in BOOLEAN,
           RuleStep(pol, f, rule, acc, out, pathless),
           NEW old, NEW b, NEW i, Paired(old, acc, b, i, pathless)
    PROVE  Paired(old, out, KeyRule(pol, b, rule), i, pathless)
<1> SUFFICES ASSUME rule \in Rules, <<>> \notin rule.re, Untouched(rule), pathless => OnText(rule),
                    acc \in Accs, out \in Accs, Succeeds(acc), Succeeds(out), out = RunRule(pol, acc, rule, f),
                    out.text.json = TRUE,
                    b \in KeyAccs, SameKey(acc, b, i), KeyPart(old, acc, i, pathless),
                    NEW c, c = KeyRule(pol, b, rule)
             PROVE  SameKey(out, c, i) /\ KeyPart(old, out, i, pathless) /\ c \in KeyAccs
  BY DEF RuleStep, Paired
<1>0. c \in KeyAccs
  BY KeyRuleIs
<1>1. PICK was \in Texts, is \in Texts : was = acc.text /\ is = out.text
  BY DEF Accs
<1>2. PICK p \in Parts : /\ p = was.parts[i] /\ p.node = KeyNode /\ p.atom \in Atoms /\ i \in DOMAIN was.parts
                        /\ p.form = "plain" /\ (pathless \/ p.atom \notin Special)
  BY <1>1, TextIs DEF KeyPart
<1>3. b.ok = TRUE /\ b.atom = p.atom
  BY <1>1, <1>2 DEF SameKey
<1>4. Applies(rule, f)
  BY DEF Untouched, Applies
<1>5. CASE OnText(rule)
  <2>1. out = RegexRule(pol, acc, rule, f)
    BY <1>4, <1>5, Zenon DEF RunRule, Applies, Succeeds, OnText
  <2>2. RegexStep(pol, rule, was, is)
    BY <1>1, <2>1, RegexRuleIs
  <2>3. /\ i \in DOMAIN is.parts /\ is.parts[i] = Rewritten(rule, was, p)
        /\ Finds(rule, was, p) => ~Refuses(pol, rule) /\ rule.where # "within"
    BY <1>1, <1>2, <2>2 DEF RegexStep
  <2>6. Finds(rule, was, p) <=> FindsAlone(rule, p.atom)
    BY <1>2, <1>5, <2>3, FoundInBoth DEF Untouched
  <2>4. CASE Finds(rule, was, p)
    <3>1. PICK new \in Atoms : new = Replacement(rule, p.atom) /\ new # <<>>
      BY <1>2, ReplacementIs
    <3>2. Written(p) = p.atom
      BY <1>2, WrittenIs
    <3>3. /\ is.parts[i].node = KeyNode /\ is.parts[i].atom = new /\ is.parts[i].form = "plain"
          /\ Hidden(new)
      BY <1>2, <2>3, <2>4, <3>1, <3>2, RewrittenIs
    <3>4. c = [b EXCEPT !.atom = new]
      BY <1>3, <1>5, <2>3, <2>4, <2>6, <3>1, Zenon DEF KeyRule, OnText
    <3>5. c.ok = TRUE /\ c.atom = new
      BY <1>3, <3>4 DEF KeyAccs
    <3>6. p.atom # <<>>
      BY <2>4, <3>2 DEF Finds
    <3>7. old.parts[i].atom # <<>>
      BY <1>1, <1>2, <3>6 DEF KeyPart
    <3>8. SameKey(out, c, i)
      BY <1>1, <3>3, <3>5 DEF SameKey
    <3>10. new \notin Special
      BY <3>3, HiddenIsNotSpecial
    <3>9. KeyPart(old, out, i, pathless)
      BY <1>1, <2>3, <3>1, <3>3, <3>7, <3>10 DEF KeyPart
    <3> QED BY <1>0, <3>8, <3>9
  <2>5. CASE ~Finds(rule, was, p)
    <3>1. is.parts[i] = p
      BY <2>3, <2>5 DEF Rewritten
    <3>2. c = b
      BY <1>3, <2>5, <2>6 DEF KeyRule
    <3>3. SameKey(out, c, i)
      BY <1>1, <1>3, <3>1, <3>2 DEF SameKey
    <3>4. KeyPart(old, out, i, pathless)
      BY <1>1, <1>2, <2>3, <3>1 DEF KeyPart
    <3> QED BY <1>0, <3>3, <3>4
  <2> QED BY <2>4, <2>5
<1>6. CASE ~OnText(rule)
  <2>1. out = PathRule(pol, acc, rule, f)
    BY <1>4, <1>6, Zenon DEF RunRule, Applies, Succeeds, OnText
  <2>2. PathStep(rule, was, is)
    BY <1>1, <2>1, PathRuleIs
  <2>3. i \notin Found(rule, was)
    BY <1>2, <1>6 DEF Found, Untouched
  <2>8. Encoded(p) = p
    <3>1. Encoded(p).form = p.form
      BY <1>2, <1>6, EncodedIs
    <3> QED BY <3>1, EncodedIs
  <2>4. i \in DOMAIN is.parts /\ is.parts[i] = p
    <3>1. CASE PathHits(rule, was) = {}
      BY <1>2, <2>2, <3>1 DEF PathStep
    <3>2. CASE PathHits(rule, was) # {}
      <4>1. is = PathText(rule, was)
        BY <2>2, <3>2 DEF PathStep
      <4>2. i \in DOMAIN is.parts /\ is.parts[i] = PathPart(rule, was, i)
        BY <1>2, <3>2, <4>1, PathTextIs
      <4> QED BY <1>2, <2>3, <2>8, <4>2 DEF PathPart
    <3> QED BY <3>1, <3>2
  <2>5. c = b
    BY <1>3, <1>6, Zenon DEF KeyRule, OnText
  <2>6. SameKey(out, c, i)
    BY <1>1, <1>3, <2>4, <2>5 DEF SameKey
  <2>7. KeyPart(old, out, i, pathless)
    BY <1>1, <1>2, <2>4 DEF KeyPart
  <2> QED BY <1>0, <2>6, <2>7
<1> QED BY <1>5, <1>6

AllUntouched(pol) == \A j \in DOMAIN pol.rules : Untouched(pol.rules[j])

Pathless(pol) == \A j \in DOMAIN pol.rules : OnText(pol.rules[j])

AtKey(pol, text, i) ==
    /\ i \in DOMAIN text.parts /\ text.parts[i].node = KeyNode /\ text.parts[i].form = "plain"
    /\ Pathless(pol) \/ text.parts[i].atom \notin Special

Alike(pol, text, out, i) ==
    /\ text.json = TRUE
    /\ TransformKey(pol, text.parts[i].atom).atom = out.text.parts[i].atom
    /\ KeyPart(text, out, i, Pathless(pol))

LEMMA KeysGoTogether ==
    ASSUME NEW pol \in Policies, AllUntouched(pol),
           NEW f \in STRING, NEW text \in Texts, NEW out, out = RunRules(pol, f, text),
           Succeeds(out), out.text.json = TRUE, NEW i, AtKey(pol, text, i)
    PROVE  Alike(pol, text, out, i)
<1>15. PICK pathless \in BOOLEAN : pathless = Pathless(pol)
  BY DEF Pathless
<1>0. /\ i \in DOMAIN text.parts /\ text.parts[i].node = KeyNode /\ text.parts[i].form = "plain"
      /\ pathless \/ text.parts[i].atom \notin Special
  BY <1>15 DEF AtKey
<1>1. PICK n \in Nat, rules \in Seq(Rules) : n = Len(pol.rules) /\ rules = pol.rules /\ DOMAIN rules = 1 .. n
  BY PolicyIs
<1>2. PICK a : Chain(pol, f, text, a) /\ out = a[n]
  BY <1>1, RulesInTurn
<1>3. PICK raw \in Atoms : raw = text.parts[i].atom
  BY <1>0, TextIs
<1>4. PICK b : KeyChain(pol, raw, b) /\ TransformKey(pol, raw) = b[n]
  BY <1>1, KeyInTurn
<1>5. \A k \in 0 .. n : Succeeds(a[k]) /\ a[k].text.json = TRUE
  BY <1>1, <1>2, ChainBackwards
<1>6. /\ a \in [0 .. n -> Accs] /\ a[0] = Fresh(text)
      /\ \A k \in 1 .. n : a[k] = RunRule(pol, a[k - 1], rules[k], f)
  BY <1>1, <1>2 DEF Chain
<1>7. /\ b[0] = [ok |-> TRUE, atom |-> raw]
      /\ \A k \in 1 .. n : b[k] = KeyRule(pol, b[k - 1], rules[k])
  BY <1>1, <1>4 DEF KeyChain
<1>8. a[0].text = text
  BY <1>6 DEF Fresh
<1> DEFINE Good(k) == Paired(text, a[k], b[k], i, pathless)
           Bad == {k \in 0 .. n : ~Good(k)}
<1>9. Good(0)
  <2>1. b[0] \in KeyAccs /\ b[0].ok = TRUE /\ b[0].atom = raw
    BY <1>7 DEF KeyAccs
  <2>2. SameKey(a[0], b[0], i)
    BY <1>3, <1>8, <2>1 DEF SameKey
  <2>3. KeyPart(text, a[0], i, pathless)
    BY <1>0, <1>8 DEF KeyPart
  <2> QED BY <2>1, <2>2, <2>3 DEF Paired
<1>10. ASSUME NEW k \in 1 .. n, Good(k - 1) PROVE Good(k)
  <2>1. k - 1 \in 0 .. n /\ k \in 0 .. n
    OBVIOUS
  <2>2. /\ a[k - 1] \in Accs /\ a[k] \in Accs /\ a[k] = RunRule(pol, a[k - 1], rules[k], f)
        /\ Succeeds(a[k - 1]) /\ Succeeds(a[k]) /\ a[k].text.json = TRUE /\ b[k] = KeyRule(pol, b[k - 1], rules[k])
    BY <1>5, <1>6, <1>7, <2>1
  <2>3. /\ rules[k] \in Rules /\ <<>> \notin rules[k].re /\ Untouched(rules[k])
        /\ pathless => OnText(rules[k])
    BY <1>1, <1>15, PolicyIs DEF AllUntouched, Pathless
  <2>4. RuleStep(pol, f, rules[k], a[k - 1], a[k], pathless)
    BY <2>2, <2>3 DEF RuleStep
  <2>5. PICK x, y, u, rule : x = a[k - 1] /\ y = a[k] /\ u = b[k - 1] /\ rule = rules[k]
    OBVIOUS
  <2>6. Paired(text, y, KeyRule(pol, u, rule), i, pathless)
    BY <1>10, <2>4, <2>5, OneRuleForBoth
  <2> QED BY <2>2, <2>5, <2>6
<1>11. ASSUME Bad # {} PROVE FALSE
  <2>1. Bad \in SUBSET Nat
    <3>1. 0 .. n \subseteq Nat
      OBVIOUS
    <3> QED BY <3>1
  <2> HIDE DEF Bad, Good
  <2>2. PICK k \in Bad : \A j \in Bad : k <= j
    BY <1>11, <2>1, Least
  <2>3. k \in 0 .. n /\ ~Good(k)
    BY DEF Bad
  <2>4. k \in 1 .. n /\ k - 1 \in 0 .. n /\ ~(k <= k - 1)
    BY <1>9, <2>3
  <2>5. k - 1 \notin Bad
    BY <2>2, <2>4
  <2>6. Good(k - 1)
    BY <2>4, <2>5 DEF Bad
  <2> QED BY <1>10, <2>3, <2>4, <2>6
<1>12. Good(n)
  <2>1. n \in 0 .. n
    OBVIOUS
  <2> QED BY <1>11, <2>1
<1>13. text.json = TRUE
  <2>1. 0 \in 0 .. n
    OBVIOUS
  <2> QED BY <1>5, <1>8, <2>1
<1>14. SameKey(out, TransformKey(pol, raw), i) /\ KeyPart(text, out, i, pathless)
  BY <1>2, <1>4, <1>12 DEF Paired
<1> QED BY <1>3, <1>13, <1>14, <1>15 DEF SameKey, Alike

(* A stored key is what the policy makes of the one that was posted. *)
PostedInv == \A o \in posted : o.key = TransformKey(global, o.raw).atom

LEMMA PostedInvHolds == Spec => []PostedInv
<1>1. Init => PostedInv
  BY DEF Init, PostedInv
<1>2. PostedInv /\ [Next]_vars => PostedInv'
  <2> SUFFICES ASSUME PostedInv, [Next]_vars PROVE PostedInv'
    OBVIOUS
  <2>1. CASE Process \/ Preview \/ DryRun \/ SkipField \/ Extract \/ End \/ UNCHANGED vars
             \/ (\E answer \in Replies : NextField(answer))
    <3>1. UNCHANGED <<global, posted>>
      BY <2>1 DEF Process, Preview, DryRun, OnSample, Begin, SkipField, Extract, End, NextField, vars
    <3> QED BY <3>1 DEF PostedInv
  <2>2. ASSUME NEW atom, Post(atom) PROVE PostedInv'
    <3>1. PICK key : key = TransformKey(global, atom).atom
      OBVIOUS
    <3>2. global' = global /\ posted' = posted \cup {[raw |-> atom, key |-> key]}
      BY <2>2, <3>1 DEF Post
    <3> QED BY <3>1, <3>2 DEF PostedInv
  <2> QED BY <2>1, <2>2 DEF Next
<1> QED BY <1>1, <1>2, PTL DEF Spec

LEMMA KeyIsAtNode ==
    ASSUME NEW text, NEW k \in KeysIn(text)
    PROVE  \E i \in DOMAIN text.parts : /\ text.json /\ text.parts[i].node = KeyNode
                                        /\ text.parts[i].atom = k /\ k # <<>>
BY DEF KeysIn, Range

LEMMA NodeHasKey ==
    ASSUME NEW text, text.json, NEW i \in DOMAIN text.parts, text.parts[i].node = KeyNode,
           text.parts[i].atom # <<>>
    PROVE  text.parts[i].atom \in KeysIn(text)
BY DEF KeysIn, Range

LEMMA KeysDoMeet ==
    ASSUME PreviewInv, PostedInv
    PROVE  KeysMeet
<1> SUFFICES ASSUME phase = "kept", global = policy, NEW f \in Content, OnlyRegex(f), KeysUnescaped(f)
             PROVE  /\ \A o \in posted : o.raw \in KeysIn(given[f]) => o.key \in keys
                    /\ \A k \in KeysIn(body.episode[f]) :
                          \E raw \in KeysIn(given[f]) : TransformKey(policy, raw).atom = k
  BY DEF KeysMeet
<1>1. PICK n \in DOMAIN Fields : Fields[n] = f
  BY FieldOf, RedactionAssumption
<1>2. policy.detector = "none" /\ body.episode[f].json
  BY DEF OnlyRegex
<1>3. body.episode[f] # Nothing
  BY <1>2 DEF Nothing
<1>4. policy \in Policies /\ f \in STRING /\ given[f] \in Texts
  BY <1>1, GivenIs
<1>5. PICK out \in Accs : out = RunRules(policy, f, given[f]) /\ Succeeds(out) /\ body.episode[f] = out.text
  BY <1>1, <1>2, <1>3, FieldLeft
<1>6. PICK old \in Texts, new \in Texts : old = given[f] /\ new = out.text
  BY <1>4, <1>5 DEF Accs
<1>7. new.json = TRUE
  BY <1>2, <1>5, <1>6, TextIs
<1>8. \A j \in DOMAIN policy.rules : Untouched(policy.rules[j])
  BY Zenon DEF OnlyRegex, Untouched, OnText
<1>14. ASSUME NEW p \in Range(old.parts), p.node = KeyNode
       PROVE  p.form = "plain" /\ (p.atom \in Special => Pathless(policy))
  BY <1>6, <1>14, Zenon DEF KeysUnescaped, Pathless, OnText
<1>9. ASSUME NEW i \in DOMAIN old.parts, old.parts[i].node = KeyNode
      PROVE  /\ old.json = TRUE /\ TransformKey(policy, old.parts[i].atom).atom = new.parts[i].atom
             /\ i \in DOMAIN new.parts /\ new.parts[i].node = KeyNode
             /\ new.parts[i].atom = <<>> <=> old.parts[i].atom = <<>>
  <2>1. /\ old.json = TRUE /\ TransformKey(policy, old.parts[i].atom).atom = out.text.parts[i].atom
        /\ KeyPart(old, out, i, Pathless(policy))
    <3>1. PICK pol \in Policies : pol = policy /\ AllUntouched(pol)
      BY <1>4, <1>8 DEF AllUntouched
    <3>2. out = RunRules(pol, f, old) /\ Succeeds(out) /\ out.text.json = TRUE /\ f \in STRING
      BY <1>4, <1>5, <1>6, <1>7, <3>1
    <3>5. old.parts[i] \in Range(old.parts)
      BY DEF Range
    <3>3. AtKey(pol, old, i)
      BY <1>9, <1>14, <3>1, <3>5 DEF AtKey
    <3>4. Alike(pol, old, out, i)
      BY <3>1, <3>2, <3>3, KeysGoTogether
    <3> QED BY <3>1, <3>4 DEF Alike
  <2> QED BY <1>6, <2>1 DEF KeyPart
<1>10. keys = ExtractedKeys(body.episode)
  <2>1. ToldInv
    BY <1>2 DEF PreviewInv
  <2> QED BY <2>1, KeysOfAll DEF ToldInv
<1>11. KeysIn(new) \subseteq keys
  BY <1>5, <1>6, <1>10 DEF ExtractedKeys
<1>12. ASSUME NEW o \in posted, o.raw \in KeysIn(old) PROVE o.key \in keys
  <2>1. PICK raw, key : raw = o.raw /\ key = o.key /\ key = TransformKey(policy, raw).atom
    BY DEF PostedInv
  <2>2. PICK i \in DOMAIN old.parts : old.parts[i].node = KeyNode /\ old.parts[i].atom = raw /\ raw # <<>>
    BY <1>12, <2>1, KeyIsAtNode
  <2>3. /\ key = new.parts[i].atom /\ i \in DOMAIN new.parts /\ new.parts[i].node = KeyNode
        /\ new.parts[i].atom # <<>>
    BY <1>9, <2>1, <2>2
  <2>4. key \in KeysIn(new)
    BY <1>7, <2>3, NodeHasKey
  <2> QED BY <1>11, <2>1, <2>4
<1>13. ASSUME NEW k \in KeysIn(new)
       PROVE  \E raw \in KeysIn(old) : TransformKey(policy, raw).atom = k
  <2>1. PICK i \in DOMAIN new.parts : new.parts[i].node = KeyNode /\ new.parts[i].atom = k /\ k # <<>>
    BY KeyIsAtNode
  <2>2. i \in DOMAIN old.parts /\ old.parts[i].node = KeyNode
    <3>1. CleanUpTo(policy.rules, f, Len(policy.rules), old, new)
      BY <1>4, <1>5, <1>6, RunRulesIs
    <3> QED BY <2>1, <3>1 DEF CleanUpTo, PartOk
  <2>3. PICK raw : raw = old.parts[i].atom
    OBVIOUS
  <2>4. old.json = TRUE /\ TransformKey(policy, raw).atom = k /\ raw # <<>>
    BY <1>9, <2>1, <2>2, <2>3
  <2>5. raw \in KeysIn(old)
    BY <2>2, <2>3, <2>4, NodeHasKey
  <2> QED BY <2>4, <2>5
<1> QED BY <1>5, <1>6, <1>12, <1>13

\* The keys of outcomes meet the keys of episodes (redact.go, TransformKey; extract.go), for
\* every policy and text and any number of rules: what TransformKey makes of a posted key is
\* among the keys extracted from the redacted episode it was in, and no other key is; for a
\* source with the global policy, rules that are not anchored, and keys written in the payload
\* as they are, since the payload is matched as it is written and the key by itself.
THEOREM OutcomeKeysMeet == Spec => []KeysMeet
<1>1. PreviewInv /\ PostedInv => KeysMeet
  BY KeysDoMeet
<1> QED BY <1>1, PreviewInvHolds, PostedInvHolds, PTL
=============================================================================
