------------------------------- MODULE Labels -------------------------------
(***************************************************************************)
(* From the lake to training data: the outcome join (pkg/join), the scorer *)
(* (pkg/scorer, cc score) and the export (pkg/export), while episodes and  *)
(* outcomes keep landing.                                                  *)
(*                                                                         *)
(* A command reads the lake once and works on what it read; what it writes *)
(* follows later, or never if it fails.  A verifier version is a string:   *)
(* Versions lists them in the order in which Go compares them.             *)
(***************************************************************************)
EXTENDS Integers, Sequences, FiniteSets, SequencesExt, FiniteSetsExt, TLC

CONSTANTS
    Episodes,      \* [id, start, end, keys, group]
    Posted,        \* outcomes as they are posted: [id, key, kind, value, occurred, observed]
    Horizon,       \* Options.Horizon
    Versions,      \* the versions of a scorer its operator has used, in string order
    Rules,         \* the rules of each version, in order: [kind, value, reward]
    Default,       \* default_reward, or NoReward
    NoReward,
    Commands,      \* runs of cc score that may overlap
    MaxNow,        \* bound: time
    MaxRuns        \* bound: commands run

ASSUME LabelsAssumption ==
    /\ Horizon \in Nat \ {0}
    /\ IsFiniteSet(Episodes)
    /\ \A e \in Episodes : e.start \in Nat /\ e.end \in Nat
    /\ \A d, e \in Episodes : d.id = e.id => d = e    \* the reader merges them
    /\ \A o \in Posted : o.occurred \in Nat /\ o.observed \in Nat /\ o.occurred <= o.observed
    /\ Versions \in Seq(Range(Versions)) /\ Versions # <<>>
    /\ MaxNow \in Nat /\ MaxRuns \in Nat

VARIABLES
    now,
    landed,     \* episodes a reader of the lake finds
    outcomes,   \* outcomes it finds
    rewards,    \* rewards it finds, in the order of their files
    runs,       \* commands started
    cmd,        \* per command, what it still has to write, and whether it runs
    dataset,    \* history: <<>>, or what a join returned, and whether the lake was complete
    reads,      \* history: the times as of which cc score has run
    stale,      \* history: those of them before which something happened that it did not see
    overlapped  \* history: two commands of one version ran at the same time

vars == <<now, landed, outcomes, rewards, runs, cmd, dataset, reads, stale, overlapped>>

-----------------------------------------------------------------------------
(* join.Run *)

\* fault: of a fact that was posted twice the later observation stays
DedupeLatest(os) ==
    {CHOOSE o \in os : o.id = i /\ \A p \in os : p.id = i => p.observed <= o.observed :
        i \in {o.id : o \in os}}

Earliest(os, i) == {o \in os : o.id = i /\ \A p \in os : p.id = i => o.observed <= p.observed}

(* One observation of each outcome id, the earliest. *)
Dedupe(os) == {CHOOSE o \in Earliest(os, i) : TRUE : i \in {o.id : o \in os}}

HorizonClosesAt(e) == Max({e.start, e.end}) + Horizon

\* fault: the label is final when the episode has ended
StatusAtEnd(e, asOf) ==
    IF e.keys = {} THEN "unjoinable"
    ELSE IF asOf >= Max({e.start, e.end}) THEN "final" ELSE "provisional"

LabelStatus(e, asOf) ==
    IF e.keys = {} THEN "unjoinable"
    ELSE IF asOf >= HorizonClosesAt(e) THEN "final" ELSE "provisional"

(* The episodes that touched the entity of which the outcome may follow. *)
Eligible(eps, o) ==
    {e \in eps : o.key \in e.keys /\ o.occurred >= e.start /\ o.occurred <= HorizonClosesAt(e)}

(* Last touch: the first of them when they are sorted by their start, newest first. *)
Newest(found) == {e \in found : \A d \in found : d.start <= e.start}

AttributedTo(eps, o, attribution) ==
    LET found == Eligible(eps, o)
    IN IF attribution = "all" \/ found = {} THEN found
       ELSE {CHOOSE e \in Newest(found) : TRUE}

OldestFirst(os) ==
    SetToSortSeq(os, LAMBDA o, p : \/ o.occurred < p.occurred
                                   \/ o.occurred = p.occurred /\ o.observed < p.observed)

Attributed(eps, os, e, asOf, attribution) ==
    {o \in Dedupe(os) : o.observed <= asOf /\ e \in AttributedTo(eps, o, attribution)}

(* Label.Outcomes *)
OutcomesOf(eps, os, e, asOf, attribution) ==
    OldestFirst(Attributed(eps, os, e, asOf, attribution))

(* Sorted ascending: the last one wins. *)
Latest(os) ==
    [k \in {os[i].kind : i \in DOMAIN os} |->
        os[Max({i \in DOMAIN os : os[i].kind = k})].value]

Label(eps, os, e, asOf, attribution) ==
    LET mine == OutcomesOf(eps, os, e, asOf, attribution)
    IN [id |-> e.id, group |-> e.group, status |-> LabelStatus(e, asOf),
        outcomes |-> mine, latest |-> Latest(mine)]

Join(eps, os, asOf, attribution) == {Label(eps, os, e, asOf, attribution) : e \in eps}

-----------------------------------------------------------------------------
(* rules.Score: the first rule that matches, and only for a final label. *)

Matches(label, rule) == rule.kind \in DOMAIN label.latest /\ label.latest[rule.kind] = rule.value

Score(version, label) ==
    LET hits == {i \in DOMAIN Rules[version] : Matches(label, Rules[version][i])}
    IN IF label.status # "final" THEN NoReward
       ELSE IF hits # {} THEN Rules[version][Min(hits)].reward ELSE Default

(* cmdScore: episodes this version has scored are skipped. *)
Already(rs, version) == {r.id : r \in {x \in Range(rs) : x.version = version}}

\* fault: a version does not look at what it has scored
NewRewardsAgain(labels, rs, version, asOf) ==
    {[id |-> l.id, version |-> version, at |-> asOf, reward |-> Score(version, l)] :
        l \in {l \in labels : Score(version, l) # NoReward}}

NewRewards(labels, rs, version, asOf) ==
    {[id |-> l.id, version |-> version, at |-> asOf, reward |-> Score(version, l)] :
        l \in {l \in labels : l.id \notin Already(rs, version) /\ Score(version, l) # NoReward}}

-----------------------------------------------------------------------------
(* export.Run *)

Rank(version) == CHOOSE i \in DOMAIN Versions : Versions[i] = version

\* fault: the reward read last replaces that of another version
NewerByArrival(r, prev) ==
    \/ r.version # prev.version
    \/ r.version = prev.version /\ r.at > prev.at

Newer(r, prev) ==
    \/ Rank(r.version) > Rank(prev.version)
    \/ r.version = prev.version /\ r.at > prev.at

(* latestRewards: one pass over the rewards of the episode. *)
LatestReward(rs, id) ==
    FoldLeft(LAMBDA prev, r : IF r.id = id /\ (prev = <<>> \/ Newer(r, prev[1])) THEN <<r>> ELSE prev,
             <<>>, rs)

(* What is exported, under RequireFinal and RequireReward. *)
Selected(labels, rs) ==
    {[label |-> l, reward |-> LatestReward(rs, l.id)[1].reward] :
        l \in {l \in labels : l.status = "final" /\ LatestReward(rs, l.id) # <<>>}}

(* FormatPreference: the best and the worst of a group whose rewards differ. *)
Better(x, y) == x.reward > y.reward \/ (x.reward = y.reward /\ x.label.id < y.label.id)

\* sorted by Better, a group begins with the one and ends with the other
Pairs(selected) ==
    {[chosen |-> k[1], rejected |-> k[2]] :
        k \in {k \in selected \X selected :
                 /\ k[1].label.group # "" /\ k[1].label.group = k[2].label.group
                 /\ \A x \in selected : x.label.group = k[1].label.group =>
                      (x = k[1] \/ Better(k[1], x)) /\ (x = k[2] \/ Better(x, k[2]))
                 /\ k[1].reward # k[2].reward}}

-----------------------------------------------------------------------------
(* The lake fills. *)

(* What happened and became known at these times lands: earlier reads were without it. *)
Lands(happened, known) ==
    /\ stale' = stale \cup {t \in reads : t >= happened}
    /\ dataset' = IF dataset # <<>> /\ dataset[1].asOf >= known
                  THEN <<[dataset[1] EXCEPT !.complete = FALSE]>> ELSE dataset

Tick ==
    /\ now < MaxNow
    /\ now' = now + 1
    /\ UNCHANGED <<landed, outcomes, rewards, runs, cmd, dataset, reads, stale, overlapped>>

LandEpisode(e) ==
    /\ e \in Episodes \ landed /\ e.end <= now
    /\ landed' = landed \cup {e}
    /\ Lands(e.start, e.start)
    /\ UNCHANGED <<now, outcomes, rewards, runs, cmd, reads, overlapped>>

LandOutcome(o) ==
    /\ o \in Posted \ outcomes /\ o.observed <= now
    /\ outcomes' = outcomes \cup {o}
    /\ Lands(o.occurred, o.observed)
    /\ UNCHANGED <<now, landed, rewards, runs, cmd, reads, overlapped>>

-----------------------------------------------------------------------------
(* Commands. *)

(* cc join, cc export: -as-of may be in the past.  One of them is remembered. *)
RunJoin(asOf, attribution) ==
    /\ dataset = <<>>
    /\ runs < MaxRuns /\ runs' = runs + 1
    /\ dataset' = <<[asOf |-> asOf, by |-> attribution, complete |-> TRUE,
                     labels |-> Join(landed, outcomes, asOf, attribution)]>>
    /\ UNCHANGED <<now, landed, outcomes, rewards, cmd, reads, stale, overlapped>>

Running(version) == {c \in Commands : cmd[c].runs /\ cmd[c].version = version}

(* cc score reads the lake, *)
ScoreStart(c, version, asOf) ==
    /\ ~cmd[c].runs
    /\ runs < MaxRuns /\ runs' = runs + 1
    /\ cmd' = [cmd EXCEPT ![c] =
          [runs |-> TRUE, version |-> version,
           out |-> NewRewards(Join(landed, outcomes, asOf, "last_touch"), rewards, version, asOf)]]
    /\ reads' = reads \cup {asOf}
    /\ stale' = stale \cup {t \in {asOf} : \E o \in outcomes : o.occurred <= t /\ o.observed > t}
    /\ overlapped' = (overlapped \/ Running(version) # {})
    /\ UNCHANGED <<now, landed, outcomes, rewards, dataset>>

Idle(c) == cmd' = [cmd EXCEPT ![c] = [runs |-> FALSE, version |-> Versions[1], out |-> {}]]

(* and writes one file of rewards, *)
ScoreWrite(c) ==
    /\ cmd[c].runs
    /\ rewards' = rewards \o SetToSeq(cmd[c].out)
    /\ Idle(c)
    /\ UNCHANGED <<now, landed, outcomes, runs, dataset, reads, stale, overlapped>>

(* or fails, or is a dry run. *)
ScoreFails(c) ==
    /\ cmd[c].runs
    /\ Idle(c)
    /\ UNCHANGED <<now, landed, outcomes, rewards, runs, dataset, reads, stale, overlapped>>

Init ==
    /\ now = 0
    /\ landed = {} /\ outcomes = {} /\ rewards = <<>> /\ runs = 0
    /\ cmd = [c \in Commands |-> [runs |-> FALSE, version |-> Versions[1], out |-> {}]]
    /\ dataset = <<>> /\ reads = {} /\ stale = {} /\ overlapped = FALSE

Next ==
    \/ Tick
    \/ \E e \in Episodes : LandEpisode(e)
    \/ \E o \in Posted : LandOutcome(o)
    \/ \E asOf \in 0 .. now, attribution \in {"last_touch", "all"} : RunJoin(asOf, attribution)
    \/ \E c \in Commands, v \in Range(Versions), asOf \in 0 .. now : ScoreStart(c, v, asOf)
    \/ \E c \in Commands : ScoreWrite(c) \/ ScoreFails(c)

Spec == Init /\ [][Next]_vars

-----------------------------------------------------------------------------
(* Properties. *)

\* A fixed -as-of rebuilds a dataset exactly (outcomejoin.go, the flag's help): two joins
\* as of one time return the same label for an episode, whatever was posted, or posted
\* again, after that time.  What was known by then and landed only after the first join is
\* outside of this.
RebuildIsExact ==
    dataset # <<>> /\ dataset[1].complete =>
        \A l \in Join(landed, outcomes, dataset[1].asOf, dataset[1].by), d \in dataset[1].labels :
            l.id = d.id => l = d

\* With require_final, re-running never produces a different answer (outcomejoin.go,
\* cmdScore): the reward an episode got is the one it would get now, unless something that
\* happened before it was scored came to the lake's knowledge after.  Nothing that happens
\* later changes a final label.
RewardStaysTrue ==
    \A r \in Range(rewards) :
        \A l \in Join(landed, outcomes, now, "last_touch") :
            l.id = r.id => Score(r.version, l) = r.reward \/ r.at \in stale

\* Each version scores an episode once, over any number of runs of cc score and failures
\* between them, unless two of them overlap (outcomejoin.go, "idempotent per verifier
\* version").
ScoredOnce ==
    overlapped \/ \A i, j \in DOMAIN rewards :
        rewards[i].id = rewards[j].id /\ rewards[i].version = rewards[j].version => i = j

(* Of the highest version that has scored its episode, and the latest of that version. *)
IsLastWord(c) == \A r \in Range(rewards) : r.id = c.id => ~Newer(r, c)

\* A preference export (export.go, lines.go) prefers the episode with the higher reward, where
\* the reward of each is the last word on it, of the highest version that has scored that
\* episode, however many runs have scored them and in whatever order their files are read.
\* The two may be of different versions, of which the export makes nothing; but then no
\* version that has scored both episodes is as high as the higher of them.
ExportPrefersHigher ==
    \A p \in Pairs(Selected(Join(landed, outcomes, now, "last_touch"), rewards)) :
        \E c, d \in Range(rewards) :
            /\ c.id = p.chosen.label.id /\ d.id = p.rejected.label.id
            /\ IsLastWord(c) /\ IsLastWord(d)
            /\ c.reward > d.reward
            /\ c.version # d.version =>
                 \A r, s \in Range(rewards) :
                     r.id = c.id /\ s.id = d.id /\ r.version = s.version =>
                         Rank(r.version) < Rank(c.version) \/ Rank(r.version) < Rank(d.version)
=============================================================================
