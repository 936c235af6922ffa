--------------------------- MODULE ObservedReplay ---------------------------
(***************************************************************************)
(* `aet learn replay` with a real Agent host (learn.py, replay_observed):  *)
(* each task of a suite is run in paired rollouts, once with the baseline  *)
(* Skill and once with the candidate, each in a fresh copy of the task's   *)
(* fixture.  The manifest is rewritten after every pair, so that a replay  *)
(* that died can be resumed; only a resume with the same binding (suite,   *)
(* fixtures, candidate, runner, number of rollouts) may continue it.       *)
(*                                                                         *)
(* What an Agent does in a rollout is abstracted to the fixture it saw.    *)
(* The binding is abstracted to the fixtures and the number of rollouts;   *)
(* a refused command (no --resume, or another binding) is not a step.      *)
(***************************************************************************)
EXTENDS Naturals, Sequences, FiniteSets

CONSTANTS
    Suite,        \* the tasks, in order
    FixtureTexts,     \* contents of a fixture
    MaxRollouts,  \* rollouts per task, at most
    MaxCrashes, MaxFixtureEdits,   \* bounds
    NoValue       \* no manifest, no binding, nothing seen

Tasks == {Suite[n] : n \in 1..Len(Suite)}
Variants == {"baseline", "candidate"}
Keys == Tasks \X (0..(MaxRollouts - 1))

ASSUME ReplayAssumption ==
    /\ Suite \in Seq(Tasks) /\ Len(Suite) > 0 /\ Cardinality(Tasks) = Len(Suite)
    /\ MaxRollouts \in Nat \ {0}
    /\ MaxCrashes \in Nat /\ MaxFixtureEdits \in Nat
    /\ NoValue \notin FixtureTexts

Binding == [fixtures : [Tasks -> FixtureTexts], rollouts : 1..MaxRollouts]
\* saw[v]: the fixture the rollout of variant v started from.
Pair == [key : Keys, saw : [Variants -> FixtureTexts]]

VARIABLES
    rpc,       \* where the replay process is; "idle" when there is none
    binding,   \* its binding, computed when it started
    pairs,     \* its list of pairs
    current,   \* the pair it is making: its key and what was seen so far
    replayed,  \* observed-replay.json, or NoValue
    dirs,      \* rollout directories on disk: <<variant, key>>
    fixture,   \* fixture[t]: the contents of the fixture of task t
    rspent,    \* crashes and edits so far
    disturbed  \* history: tasks whose fixture was edited while a replay ran

replayVars == <<rpc, binding, pairs, current, replayed, dirs, fixture, rspent, disturbed>>

NoPair == [key |-> NoValue, saw |-> [v \in Variants |-> NoValue]]
KeysOf(ps) == {ps[n].key : n \in 1..Len(ps)}

\* The order of the two loops.
Order(r) == [n \in 1..(Len(Suite) * r) |-> <<Suite[1 + ((n - 1) \div r)], ((n - 1) % r)>>]
Planned(b) == {Order(b.rollouts)[n] : n \in 1..(Len(Suite) * b.rollouts)}
\* Defective variant: one pair completes a task.
MissingByTask ==
    {k \in Planned(binding) : \A n \in 1..Len(pairs) : pairs[n].key[1] # k[1]}

Missing == Planned(binding) \ KeysOf(pairs)

ReplayInit ==
    /\ rpc = "idle"
    /\ binding = NoValue
    /\ pairs = <<>>
    /\ current = NoPair
    /\ replayed = NoValue
    /\ dirs = {}
    /\ fixture \in [Tasks -> FixtureTexts]
    /\ rspent = [crashes |-> 0, edits |-> 0]
    /\ disturbed = {}


\* --resume: the manifest is there, has this binding, and is not complete (a
\* complete one is returned as it is).
Continues(b) == replayed # NoValue /\ replayed.binding = b /\ ~replayed.complete
Start(r) ==
    LET b == [fixtures |-> fixture, rollouts |-> r]
    IN  /\ rpc = "idle"
        /\ \/ replayed = NoValue /\ pairs' = <<>>
           \/ Continues(b) /\ pairs' = replayed.pairs
        /\ binding' = b
        /\ rpc' = "looping"
        /\ UNCHANGED <<current, replayed, dirs, fixture, rspent, disturbed>>

ChooseKey(clean) ==
    /\ rpc = "looping" /\ Missing # {}
    /\ \E n \in 1..(Len(Suite) * binding.rollouts) :
         LET key == Order(binding.rollouts)[n]
         IN  /\ key \in Missing
             /\ \A m \in 1..(n - 1) : Order(binding.rollouts)[m] \notin Missing
             /\ current' = [NoPair EXCEPT !.key = key]
             /\ dirs' = IF clean THEN dirs \ (Variants \X {key}) ELSE dirs
    /\ rpc' = "first"
    /\ UNCHANGED <<binding, pairs, replayed, fixture, rspent, disturbed>>

\* Defective variant: the leavings of an interrupted rollout stay.
BeginPairKeeping == ChooseKey(FALSE)

\* The first pair in the order that is not completed; what an interrupted
\* attempt left of it is removed.
BeginPair == ChooseKey(TRUE)

FirstVariant == IF current.key[2] % 2 = 0 THEN "baseline" ELSE "candidate"
SecondVariant == IF FirstVariant = "baseline" THEN "candidate" ELSE "baseline"

\* _observed_rollout: a directory that exists is refused with an error; the
\* fixture is hashed and copied now.
Rollout(v, to) ==
    /\ IF <<v, current.key>> \in dirs
       THEN rpc' = "refused" /\ UNCHANGED <<current, dirs>>
       ELSE /\ dirs' = dirs \cup {<<v, current.key>>}
            /\ current' = [current EXCEPT !.saw[v] = fixture[current.key[1]]]
            /\ rpc' = to
    /\ UNCHANGED <<binding, pairs, replayed, fixture, rspent, disturbed>>
RunFirst == rpc = "first" /\ Rollout(FirstVariant, "second")
RunSecond == rpc = "second" /\ Rollout(SecondVariant, "paired")

RecordPair ==
    /\ rpc = "paired"
    /\ pairs' = Append(pairs, current)
    /\ replayed' = [binding |-> binding, pairs |-> pairs', complete |-> FALSE]
    /\ current' = NoPair
    /\ rpc' = "looping"
    /\ UNCHANGED <<binding, dirs, fixture, rspent, disturbed>>

Complete ==
    /\ rpc = "looping" /\ Missing = {}
    /\ replayed' = [binding |-> binding, pairs |-> pairs, complete |-> TRUE]
    /\ rpc' = "idle"
    /\ UNCHANGED <<binding, pairs, current, dirs, fixture, rspent, disturbed>>

\* The process dies, or the replay ends with an error because the fixture
\* changed while it was copied: the manifest and the directories stay.
Interrupt ==
    /\ rpc \notin {"idle", "refused"}
    /\ rspent.crashes < MaxCrashes
    /\ rspent' = [rspent EXCEPT !.crashes = @ + 1]
    /\ rpc' = "idle"
    /\ pairs' = <<>> /\ current' = NoPair
    /\ UNCHANGED <<binding, replayed, dirs, fixture, disturbed>>

EditFixture(t, f) ==
    /\ fixture[t] # f
    /\ rspent.edits < MaxFixtureEdits
    /\ rspent' = [rspent EXCEPT !.edits = @ + 1]
    /\ fixture' = [fixture EXCEPT ![t] = f]
    /\ disturbed' = IF rpc = "idle" THEN disturbed ELSE disturbed \cup {t}
    /\ UNCHANGED <<rpc, binding, pairs, current, replayed, dirs>>

\* observe_candidate, from task to task.
Loop == BeginPair \/ RunFirst \/ RunSecond \/ RecordPair \/ Complete

ReplayNext ==
    \/ \E r \in 1..MaxRollouts : Start(r)
    \/ Loop
    \/ Interrupt
    \/ \E t \in Tasks, f \in FixtureTexts : EditFixture(t, f)

ReplaySpec == ReplayInit /\ [][ReplayNext]_replayVars

\* The replay process keeps running.
FairReplay ==
    ReplaySpec /\ WF_replayVars(Loop)
---------------------------------------------------------------------------
(* Properties.                                                              *)

Manifest == [binding : Binding, pairs : Seq(Pair), complete : BOOLEAN]

ReplayTypeOK ==
    /\ rpc \in {"idle", "looping", "first", "second", "paired", "refused"}
    /\ binding \in Binding \cup {NoValue}
    /\ pairs \in Seq(Pair)
    /\ replayed \in Manifest \cup {NoValue}
    /\ dirs \subseteq Variants \X Keys
    /\ fixture \in [Tasks -> FixtureTexts]
    /\ rspent \in [crashes : 0..MaxCrashes, edits : 0..MaxFixtureEdits]
    /\ disturbed \subseteq Tasks

\* A complete manifest has each task and iteration exactly once, however often
\* the replay died and was resumed.
CompleteIsExact ==
    /\ ReplayTypeOK
    /\ (replayed # NoValue /\ replayed.complete) =>
        /\ KeysOf(replayed.pairs) = Planned(replayed.binding)
        /\ Len(replayed.pairs) = Cardinality(Planned(replayed.binding))
\* Every pair of a manifest was measured on the fixtures its binding names, also
\* when fixtures were edited between a crash and a resume: such a resume is
\* refused.  Only an edit while a replay runs goes unnoticed, for its task.
PairsMatchBinding ==
    replayed # NoValue =>
        \A n \in 1..Len(replayed.pairs), v \in Variants :
            LET p == replayed.pairs[n]
            IN  p.key[1] \notin disturbed => p.saw[v] = replayed.binding.fixtures[p.key[1]]

\* A complete replay has every planned pair once, and its pairs were measured on the
\* fixtures of the binding.
ReplayIsExact == CompleteIsExact /\ PairsMatchBinding

\* A replay that is not killed completes its manifest, also when an earlier one
\* left rollout directories behind (which _observed_rollout refuses to reuse).
ReplayCompletes == rpc = "looping" ~> rpc = "idle"
=============================================================================
