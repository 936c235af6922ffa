----------------------------- MODULE SkillText -----------------------------
(***************************************************************************)
(* The text of a Skill as `aet learn` reads it (learn.py): editable blocks *)
(* between markers, immutable blocks, and all the rest; the edits proposed *)
(* to its editable blocks, and the checks of a candidate against its       *)
(* baseline that every gate, stage and adoption makes.                     *)
(*                                                                         *)
(* A text is a sequence of words <<kind, name>>: a marker <<"begin", id>>, *)
(* <<"immutable", "">> or <<"end", "">>, or <<"word", w>>.  Digests stand  *)
(* for the texts they are taken of.                                        *)
(***************************************************************************)
EXTENDS Integers, FiniteSets, SequencesExt

CONSTANTS
    ForbiddenWords,         \* evidence semantics no candidate may have
    LengthOf(_),            \* characters of a word
    MaxAdded, MaxDeleted,   \* characters a candidate may add and delete (800, 400)
    MaxOperations           \* blocks it may replace (3)

End == <<"end", "">>
ImmutableStart == <<"immutable", "">>
Word(w) == <<"word", w>>
Ends(t, i) == {j \in (i + 1)..Len(t) : t[j] = End}

\* _EDITABLE_RE: each block goes from a marker to the first end after it, and the
\* next one is looked for from there.
Blocks(t) ==
    LET from[k \in 1..(Len(t) + 1)] ==
            IF k > Len(t) THEN <<>>
            ELSE IF t[k][1] = "begin" /\ Ends(t, k) # {}
            THEN LET stop == Min(Ends(t, k))
                 IN  <<[id |-> t[k][2], from |-> k, to |-> stop]>> \o from[stop + 1]
            ELSE from[k + 1]
    IN  from[1]

Body(t, b) == SubSeq(t, b.from + 1, b.to - 1)
Named(bs, id) == {n \in DOMAIN bs : bs[n].id = id}

\* {match.group(1): match.group(2)}: of blocks with one id, the last.
Bodies(t) ==
    LET bs == Blocks(t)
    IN  [id \in {b.id : b \in ToSet(bs)} |-> Body(t, bs[Max(Named(bs, id))])]

\* The text with other bodies in its blocks.
Rewrite(t, bodies) ==
    LET bs == Blocks(t)
        piece(n) == SubSeq(t, IF n = 1 THEN 1 ELSE bs[n - 1].to, bs[n].from) \o bodies[n]
        last == IF bs = <<>> THEN 1 ELSE bs[Len(bs)].to
    IN  FlattenSeq([n \in DOMAIN bs |-> piece(n)]) \o SubSeq(t, last, Len(t))

\* _outside_editable_text
Outside(t) == Rewrite(t, [n \in DOMAIN Blocks(t) |-> <<>>])

\* _immutable_blocks: after each marker, up to an end before the next marker.
Immutable(t) ==
    LET stop(i) == Min({j \in (i + 1)..Len(t) : t[j] = ImmutableStart} \cup {Len(t) + 1})
        ended(i) == {j \in Ends(t, i) : j < stop(i)}
        part[i \in 1..(Len(t) + 1)] ==
            IF i > Len(t) THEN <<>>
            ELSE IF t[i] = ImmutableStart /\ ended(i) # {}
            THEN <<SubSeq(t, i + 1, Min(ended(i)) - 1)>> \o part[i + 1]
            ELSE part[i + 1]
    IN  part[1]

---------------------------------------------------------------------------
(* Proposals.                                                               *)

Operation(id, before, new) == [id |-> id, before |-> before, new |-> new]

\* The rules engine: lines for the mined patterns, added to the first block.
ProposedByRules(t, additions) ==
    LET bs == Blocks(t)
        new == Body(t, bs[1]) \o additions
    IN  [text |-> Rewrite(t, [n \in DOMAIN bs |-> IF n = 1 THEN new ELSE Body(t, bs[n])]),
         ops  |-> <<Operation(bs[1].id, Body(t, bs[1]), new)>>]

\* _apply_model_operations: what the model answers, a sequence of [id, new], names
\* one to three editable blocks, each once ...
ModelAnswers(t, answer) ==
    LET ids == [n \in DOMAIN answer |-> answer[n].id]
    IN  /\ Len(answer) \in 1..MaxOperations
        /\ ToSet(ids) \subseteq DOMAIN Bodies(t)
        /\ IsInjective(ids)
\* ... and every block of that name is replaced and recorded.
ProposedByModel(t, answer) ==
    LET bs == Blocks(t)
        new(id) == (CHOOSE a \in ToSet(answer) : a.id = id).new
        addressed(b) == \E a \in ToSet(answer) : a.id = b.id
        named == SelectSeq(bs, addressed)
    IN  [text |-> Rewrite(t, [n \in DOMAIN bs |-> IF addressed(bs[n]) THEN new(bs[n].id)
                                                  ELSE Body(t, bs[n])]),
         ops  |-> [n \in DOMAIN named |->
                     Operation(named[n].id, Body(t, named[n]), new(named[n].id))]]

---------------------------------------------------------------------------
(* The deterministic checks of a candidate.                                 *)

\* Defective variant: other blocks may differ as well.
ValidForListed(ops, t, p) ==
    LET before == Bodies(t)
        after == Bodies(p)
    IN  /\ Len(ops) \in 1..MaxOperations
        /\ DOMAIN before = DOMAIN after
        /\ \A n \in DOMAIN ops :
              /\ ops[n].id \in DOMAIN before
              /\ ops[n].before = before[ops[n].id] /\ ops[n].new = after[ops[n].id]

\* _valid_patch_ir: the operations are exactly the blocks that differ, with their
\* bodies before and after.
ValidPatch(ops, t, p) ==
    LET before == Bodies(t)
        after == Bodies(p)
        ids == [n \in DOMAIN ops |-> ops[n].id]
    IN  /\ Len(ops) \in 1..MaxOperations
        /\ DOMAIN before = DOMAIN after
        /\ IsInjective(ids)
        /\ \A n \in DOMAIN ops : ops[n].id \in DOMAIN before
        /\ \A n \in DOMAIN ops :
              ops[n].before = before[ops[n].id] /\ ops[n].new = after[ops[n].id]
        /\ ToSet(ids) = {id \in DOMAIN before : before[id] # after[id]}

Length(words) == FoldSeq(LAMBDA w, sum : sum + LengthOf(w), 0, words)

\* _editable_edit_budget: what differs between two bodies is the words the other
\* does not have.
EditBudget(t, p) ==
    LET after == Bodies(p)
        before == Bodies(t)
        now(id) == IF id \in DOMAIN after THEN after[id] ELSE <<>>
        lost(id) == SelectSeq(before[id], LAMBDA w : w \notin ToSet(now(id)))
        gained(id) == SelectSeq(now(id), LAMBDA w : w \notin ToSet(before[id]))
    IN  [added   |-> MapThenSumSet(LAMBDA id : Length(gained(id)), DOMAIN before),
         deleted |-> MapThenSumSet(LAMBDA id : Length(lost(id)), DOMAIN before)]

Forbidden(p) == \E w \in ToSet(p) : w[1] = "word" /\ w[2] \in ForbiddenWords

\* _hard_gate_failures, of a candidate recorded for baseline base with text sha: the
\* target is t now, and the candidate's file says p.
HardFailures(base, sha, ops, t, p) ==
    LET budget == EditBudget(t, p)
    IN  {f \in {"baseline", "hash", "patch", "budget", "immutable", "outside", "semantics"} :
           CASE f = "baseline"  -> base # t
             [] f = "hash"      -> sha # p
             [] f = "patch"     -> ~ValidPatch(ops, t, p)
             [] f = "budget"    -> budget.added > MaxAdded \/ budget.deleted > MaxDeleted
             [] f = "immutable" -> Immutable(t) # Immutable(p)
             [] f = "outside"   -> Outside(t) # Outside(p)
             [] f = "semantics" -> Forbidden(p)}
=============================================================================
