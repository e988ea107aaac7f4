----------------------------- MODULE Trajectories -----------------------------
(***************************************************************************)
(* The comparison of two agents' runs (core/trajectory_comparator.py) and  *)
(* the cascade of divergence scorers it reuses (core/comparator.py).       *)
(*                                                                         *)
(* A trace is the sequence of a branch's events in the order of their      *)
(* index, which is how get_trace_events returns them; sorting it again     *)
(* changes nothing.  An event's output is a text, "" the empty one.        *)
(* Numbers between 0 and 1 are fractions.                                  *)
(***************************************************************************)
EXTENDS Integers, FiniteSets, SequencesExt

NoParent == 0

TraceTypes == {"reasoning", "tool_call", "tool_result", "sub_agent", "observation"}

-----------------------------------------------------------------------------
(* Fractions.                                                              *)

One == [num |-> 1, den |-> 1]
Zero == [num |-> 0, den |-> 1]

Plus(f, g) == [num |-> f.num * g.den + g.num * f.den, den |-> f.den * g.den]
Weighted(w, f) == [num |-> w * f.num, den |-> f.den]
Hundredth(f) == [num |-> f.num, den |-> 100 * f.den]
Complement(f) == [num |-> f.den - f.num, den |-> f.den]
SameFraction(f, g) == f.num * g.den = g.num * f.den

-----------------------------------------------------------------------------
(* Tool sequences.                                                         *)

\* The next row of the table: _levenshtein_distance keeps two of them.
NextRow(prev, i, x, b) ==
  LET curr[j \in 0 .. Len(b)] ==
        IF j = 0 THEN i
        ELSE Min({curr[j - 1] + 1,
                  prev[j] + 1,
                  prev[j - 1] + (IF x = b[j] THEN 0 ELSE 1)})
  IN curr

Levenshtein(a, b) ==
  LET row[i \in 0 .. Len(a)] ==
        IF i = 0 THEN [j \in 0 .. Len(b) |-> j]
        ELSE NextRow(row[i - 1], i, a[i], b)
  IN IF a = <<>> THEN Len(b) ELSE IF b = <<>> THEN Len(a) ELSE row[Len(a)][Len(b)]

\* The events whose parent is p, each followed by those below it.
Below(trace, p, down) ==
  FlattenSeq([i \in DOMAIN trace |->
    IF trace[i].parent = p THEN <<trace[i]>> \o down[trace[i].id] ELSE <<>>])

\* _walk_tree: the events below one, depth first, from the roots, the call never
\* deeper than there are events.  An event whose parent was never stored is not
\* reached.
ToolSequence(trace) ==
  LET ids == {NoParent} \union {trace[i].id : i \in DOMAIN trace}
      walk[n \in 0 .. Len(trace)] ==
        [p \in ids |-> IF n = 0 THEN <<>> ELSE Below(trace, p, walk[n - 1])]
  IN walk[Len(trace)][NoParent]

\* Two steps are the same if type and name are.
Labels(trace) ==
  LET walk == ToolSequence(trace)
  IN [i \in DOMAIN walk |-> <<walk[i].type, walk[i].name>>]

ToolSequenceScore(a, b) ==
  LET sa == Labels(a)
      sb == Labels(b)
      longest == Max({Len(sa), Len(sb)})
  IN IF longest = 0 THEN One
     ELSE [num |-> longest - Levenshtein(sa, sb), den |-> longest]

-----------------------------------------------------------------------------
(* Divergence of two texts: core/comparator.py.                            *)

Scorers == {"auto", "semantic", "openai", "llm_judge", "lexical", "unknown"}

\* The result of the scorer asked first, Null if it is not installed, has no key,
\* or raises; lexical always answers.
Unscored == [num |-> 0, den |-> 0]

DivergenceScore(scorer, answer, lexical) ==
  IF scorer \in {"auto", "semantic", "openai", "llm_judge"} /\ answer # Unscored
  THEN answer ELSE lexical

\* An embedding's cosine between -1 and 1, in tenths, is mapped to a divergence; a
\* vector of norm 0 diverges from nothing.
EmbeddingDivergence(cosine, normed) ==
  IF normed THEN [num |-> 10 - cosine, den |-> 20] ELSE Zero

\* The judge's number, in tenths, is clamped.
JudgeDivergence(score) == [num |-> Min({Max({score, 0}), 10}), den |-> 10]

-----------------------------------------------------------------------------
(* Outcomes.                                                               *)

\* The outputs of the events that have no children, or of all if each has one.
FinalOutputs(trace) ==
  LET leaves == SelectSeq(trace, LAMBDA e : \A i \in DOMAIN trace : trace[i].parent # e.id)
      kept == IF leaves = <<>> THEN trace ELSE leaves
  IN [i \in DOMAIN kept |-> kept[i].out]

\* Joined with newlines: two empty outputs make a text that is not empty.
NoText(parts) == parts \in {<<>>, <<"">>}

\* strip() takes the empty lines at either end.
StripLines(parts) ==
  LET filled == {i \in DOMAIN parts : parts[i] # ""}
  IN IF filled = {} THEN <<>> ELSE SubSeq(parts, Min(filled), Max(filled))

\* divergence: what divergence_score, or the ratio when it raises, makes of the
\* two texts.
OutcomeScore(a, b, divergence) ==
  LET ta == FinalOutputs(a)
      tb == FinalOutputs(b)
  IN CASE NoText(ta) /\ NoText(tb) -> One
       [] NoText(ta) # NoText(tb) -> Zero
       [] StripLines(ta) = StripLines(tb) -> One
       [] OTHER -> Complement(divergence)

-----------------------------------------------------------------------------
(* Efficiency.                                                             *)

Total(trace, Of(_)) == FoldFunction(+, 0, [i \in DOMAIN trace |-> Of(trace[i])])

\* A child is one deeper than its parent if that came first, else a root.
Depths(trace) ==
  LET depth[i \in DOMAIN trace] ==
        LET before == {j \in 1 .. i - 1 : trace[j].id = trace[i].parent}
        IN IF before = {} THEN 1 ELSE depth[Max(before)] + 1
  IN depth

MaxDepth(trace) == Max({0} \union {Depths(trace)[i] : i \in DOMAIN trace})

ToolCount(trace) ==
  Cardinality({i \in DOMAIN trace : trace[i].type \in {"tool_call", "sub_agent"}})

\* Every event counts here, also one that the walk does not reach.
TraceStats(trace) ==
  [latency |-> Total(trace, LAMBDA e : e.latency),
   tokens |-> Total(trace, LAMBDA e : e.tokens),
   cost |-> Total(trace, LAMBDA e : e.cost),
   tools |-> ToolCount(trace),
   depth |-> MaxDepth(trace)]

RatioScore(x, y) ==
  IF x = 0 /\ y = 0 THEN One
  ELSE IF x = 0 \/ y = 0 THEN Zero
  ELSE [num |-> Min({x, y}), den |-> Max({x, y})]

EfficiencyScore(a, b) ==
  LET sa == TraceStats(a)
      sb == TraceStats(b)
  IN Hundredth(Plus(Plus(Weighted(25, RatioScore(sa.latency, sb.latency)),
                         Weighted(35, RatioScore(sa.cost, sb.cost))),
                    Plus(Weighted(25, RatioScore(sa.tokens, sb.tokens)),
                         Weighted(15, RatioScore(sa.tools, sb.tools)))))

CompareTrajectories(a, b, divergence) ==
  LET tools == ToolSequenceScore(a, b)
      outcome == OutcomeScore(a, b, divergence)
      efficiency == EfficiencyScore(a, b)
  IN [tools |-> tools, outcome |-> outcome, efficiency |-> efficiency,
      stats |-> <<TraceStats(a), TraceStats(b)>>]

\* The weighted mean of the three scores.
TrajectoryScore(r) ==
  Hundredth(Plus(Weighted(35, r.tools),
                 Plus(Weighted(45, r.outcome), Weighted(20, r.efficiency))))

-----------------------------------------------------------------------------
(* Properties, of one or two inputs.                                       *)

\* The increasing pairings of positions of a and b.
Alignments(a, b) ==
  {m \in SUBSET ((DOMAIN a) \X (DOMAIN b)) :
     \A p, q \in m : (p[1] < q[1] <=> p[2] < q[2]) /\ (p[1] = q[1] <=> p[2] = q[2])}

\* The distance of two sequences is the least number of insertions, deletions and
\* substitutions, whichever steps are paired (_levenshtein_distance).
DistanceIsLeast(a, b) ==
  Levenshtein(a, b) =
    Min({Len(a) + Len(b) - 2 * Cardinality(m)
           + Cardinality({p \in m : a[p[1]] # b[p[2]]}) : m \in Alignments(a, b)})

\* The events that hang together with a root: the roots, and whatever has its
\* parent among them.
Attached(trace) ==
  LET Closed(S) == \A i \in DOMAIN trace :
        trace[i].parent = NoParent \/ (\E j \in S : trace[j].id = trace[i].parent) => i \in S
  IN {i \in DOMAIN trace : \A S \in SUBSET (DOMAIN trace) : Closed(S) => i \in S}

\* The walk meets each event that hangs together with a root once, after its
\* parent; no event stored in pieces, twice or under itself makes it loop.
WalkIsWhole(trace) ==
  LET walk == ToolSequence(trace)
  IN /\ {walk[i].id : i \in DOMAIN walk} = {trace[i].id : i \in Attached(trace)}
     /\ Len(walk) = Cardinality(Attached(trace))
     /\ \A i \in DOMAIN walk :
          walk[i].parent = NoParent \/ \E j \in 1 .. i - 1 : walk[j].id = walk[i].parent

\* Comparing B with A is comparing A with B: the same three scores, each between 0
\* and 1, and the two branches' statistics in the other order; a run compared with
\* itself scores 1.
ComparisonMirrors(a, b, divergence) ==
  LET ab == CompareTrajectories(a, b, divergence)
      ba == CompareTrajectories(b, a, divergence)
  IN /\ SameFraction(ab.tools, ba.tools)
     /\ SameFraction(ab.outcome, ba.outcome)
     /\ SameFraction(ab.efficiency, ba.efficiency)
     /\ ab.stats = <<ba.stats[2], ba.stats[1]>>
     /\ \A f \in {ab.tools, ab.outcome, ab.efficiency} : 0 <= f.num /\ f.num <= f.den
     /\ a = b => TrajectoryScore(ab).num = TrajectoryScore(ab).den
=============================================================================
