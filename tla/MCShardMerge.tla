---------------------------- MODULE MCShardMerge ----------------------------
(* Three seeds: the base directory holds whole chains of seeds 1 and 2, the   *)
(* shard repeats seed 2 and adds seed 3; then one fault is put in the shard.  *)
EXTENDS ShardMerge, TLC

CONSTANT none

Symmetry == Permutations(Mergers)

Chain(s, t) == [line |-> s, id |-> <<t, s>>, task |-> t, seed |-> s, prompt |-> <<t, s>>,
                body |-> <<t, s>>,
                src |-> [up \in Upstream(t) |-> <<up, s>>],
                embeds |-> [up \in Upstream(t) |-> <<up, s>>], marks |-> {}]

SeedRow(s) == [seed |-> s, request |-> s, index |-> s, card |-> "canonical",
               cardId |-> <<"card", s>>, valid |-> TRUE]

Clean(S) == [seeds |-> {SeedRow(s) : s \in S}, rows |-> {Chain(s, t) : s \in S, t \in Tasks}]

(* The marks a row of the task can carry.                                     *)
MarkNames(t) ==
  {"secret_detected", "unsafe_payload", "invalid_quality_retry_metadata", "misaligned", "leaks",
   "schema"}
  \cup (IF t \in LabelTasks THEN {"oracle", "disagrees"} ELSE {})
  \cup (IF t \in {"frontend", "review"} THEN {"artifact"} ELSE {})
  \cup (IF t \in {"tool_policy", "review", "security"} THEN {"axis"} ELSE {})

Replace(dir, row, new) == [dir EXCEPT !.rows = (@ \ {row}) \cup {new}]

RowFaults(dir) ==
  LET new == {r \in dir.rows : r.seed = 3}
  IN  UNION {
    UNION {{Replace(dir, r, [r EXCEPT !.marks = {m}]) : m \in MarkNames(r.task)} : r \in new},
    {Replace(dir, r, [r EXCEPT !.marks = {"disagrees", "normalised"}]) :
       r \in {q \in new : q.task \in LabelTasks}},
    {[dir EXCEPT !.rows = @ \ {r}] : r \in new},
    {Replace(dir, r, [r EXCEPT !.body = <<"other", 0>>]) : r \in dir.rows},
    {Replace(dir, r, [r EXCEPT !.prompt = <<"plan", 2>>]) : r \in new},
    {Replace(dir, r, [r EXCEPT !.id = <<r.task, 10>>]) : r \in dir.rows},
    {[dir EXCEPT !.rows = @ \cup {[r EXCEPT !.id = <<r.task, 10>>, !.line = 9,
                                            !.prompt = <<"again", 0>>]}] : r \in new},
    {[dir EXCEPT !.rows = @ \cup {[r EXCEPT !.line = 9]}] : r \in new}}

(* A source id that names the row of another seed, or none.                   *)
SourceFaults(dir) ==
  UNION {UNION {{Replace(dir, r, [r EXCEPT !.src[up] = x]) : x \in {<<up, 2>>, Missing}}
                  : up \in Upstream(r.task)} : r \in {q \in dir.rows : q.seed = 3}}
  \cup UNION {{Replace(dir, r, [r EXCEPT !.embeds[up] = <<"stale", 0>>]) : up \in Upstream(r.task)}
                  : r \in {q \in dir.rows : q.seed = 3}}

(* The tool policy of seed 3 was made from a second plan of the same seed.    *)
Fork(dir) ==
  LET t == Chain(3, "tool_policy")
  IN  [Replace(dir, t, [t EXCEPT !.src["plan"] = <<"plan", 20>>]) EXCEPT !.rows =
         @ \cup {[Chain(3, "plan") EXCEPT !.id = <<"plan", 20>>, !.prompt = <<"plan", 20>>,
                                          !.line = 9]}]

SeedFaults(dir) ==
  {[dir EXCEPT !.seeds = (@ \ {SeedRow(s)}) \cup {new}] : s \in {3},
     new \in {[SeedRow(3) EXCEPT !.card = c] : c \in {"legacy", "heldout", "invalid"}}
             \cup {[SeedRow(3) EXCEPT !.request = 2], [SeedRow(3) EXCEPT !.index = 1],
                   [SeedRow(3) EXCEPT !.cardId = <<"card", 1>>], [SeedRow(3) EXCEPT !.valid = FALSE],
                   [SeedRow(2) EXCEPT !.request = 99]}}
  \cup {[dir EXCEPT !.seeds = @ \ {SeedRow(3)}]}

LegacyMisaligned(dir) ==
  {Replace([dir EXCEPT !.seeds = {SeedRow(2), [SeedRow(3) EXCEPT !.card = "legacy"]}],
           r, [r EXCEPT !.marks = {"misaligned"}]) : r \in {q \in dir.rows : q.seed = 3}}

Shards == LET dir == Clean({2, 3})
          IN  {dir, Fork(dir)} \cup SourceFaults(dir) \cup SeedFaults(dir)
                \cup LegacyMisaligned(dir) \cup RowFaults(dir)

MCInputs == {<<Clean({1, 2}), shard>> : shard \in Shards}
MCSettings ==
  {[similar |-> p, heldout |-> TRUE] : p \in {{}, {{1, 3}}, {{1, 2}, {2, 3}}}}
    \cup {[similar |-> {}, heldout |-> FALSE]}
=============================================================================
