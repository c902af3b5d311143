---------------------------- MODULE RegionPrograms ----------------------------
(***************************************************************************)
(* rsec16/additive_regions.go and additive_pruned.go: the transforms of     *)
(* AdditiveBasis as programs over whole rows.                               *)
(***************************************************************************)
EXTENDS AdditiveBasis, RegionOperations

CONSTANTS
  TileLog,    \* levels that a cache tile completes alone: 7 in the code
  TaskLimit   \* operations after which a task is cut: 512 in the code

AddRegion(dst, src, c) == IF c = 0 THEN <<>> ELSE <<Op("add", dst, src, c)>>
ScaleRegion(row, c) == IF c = 1 THEN <<>> ELSE <<Op("scale", row, row, c)>>

\* What a batch of operations leaves in the rows v.
RECURSIVE AppliedAll(_, _)
AppliedAll(v, ops) == IF ops = <<>> THEN v ELSE AppliedAll(Applied(v, Head(ops)), Tail(ops))

\* The operations of a program, in one of the orders it allows.
Operations(program) == FlattenSeq(FlattenSeq(program))
SerialRegionProgram(program) == << <<Operations(program)>> >>
TransposeRegionProgram(program) ==
  LET Turned(op) == IF op.kind = "add" THEN [op EXCEPT !.dst = op.src, !.src = op.dst] ELSE op
      Backwards(task) == [x \in 1..Len(task) |-> Turned(task[Len(task) + 1 - x])]
  IN  [p \in 1..Len(program) |->
         LET turned == program[Len(program) + 1 - p] IN [t \in 1..Len(turned) |-> Backwards(turned[t])]]

NonEmpty(tasks) == SelectSeq(tasks, LAMBDA ops : ops # <<>>)
\* The step-th level of a transform, from the highest down to lowest, or the other way.
LevelAt(step, lowest, highest, inv) == IF inv THEN lowest + step - 1 ELSE highest - step

-----------------------------------------------------------------------------
\* The butterflies from..(to-1) of the block of level i at base.
Pairs(i, base, from, to, inv) ==
  [x \in 1..(to - from) |->
     Op(IF inv THEN "inverse" ELSE "butterfly", base + from + x - 1, base + 2^i + from + x - 1, Twiddle(i, base))]

\* The levels that a tile completes alone, a task for each tile.
TileLevel(tile, i, local, inv) ==
  FlattenSeq([b \in 1..2^(local - i - 1) |-> Pairs(i, tile * 2^local + (b - 1) * 2^(i + 1), 0, 2^i, inv)])
Fused(n, local, inv) ==
  NonEmpty([t \in 1..(n \div 2^local) |->
    FlattenSeq([step \in 1..local |-> TileLevel(t - 1, LevelAt(step, 0, local, inv), local, inv)])])
\* A level above the tiles, cut into tasks at the limit.
LevelTasks(n, i, inv) ==
  FlattenSeq([b \in 1..(n \div 2^(i + 1)) |->
    [t \in 1..((2^i + TaskLimit - 1) \div TaskLimit) |->
       Pairs(i, (b - 1) * 2^(i + 1), (t - 1) * TaskLimit, Min({t * TaskLimit, 2^i}), inv)]])
InOrder(tiles, wide, inv) == IF inv THEN tiles \o wide ELSE wide \o tiles
FftProgram(n, inv) ==
  LET levels == Log2(n)
      local == Min({levels, TileLog})
  IN  InOrder(NonEmpty(<<Fused(n, local, inv)>>),
              [step \in 1..(levels - local) |-> LevelTasks(n, LevelAt(step, local, levels, inv), inv)], inv)

\* Short tasks are joined until they reach the limit; a long one stays as it is.
RECURSIVE Coalesced(_, _)
Coalesced(tasks, small) ==
  LET rest == IF small = <<>> THEN <<>> ELSE <<small>> IN
  IF tasks = <<>> THEN rest
  ELSE LET ops == Head(tasks) IN
       IF Len(ops) >= TaskLimit THEN rest \o <<ops>> \o Coalesced(Tail(tasks), <<>>)
       ELSE IF Len(small) + Len(ops) >= TaskLimit THEN <<small \o ops>> \o Coalesced(Tail(tasks), <<>>)
       ELSE Coalesced(Tail(tasks), small \o ops)

\* A block of level i gives its entries half + r back, or takes them.
EntryAdds(i, base, r) ==
  FlattenSeq([j \in 1..i |-> AddRegion(base + r + 2^(j - 1), base + 2^i + r, linear[i][j])])
BlockEntry(adds, row, i, inv) ==
  IF inv THEN ScaleRegion(row, inverse[i]) \o adds ELSE adds \o ScaleRegion(row, denominator[i])
BlockTask(i, base, inv) ==
  FlattenSeq([x \in 1..2^i |->
    LET r == IF inv THEN x - 1 ELSE 2^i - x IN BlockEntry(EntryAdds(i, base, r), base + 2^i + r, i, inv)])
BlockTasks(n, i, inv) == NonEmpty([b \in 1..(n \div 2^(i + 1)) |-> BlockTask(i, (b - 1) * 2^(i + 1), inv)])
ConversionProgram(n, inv) ==
  [step \in 1..Log2(n) |-> Coalesced(BlockTasks(n, LevelAt(step, 0, Log2(n), inv), inv), <<>>)]

RECURSIVE OnesCount(_)
OnesCount(x) == IF x = 0 THEN 0 ELSE (x % 2) + OnesCount(x \div 2)

\* A tile is differentiated by halves; what it gets from other tiles comes after.
RECURSIVE Visit(_, _)
Visit(start, i) ==
  IF i < 0 THEN <<Op("clear", start, 0, 0)>>
  ELSE Visit(start, i - 1)
       \o FlattenSeq([x \in 1..2^i |-> AddRegion(start + x - 1, start + 2^i + x - 1, derivative[i])])
       \o Visit(start + 2^i, i - 1)
DerivativeProgram(n) ==
  LET levels == Log2(n)
      local == Min({levels, TileLog})
      Across(base, i) ==
        IF Bit(base, i) = 1 THEN <<>>
        ELSE FlattenSeq([x \in 1..2^local |-> AddRegion(base + x - 1, base + 2^i + x - 1, derivative[i])])
      Task(tile) == Visit(tile * 2^local, local - 1)
                    \o FlattenSeq([x \in 1..(levels - local) |-> Across(tile * 2^local, local + x - 1)])
      Tiles(weight) == SelectSeq([t \in 1..(n \div 2^local) |-> t - 1], LAMBDA t : OnesCount(t) = weight)
  IN  [w \in 1..(levels - local + 1) |-> LET tiles == Tiles(w - 1) IN [t \in 1..Len(tiles) |-> Task(tiles[t])]]

-----------------------------------------------------------------------------
\* One level of a pruned transform: the low rows of its pairs, those it works on,
\* and the rows that are active after it.  active holds the rows known to be nonzero
\* (inverse) or wanted (forward).
Lows(n, i) == SelectSeq([x \in 1..n |-> x - 1], LAMBDA x : Bit(x, i) = 0)
PairOps(l, h, c, inv, transpose, active) ==
  LET low == l \in active  high == h \in active
  IN  CASE ~low /\ ~high -> <<>>
        [] inv /\ (low \/ high) -> IF transpose THEN <<Op("inverse", h, l, c)>> ELSE <<Op("inverse", l, h, c)>>
        [] ~inv /\ low /\ high -> <<Op("butterfly", l, h, c)>>
        [] ~inv /\ low /\ ~high -> AddRegion(l, h, c)
        [] ~inv /\ ~low /\ high ->
             IF c = 1 THEN <<Op("scale", h, l, 1)>>
             ELSE (IF c = 0 THEN <<>> ELSE <<Op("scale", h, h, Plus(c, 1))>>) \o <<Op("add", h, l, 1)>>
PrunedOps(n, i, inv, transpose, active, offset) ==
  FlattenSeq([x \in 1..(n \div 2) |->
    LET l == Lows(n, i)[x] IN
    PairOps(l, l + 2^i, Twiddle(i, BlockOf(l, i) + offset), inv, transpose, active)])
\* Whether a row of a pair is active: the rows of the pair that are, the coefficient,
\* and which of its rows it is.
RowActive(low, high, c, upper, plain) ==
  IF upper = plain THEN low \/ high
  ELSE LET u == IF upper THEN 0 ELSE 1 IN (low /\ c # u) \/ (high /\ c # 1 - u)
ActiveAfter(n, i, inv, transpose, active, offset) ==
  {x \in 0..(n - 1) :
     LET l == BlockOf(x, i) + (x % 2^i) IN
     RowActive(l \in active, l + 2^i \in active, Twiddle(i, BlockOf(l, i) + offset), x # l, inv /\ ~transpose)}

\* The operations of level i on, the lowest level first.
RECURSIVE Stages(_, _, _, _, _, _, _)
Stages(n, levels, i, inv, transpose, active, offset) ==
  IF i = levels THEN <<>>
  ELSE <<PrunedOps(n, i, inv, transpose, active, offset)>>
       \o Stages(n, levels, i + 1, inv, transpose, ActiveAfter(n, i, inv, transpose, active, offset), offset)

\* A task is cut wherever the limit falls.
RECURSIVE SplitTasksAnywhere(_, _)
SplitTasksAnywhere(ops, cut) ==
  IF ops = <<>> THEN <<>>
  ELSE <<SubSeq(ops, 1, Min({cut, Len(ops)}))>> \o SplitTasksAnywhere(SubSeq(ops, cut + 1, Len(ops)), TaskLimit)

\* A task is cut at the limit, never between two operations on the same row.
RECURSIVE SplitTasks(_, _)
SplitTasks(ops, cut) ==
  IF ops = <<>> THEN <<>>
  ELSE IF cut >= Len(ops) THEN <<ops>>
  ELSE IF cut >= TaskLimit /\ ops[cut + 1].dst # ops[cut].dst
       THEN <<SubSeq(ops, 1, cut)>> \o SplitTasks(SubSeq(ops, cut + 1, Len(ops)), 1)
       ELSE SplitTasks(ops, cut + 1)

\* The stages as passes: the levels within a tile in one, a task for each tile.
OfTile(stages, tile, local, inv) ==
  FlattenSeq([step \in 1..local |->
    SelectSeq(stages[LevelAt(step, 0, local, inv) + 1], LAMBDA op : op.dst \div 2^local = tile)])
PassesOf(stages, n, levels, inv) ==
  LET local == Min({levels, TileLog}) IN
  InOrder(<<NonEmpty([t \in 1..(n \div 2^local) |-> OfTile(stages, t - 1, local, inv)])>>,
          [step \in 1..(levels - local) |-> SplitTasks(stages[LevelAt(step, local, levels, inv) + 1], 1)], inv)
PrunedFFTCoset(n, levels, inv, transpose, mask, offset) ==
  PassesOf(Stages(n, levels, 0, inv, transpose, mask, offset), n, levels, inv)
PrunedFFT(n, inv, mask) == PrunedFFTCoset(n, Log2(n), inv, FALSE, mask, 0)
===============================================================================
