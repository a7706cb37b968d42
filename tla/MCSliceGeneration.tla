------------------------- MODULE MCSliceGeneration -------------------------
(***************************************************************************)
(* Model checking of SliceGeneration: a slope of 24 by 12 units with       *)
(* layers, dips, upright boundaries, crossings, spurs and loops, seeds     *)
(* right and wrong, two slides of two to four slices, loads of every kind. *)
(***************************************************************************)
EXTENDS SliceGeneration

MCToe == <<8, 4>>
MCCrest == <<16, 12>>
Slope == <<<<0, 0>>, <<24, 0>>, <<24, 12>>, MCCrest, MCToe, <<0, 4>>>>
Basin == <<<<0, 0>>, <<24, 0>>, <<24, 12>>, <<22, 12>>, <<22, 2>>, <<2, 2>>, <<2, 12>>, <<0, 12>>>>

Layer(y) == <<<<0, y>>, <<24, y>>>>
Bench == <<<<10, 6>>, <<24, 6>>>>
Dip == <<<<0, 2>>, <<8, 2>>, <<24, 10>>>>
Notch == <<MCToe, <<12, 2>>, <<24, 8>>>>
Fault == <<<<4, 0>>, <<24, 10>>>>
Upright(x, top) == <<<<x, 0>>, <<x, top>>>>
Lens == <<<<18, 2>>, <<22, 2>>, <<22, 4>>, <<18, 4>>, <<18, 2>>>>
Spur == <<<<0, 2>>, <<12, 2>>>>

\* The seeds of a ground with every choice of two materials, without the last seed, and
\* with one seed too many.
Seeded(seeds) ==
    LET all == {[i \in 1..Len(seeds) |-> <<seeds[i], m[i]>>] :
                   m \in [1..Len(seeds) -> {"clay", "sand"}]}
        clays == [i \in 1..Len(seeds) |-> <<seeds[i], "clay">>]
        more == {<<seeds[1], "sand">>, <<seeds[1], "rock">>, <<<<0, 1>>, "clay">>,
                 <<<<40, 1>>, "clay">>}
    IN all \cup {Front(clays)} \cup {Append(clays, a) : a \in more}

Soil(external, boundaries, seeds) ==
    {[external |-> external, boundaries |-> boundaries, materials |-> {"clay", "sand"},
      assignments |-> a] : a \in Seeded(seeds)}

MCSoilInputs ==
    UNION {
        Soil(Slope, <<Layer(2), Bench>>, <<<<1, 1>>, <<12, 5>>, <<20, 9>>>>),
        Soil(Reverse(Slope), <<Dip>>, <<<<1, 1>>, <<16, 10>>>>),
        Soil(Slope, <<Notch>>, <<<<1, 1>>, <<16, 10>>>>),
        Soil(Slope, <<Layer(2), Fault>>, <<<<1, 1>>, <<10, 1>>, <<16, 4>>, <<18, 11>>>>),
        Soil(Slope, <<Layer(2), Upright(16, 2)>>, <<<<1, 1>>, <<20, 1>>, <<16, 9>>>>),
        Soil(Slope, <<Upright(18, 12)>>, <<<<1, 1>>, <<20, 9>>>>),
        Soil(Slope, <<Lens>>, <<<<1, 1>>, <<20, 3>>>>),
        Soil(Slope, <<Spur>>, <<<<1, 1>>>>),
        Soil(Slope, <<Layer(2), Layer(2)>>, <<<<1, 1>>>>),
        Soil(Slope, <<<<<<0, 2>>, <<26, 2>>>>>>, <<<<1, 1>>>>),
        Soil(Basin, <<>>, <<<<1, 1>>>>),
        {[external |-> Slope, boundaries |-> <<>>, materials |-> {"clay"},
          assignments |-> <<<<<<1, 1>>, "clay">>>>]}}

\* The levels of a slip surface every 12 steps, straight between.
Arc(left, levels) ==
    [x \in left..(left + 12 * (Len(levels) - 1)) |->
        LET i == (x - left) \div 12
            at == levels[i + 1]
        IN IF (x - left) % 12 = 0 THEN at
           ELSE at + ((levels[i + 2] - at) * ((x - left) % 12)) \div 12]

Slides == {[left |-> 48, right |-> 120, arc |-> Arc(48, <<48, 36, 36, 48, 72, 108, 144>>)],
           [left |-> 24, right |-> 120,
            arc |-> Arc(24, <<48, 24, 12, 12, 24, 48, 72, 108, 144>>)]}

Flat == <<<<0, 90>>, <<144, 90>>>>
Drawdown == <<<<0, 75>>, <<72, 75>>, <<144, 111>>>>
Low == <<<<0, 42>>, <<144, 42>>>>
Touching == <<<<0, 66>>, <<120, 6>>>>
Short == <<<<0, 90>>, <<104, 90>>>>
Loads == {[pore |-> "none", water |-> <<>>, inRange |-> TRUE, surcharge |-> {}, seismic |-> FALSE],
          [pore |-> "water_surfaces", water |-> Flat, inRange |-> TRUE,
           surcharge |-> {"crest"}, seismic |-> TRUE],
          [pore |-> "water_surfaces", water |-> Drawdown, inRange |-> TRUE,
           surcharge |-> {100, 130}, seismic |-> FALSE],
          [pore |-> "water_surfaces", water |-> Low, inRange |-> TRUE,
           surcharge |-> {}, seismic |-> FALSE],
          [pore |-> "water_surfaces", water |-> Touching, inRange |-> TRUE,
           surcharge |-> {}, seismic |-> FALSE],
          [pore |-> "water_surfaces", water |-> Short, inRange |-> TRUE,
           surcharge |-> {}, seismic |-> FALSE],
          [pore |-> "ru_coefficient", water |-> <<>>, inRange |-> FALSE,
           surcharge |-> {}, seismic |-> TRUE],
          [pore |-> "ru_coefficient", water |-> <<>>, inRange |-> TRUE,
           surcharge |-> {98, 104}, seismic |-> TRUE]}

MCJobs ==
    {[left |-> s.left, right |-> s.right, arc |-> s.arc, n |-> n, mergeTol |-> tol,
      pore |-> l.pore, water |-> l.water, inRange |-> l.inRange,
      surcharge |-> l.surcharge, seismic |-> l.seismic] :
        s \in Slides, n \in 2..4, tol \in {0, 12}, l \in Loads}
=============================================================================
