----------------------------- MODULE MCEngineReplay -----------------------------
(* Programs for TLC.  Value 1 is the input.                                      *)
EXTENDS EngineReplay

Conv(ins, out)  == [kind |-> "CONV", ins |-> ins, out |-> out]
Other(ins, out) == [kind |-> "OTHER", ins |-> ins, out |-> out]
View(in, out)   == [kind |-> "VIEW", ins |-> <<in>>, out |-> out]

One(c)               == [fusion |-> 0, logical |-> <<c>>, exec |-> c]
Fused(f, logical, x) == [fusion |-> f, logical |-> logical, exec |-> x]

Program(cmds, plan, size) ==
  [size |-> size, input |-> 1, consts |-> {}, half |-> {}, cmds |-> cmds, plan |-> plan,
   output |-> cmds[Len(cmds)].out, parallel |-> FALSE]

Plain(cmds, size) == Program(cmds, [c \in DOMAIN cmds |-> One(c)], size)

\* Compiled with parallel_plan.
Parallel(programs) == {[p EXCEPT !.parallel = TRUE] : p \in programs}

\* Two chains of two convolutions between a fork and a join, each from a value
\* of its own.
TwoChains(order) ==
  Plain(<<Conv(<<1>>, 2), Conv(<<1>>, 3)>> \o
        [i \in 1 .. 4 |-> CASE order[i] = "a1" -> Conv(<<2>>, 4) [] order[i] = "b1" -> Conv(<<3>>, 5)
                            [] order[i] = "a2" -> Conv(<<4>>, 6) [] order[i] = "b2" -> Conv(<<5>>, 7)]
        \o <<Other(<<6, 7>>, 8)>>, <<4, 4, 4, 4, 4, 4, 4, 4>>)

\* Three chains of two convolutions, the first of them from value a.
ThreeChains(a, b, c) ==
  Plain(<<Conv(<<1>>, 2), Conv(<<1>>, 3), Conv(<<1>>, 4), Conv(<<a>>, 5), Conv(<<b>>, 6),
          Conv(<<c>>, 7), Conv(<<5>>, 8), Conv(<<6>>, 9), Conv(<<7>>, 10),
          Other(<<8, 9, 10>>, 11)>>, [v \in 1 .. 11 |-> 4])

MCDualPrograms ==
  Parallel({TwoChains(<<"a1", "b1", "a2", "b2">>), TwoChains(<<"a1", "b1", "b2", "a2">>),
            TwoChains(<<"a1", "a2", "b1", "b2">>), ThreeChains(4, 2, 3)})

\* Programs of one queue: a chain that reuses its pages, a view read beside its
\* source, a residual, two branches, and one of each kind of fusion.
MCSinglePrograms ==
  LET conv(i, o) == Conv(<<i>>, o)
  IN  {Plain(<<conv(1, 2), conv(2, 3), conv(3, 4), conv(4, 5)>>, <<4, 8, 4, 8, 4>>),
       Plain(<<conv(1, 2), View(2, 3), conv(3, 4), Other(<<2, 4>>, 5)>>, <<4, 4, 4, 4, 8>>),
       Plain(<<View(1, 2), conv(2, 3), conv(3, 4), Other(<<1, 4>>, 5)>>, <<4, 4, 4, 4, 4>>),
       Plain(<<conv(1, 2), conv(2, 3), conv(2, 4), Other(<<3, 4>>, 5), conv(5, 6)>>,
             <<4, 4, 4, 4, 8, 4>>),
       \* a pair whose second command's output is written (2, 6), or the executed one's (3, 7)
       Program(<<conv(1, 2), conv(2, 3), Other(<<3>>, 4)>>,
               <<Fused(2, <<1, 2>>, 2), One(3)>>, <<4, 4, 4, 4>>),
       Program(<<conv(1, 2), Other(<<2>>, 3), conv(3, 4), conv(4, 5)>>,
               <<One(1), Fused(3, <<2, 3>>, 3), One(4)>>, <<4, 4, 4, 4, 4>>),
       \* a chain in registers (9), then the detection head as the last dispatch (4)
       Program(<<conv(1, 2), conv(2, 3), conv(3, 4), Other(<<4>>, 5)>>,
               <<Fused(9, <<1, 2, 3>>, 1), One(4)>>, <<4, 8, 8, 4, 4>>),
       Program(<<conv(1, 2), conv(2, 3), Other(<<3>>, 4)>>,
               <<One(1), One(2), Fused(4, <<3>>, 3)>>, <<4, 4, 4, 4>>)}

\* Both sides start from one value, made before the window.
MCSharedRootPrograms ==
  Parallel({Plain(<<Conv(<<1>>, 2), Conv(<<2>>, 3), Conv(<<2>>, 4), Conv(<<3>>, 5), Conv(<<4>>, 6),
                    Other(<<5, 6>>, 7)>>, <<4, 4, 4, 4, 4, 4, 4>>)})

\* The dispatch before the window feeds the second side: the barrier hoisted to
\* the fork is on the page it writes.
MCForkPrograms == Parallel({ThreeChains(2, 3, 4)})

\* Before the window a page is written, read and written again by the fork;
\* the second side reads both values, one of them under an alias.
MCViewPrograms ==
  Parallel({Plain(<<Conv(<<1>>, 2), Conv(<<1>>, 3), Other(<<2>>, 4), View(2, 5), Conv(<<3>>, 6),
                    Conv(<<4>>, 7), Conv(<<5>>, 8), Conv(<<6>>, 9),
                    Conv(<<7>>, 10), Conv(<<8>>, 11), Conv(<<9>>, 12), Other(<<10, 11, 12>>, 13)>>,
                  [v \in 1 .. 13 |-> 4])})

\* Programs whose plan the recorder refuses, the second after a failure.
MCRefusedPrograms == MCForkPrograms \cup MCViewPrograms

MCReplayPrograms == MCDualPrograms \cup MCSinglePrograms \cup MCRefusedPrograms

\* The recorder refuses no plan: false of MCForkPrograms, on every call.
NothingRefused == ~broken
================================================================================
