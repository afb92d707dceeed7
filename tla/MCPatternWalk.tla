--------------------------- MODULE MCPatternWalk ---------------------------
(* Channels of one or two pools of two or three series.                       *)
EXTENDS PatternWalk

\* The digits of the seed, one for each cycle, shifted by step and nonce.
Shift(nonce) == CASE nonce = "chance" -> 0 [] nonce = "from" -> 1 [] OTHER -> nonce[1] + nonce[2]
MCRoll(s, cycle, step, nonce) == (s \div 2^(cycle % 4)) + step + Shift(nonce)

Series(key, ids) == [key |-> key, show |-> key, ids |-> ids]
A3 == Series("A", <<"a1", "a2", "a3">>)
B2 == Series("B", <<"b1", "b2">>)
N2 == Series("N", <<"n1", "n2">>)
F == Series("f", <<"f">>)
G == Series("g", <<"g">>)
H == Series("h", <<"h">>)
J == Series("j", <<"j">>)

Pool(series, select, rotate, onShort, advance, gap) ==
    [series |-> series, ids |-> FlattenSeq([s \in DOMAIN series |-> series[s].ids]),
     select |-> select, rotate |-> rotate, onShort |-> onShort, advance |-> advance, gap |-> gap]

Draw(pool, take, from, chance) == [pool |-> pool, take |-> take, all |-> FALSE, from |-> from, chance |-> chance]
DrawAll(pool) == [pool |-> pool, take |-> 1, all |-> TRUE, from |-> "start", chance |-> FALSE]

\* Two shows and a film pool, by turns.
Turns(rotate, onShort) ==
    [pools   |-> [shows |-> Pool(<<A3, B2>>, "round_robin", rotate, onShort, "resume", 0),
                  films |-> Pool(<<F, G>>, "round_robin", "visit", "next", "resume", 0)],
     pattern |-> <<Draw("shows", 2, "start", FALSE), Draw("films", 1, "start", TRUE)>>,
     gap     |-> 0]

\* Shows and a film of one pool, at random.
Lottery(onShort, take, gap) ==
    [pools   |-> [mix |-> Pool(<<A3, B2, F>>, "random", "visit", onShort, "resume", 0)],
     pattern |-> <<Draw("mix", take, "start", FALSE), DrawAll("mix")>>,
     gap     |-> gap]

\* Films that must not repeat, by pool and over the channel, with a pool that shares one.
Films(select, short, gap, channelGap) ==
    [pools   |-> [films |-> Pool(<<F, G, H>>, select, "visit", "next", "resume", gap),
                  shorts |-> Pool(<<short, Series("k", <<"k">>)>>, "round_robin", "slot", "next", "resume", 0)],
     pattern |-> <<Draw("films", 2, "start", FALSE), Draw("shorts", 1, "start", FALSE)>>,
     gap     |-> channelGap]

\* The last episodes of a show, or some at random, and a pool that starts over with each build.
Slices(advance) ==
    [pools   |-> [shows |-> Pool(<<A3, B2>>, "round_robin", "visit", "next", "resume", 0),
                  news |-> Pool(<<N2>>, "round_robin", "visit", "wrap", advance, 0)],
     pattern |-> <<Draw("shows", 2, "end", FALSE), Draw("news", 1, "start", FALSE), Draw("shows", 1, "random", FALSE)>>,
     gap     |-> 0]
MCSeeds == 0..3

\* Two shows by turns that must not show an episode twice in a row.
Gapped == [Turns("visit", "next") EXCEPT !.pools.shows.gap = 1]
MCGapped == {Gapped}

MCChannels == {Turns(r, o) : r \in {"visit", "slot"}, o \in {"next", "short", "wrap"}}
              \cup {Lottery(o, n, g) : o \in {"next", "short", "wrap"}, n \in {1, 2}, g \in {0, 2}}
              \cup {Films("random", J, 1, 0), Films("round_robin", J, 1, 0), Films("random", F, 0, 1)}
              \cup {Slices("resume"), Slices("restart")}
=============================================================================
