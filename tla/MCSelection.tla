---------------------------- MODULE MCSelection ----------------------------
(***************************************************************************)
(* Selection with the real thresholds for weights, ages, changes and       *)
(* turnover, in families of inputs: baskets of every shape for the cap,    *)
(* and around one doubtful ticker everything that may be reported of it.   *)
(*                                                                         *)
(* The unit of capitalisation is half the smallest that is eligible.       *)
(***************************************************************************)
EXTENDS Selection

\* Ten clean names, four of them in company of the doubtful ticker "x".
Row10 == <<"n1", "n2", "n3", "n4", "n5", "n6", "n7", "n8", "n9", "n10">>

\* Two assets share the ticker x, and the name of one tells that it is wrapped.
MCTicker ==
  [a \in ToSet(Row10) \cup {"x", "wrapped x", "paxg", "weth"} |->
     IF a = "wrapped x" THEN "x" ELSE a]

RowOf(a, cap, volume, age, day, week) ==
  [asset |-> a, cap |-> cap, volume |-> volume, age |-> age, day |-> day, week |-> week]
Clean(a, cap) == RowOf(a, cap, cap, 400, 20, -30)

\* Every source has a price for everything.
AllQuoted == [s \in Provider \cup Exchange |-> DOMAIN MCTicker]
World(g, p, quoted, disputed) ==
  [listing |-> [q \in Provider |-> IF q = Gecko THEN g ELSE p],
   quoted |-> quoted, disputed |-> disputed]

\* Baskets of up to eight sizes, smallest first: dominant names next to small
\* ones make the cap cascade over several passes.
Sizes == {2, 4, 6, 12, 40, 120}
Baskets[n \in 0..8] ==
  IF n = 0
    THEN {<<>>}
    ELSE UNION {{Append(s, c) : c \in {c \in Sizes : s = <<>> \/ c >= s[n - 1]}} : s \in Baskets[n - 1]}

Wide ==
  {World(Failed, [i \in DOMAIN s |-> Clean(Row10[i], s[i])], AllQuoted, {}) :
     s \in UNION {Baskets[n] : n \in 1..8}}

\* Ten names of which any two are too young: one more than is taken of Paprika,
\* and up to one more than the target size.
Crowd ==
  {World(<<>>,
         [i \in DOMAIN Row10 |->
            IF i \in {j, k} THEN RowOf(Row10[i], 12 + i, 20, 5, 20, -30) ELSE Clean(Row10[i], 12 + i)],
         AllQuoted, {}) :
     j, k \in DOMAIN Row10}

\* Four clean names, which just satisfy the cap, and what is said of x.
Base == [i \in 1..4 |-> Clean(Row10[i], 50 - 10 * i)]
Beside(g, p) == World(Base \o g, Base \o p, AllQuoted, {})

\* Boundaries of size and age, the medians between them included.
Amounts == {<<0, 1>>, <<1, 30>>, <<2, 0>>, <<2, 1>>, <<2, Null>>, <<200, 1>>, <<402, 1>>, <<600, 30>>}
Sized ==
  {Beside(<<RowOf("x", g[1], g[2], 400, 20, -30)>>, <<RowOf("x", p[1], p[2], a, 20, -30)>>) :
     g, p \in Amounts, a \in {Null, 89, 90}}

\* Boundaries of the stablecoin test.
Moves == {Null, -20, 5, 6}
Moving ==
  {Beside(<<RowOf("x", 30, 30, 400, d, w)>>, <<RowOf("x", 30, 30, 400, e, v)>>) :
     d, w, e, v \in Moves}

\* Providers and price sources fail, and sources disagree.
Failing4 ==
  {World(g, p, [s \in Provider \cup Exchange |-> IF s \in down THEN {} ELSE DOMAIN MCTicker], d) :
     g \in {Failed, Base, Base \o <<Clean("x", 30)>>},
     p \in {Failed, Base, Base \o <<Clean("x", 30)>>},
     down \in SUBSET (Provider \cup Exchange),
     d \in {{}, {"x"}, {"n1"}, DOMAIN MCTicker}}

\* Listings of x, of its wrapped form, of both in either order, and of x twice.
Listings(c) ==
  {<<>>, <<Clean("x", 30)>>, <<Clean("wrapped x", c)>>, <<Clean("x", 30), Clean("x", 28)>>,
   <<Clean("x", 30), Clean("wrapped x", c)>>, <<Clean("wrapped x", c), Clean("x", 30)>>}
Shared == {Beside(g, p) : g, p \in UNION {Listings(c) : c \in {1, 4, 60}}}

\* Names that are excluded for what they are.
Denied ==
  {Beside(<<RowOf(a, c, c, 400, d, d)>>, <<RowOf(a, c, c, 400, d, d)>>) :
     a \in {"paxg", "weth", "wrapped x"}, c \in {1, 30}, d \in {5, 20}}

MCWorlds == Wide \cup Crowd \cup Sized \cup Moving \cup Failing4 \cup Shared \cup Denied

\* Both providers list x and, smaller, its wrapped form.
MCShared == {Beside(g, g) : g \in {<<Clean("x", 30), Clean("wrapped x", c)>> : c \in {2, 4, 20}}}
=============================================================================
