-------------------------------- MODULE MCAdmin --------------------------------
EXTENDS Admin

CONSTANTS p1, p2

Word(i) == [id |-> 0, text |-> i]
Num(i)  == [id |-> i, text |-> <<9, 9>>]
Person(i, tag, users) == [id |-> i, tag |-> tag, users |-> users]
Alice == Person(1, <<1, 2>>, <<1>>)
Bob   == Person(2, <<2>>, <<2>>)
Team  == Person(3, <<2, 1>>, <<3, 4>>)
Shell == Person(5, <<1>>, <<Null>>)
Dan   == Person(6, <<2, 2>>, <<6>>)
Seed(i, n, e) == [id |-> i, num |-> n, entrant |-> e]
Node(i, tag, user) == [id |-> i, tag |-> tag, user |-> user]
Row(n, e) == [place |-> n, entrant |-> e]

MCStarts  == <<10, 20, 30>>
MCOwned   == <<[id |-> 1, slug |-> <<1>>], [id |-> 2, slug |-> <<1>>], [id |-> 3, slug |-> <<2>>],
               [id |-> 4, slug |-> Null]>>
MCEvents  == <<[id |-> 101, text |-> <<1, 2>>], [id |-> 102, text |-> <<1>>]>>
MCRosters ==
    <<<<Node(11, <<1, 2>>, 1), Node(12, <<2>>, Null), Node(13, <<1>>, 2)>>,
      <<Node(21, <<1>>, 1), Node(22, <<2>>, Null)>>,
      <<Node(31, <<2, 1>>, 1), Node(32, Null, 3), Node(33, <<2>>, 2), Node(34, <<1>>, Null)>>>>
MCFirstEntrants == (101 :> <<Alice, Bob, Team, Shell>>) @@ (102 :> <<Bob>>)
MCFirstPhases   == (101 :> <<[id |-> 7, text |-> <<1, 1>>, order |-> 2], [id |-> 8, text |-> <<1>>, order |-> Null]>>) @@ (102 :> <<>>)
MCFirstSeeds    == (7 :> <<Seed(71, 1, Alice), Seed(72, 2, Bob), Seed(73, 3, Team)>>) @@ (8 :> <<>>)
MCStandings     == (101 :> <<Row(1, Bob), Row(2, Team), Row(3, Alice)>>) @@ (102 :> <<>>)
MCReorders  == {<<72, 73, 71>>, <<73, 71, 72>>}
MCNewcomers == {Dan}

Base == [events |-> <<>>, queries |-> <<>>, accounts |-> <<>>, mode |-> "ask", phase |-> Null]
Main ==
    {[do |-> "roster", unpaid |-> u] @@ Base : u \in BOOLEAN}
    \cup {[do |-> "add", events |-> <<Word(<<2>>), Num(102)>>, queries |-> <<Word(<<2, 1>>)>>, accounts |-> a] @@ Base : a \in {<<>>, <<6, 1>>}}
    \cup {[do |-> "add"] @@ Base,
          [do |-> "standings", events |-> <<Word(<<1>>)>>] @@ Base,
          [do |-> "redemption", events |-> <<Num(101), Word(<<1>>)>>, place |-> 2, mode |-> "yes"] @@ Base,
          [do |-> "create", events |-> <<Num(102)>>, text |-> <<2>>] @@ Base,
          [do |-> "set", events |-> <<Num(101)>>, phase |-> Word(<<1>>), text |-> <<2>>] @@ Base,
          [do |-> "phases", events |-> <<Num(101)>>] @@ Base,
          [do |-> "redemption", events |-> <<Num(101), Word(<<1, 2>>)>>, place |-> 2] @@ Base,
          [do |-> "redemption", events |-> <<Num(102), Num(101)>>, place |-> 2] @@ Base,
          [do |-> "add", events |-> <<Num(101)>>, queries |-> <<Word(<<1>>)>>] @@ Base,
          [do |-> "roster", unpaid |-> FALSE, events |-> <<Word(<<9>>)>>] @@ Base,
          [do |-> "find", extra |-> <<>>, refresh |-> FALSE, query |-> Num(1)],
          [do |-> "pool", how |-> "add", t |-> 2],
          [do |-> "pool", how |-> "series", t |-> 1],
          [do |-> "pool", how |-> "series", t |-> 4]}
    \cup {[do |-> "seed", events |-> <<Num(101)>>, phase |-> Word(<<1, 1>>), order |-> o] @@ Base :
              o \in {<<Num(2)>>, <<Word(<<2, 1>>)>>, <<Num(2), Word(<<2, 1>>)>>, <<Num(1), Num(71)>>}}
Side ==
    {[do |-> "find", extra |-> <<2>>, refresh |-> TRUE, query |-> Word(<<1>>)],
     [do |-> "delete", events |-> <<Num(101)>>, phase |-> Num(7), mode |-> "yes"] @@ Base,
     [do |-> "pool", how |-> "remove", t |-> 3]}
MCCommands == (p1 :> Main) @@ (p2 :> Side)
=============================================================================
