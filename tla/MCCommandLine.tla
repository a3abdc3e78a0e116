---------------------------- MODULE MCCommandLine ----------------------------
\* LineFiles with the values TLC gives its constants (CommandLine.cfg).
EXTENDS LineFiles, TLC

\* Two commands, one the beginning of the other; the arguments of the first fit into
\* the line or do not.
Commands == << [name |-> <<"a">>, args |-> << <<"a">>, <<"a", "a", "a">> >>],
               [name |-> <<"a", "a">>, args |-> <<>>] >>
Paths == {<< <<"a", "a">>, <<"a">> >>, << <<"a">>, <<"a", "a", "a">> >>}

--------------------------------------------------------------------------
(* Dropped files *)

DropChar == {D!Letter, D!Space, D!Escape} \cup D!Quotes
Texts(n) == UNION {[1 .. m -> DropChar] : m \in 1 .. n}

\* Every name of up to four characters, and two of up to two.
SmallDrops == {<<name>> : name \in Texts(4)} \cup {<<one, two>> : one \in Texts(2), two \in Texts(2)}

--------------------------------------------------------------------------
(* Configuration files *)

\* What a file may say, beside the default: what is in bounds, at one, out of them.
Values ==
  [volume |-> {-5, 4, 500, 996, 2000}, tracker |-> {"openmpt", "other"},
   switch |-> {"immediate", "later"}, panel |-> {"on", "maybe"},
   width |-> {C!AutoWord} \cup {C!Number(n) : n \in {-3, 0, 10, 24, 30, 60}}, context |-> {-1, 0, 10, 11},
   gate |-> {"off", "none"}, warn |-> {-1, 0, 100, 101},
   url |-> {"https://host/", "http://host", "host", "ftp://host"},
   timeout |-> {-1, 0, 5}, security |-> {"basic", "no"}]

Settings(a, b) == {(a :> v) @@ (b :> w) : v \in Values[a], w \in Values[b]}
SmallFiles == UNION {Settings(a, b) : a \in DOMAIN Values, b \in DOMAIN Values}

Runs(n) ==
  UNION {[1 .. m -> [repair : {"ok", "failed"}, save : {"ok", "failed", "cut"}, volume : {500, 3}]] : m \in 0 .. n}

\* Files of one setting or two, over a run, and of one setting over two.
SmallLives ==
  [file : SmallFiles, runs : Runs(1)] \cup
    [file : UNION {Settings(a, a) : a \in DOMAIN Values}, runs : Runs(2)]
=============================================================================
