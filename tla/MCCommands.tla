----------------------------- MODULE MCCommands -----------------------------
(* The small instance of Commands that TLC checks. *)
EXTENDS Commands

MCTitleOf == [d \in Docs |-> "letter"]
MCKindOf  == <<"gnu", "hpc", "mac">>
MCHostOf  == <<1, 1, 2, 3>>
MCMarks   == {"CACHEDIR.TAG", "pkgs", ".hidden", "x.pyc", "pyvenv.cfg", "conda-meta"}
MCTerms   == {[id |-> "a", owner |-> "u", mode |-> "rwx", quota |-> q] : q \in {"small", "large"}}
MCPolicies == {[owners |-> {"u"}, modes |-> {"rwx"}], [owners |-> {"u"}, modes |-> {"rwx", "r-x"}],
               [owners |-> {}, modes |-> {"rwx"}]}

MCBind == <<"local", "any", "lan">>

Fact(d, c, m, o, i) == [dataset |-> d, copy |-> c, medium |-> m, offsite |-> o, immutable |-> i]
Rule(c, m, o, i, a) == [copies |-> c, media |-> m, offsite |-> o, immutable |-> i, age |-> a]
MCFacts   == <<Fact(1, "a", "disk", FALSE, FALSE), Fact(1, "b", "tape", TRUE, TRUE),
               Fact(2, "c", "disk", TRUE, FALSE), Fact(2, "c", "disk", TRUE, FALSE)>>
MCClassOf == <<"original", "artifact">>
MCTables  == {
  [original |-> Rule(2, 2, TRUE, TRUE, 1), artifact |-> Rule(0, 0, FALSE, FALSE, -1)],
  [original |-> Rule(1, 1, FALSE, TRUE, 0), artifact |-> Rule(2, 1, TRUE, FALSE, 1)],
  [original |-> Rule(1, 1, TRUE, FALSE, 1)]}

MCUnder  == <<{1, 2}, {1}, {3}>>
MCSizeOf == [a |-> 1, b |-> 1, c |-> 2]

MCChildOf == [x |-> 1, y |-> 1]
=============================================================================
