----------------------------- MODULE MCRequests -----------------------------
(* Requests on catalogues of up to two entries and conversations of up to    *)
(* five turns; a scenario varies the catalogue, its windows or what is said. *)
EXTENDS Requests

CONSTANTS t1, t2, t3, i1, i2, o1, c1, c2, c3, f1, f2, s1, s2

MCImages == {i1, i2}
MCInline == {i1}
MCItems == {t1, t2, t3, i1, i2, o1, s1, s2}
MCCallIds == {c1, c2, c3}
MCToolNames == {f1, f2}

Tier(n, default) == [n |-> n, default |-> default]
Entry(key, name, enable, tiers, maxIn) ==
  [key |-> key, name |-> name, enable |-> enable, tiers |-> tiers, maxIn |-> maxIn]

MCBuiltin ==
  {Entry(Plain("auto"), Plain("Auto"), TRUE, {}, 180),
   Entry(Plain("ultimate"), Plain("Ultimate"), TRUE, {}, 1000)}

\* Two keys, and names that are fit, shared, another's key or end in "[1m]".
Keys == {Plain("a"), Plain("b")}
DisplayNames == {None, Plain("N"), Plain("b"), [base |-> "N", oneM |-> TRUE]}
Entries ==
  {Entry(k, n, e, {Tier(200, TRUE), Tier(1000, FALSE)}, 1000) :
     k \in Keys \cup {None}, n \in DisplayNames, e \in BOOLEAN}
Files == {<<>>} \cup {<<x>> : x \in Entries} \cup (Entries \X Entries)
Empty == [k \in {} |-> None]
Mappings ==
  {Empty, [k \in {Plain("N")} |-> Plain("b")], [k \in {Plain("*")} |-> Plain("N")]}

Ids == {[prefixed |-> TRUE, name |-> [base |-> x, oneM |-> y]] :
          x \in {"a", "b", "N", "auto", "z"}, y \in BOOLEAN}

Config(lockdown, file, prefs, mapping) ==
  [lockdown |-> lockdown, file |-> file, prefs |-> prefs, mapping |-> mapping,
   default |-> None, oneM |-> None]
Request(model, turns, system, mixed, marked, choice, authorized) ==
  [model |-> model, turns |-> turns, system |-> system, mixed |-> mixed,
   marked |-> marked, choice |-> choice, tools |-> <<f1, f2>>, authorized |-> authorized]

Turn(role, items, results, calls, thinks) ==
  [role |-> role, items |-> items, results |-> results, calls |-> calls, thinks |-> thinks]
Hello == <<Turn("user", <<t1>>, <<>>, <<>>, FALSE)>>
Ask(id) == Request(id, Hello, <<>>, FALSE, FALSE, None, TRUE)

Scenario(configs, requests) == [configs |-> configs, requests |-> requests]

Catalogues ==
  Scenario({Config(l, f, Empty, m) : l \in BOOLEAN, f \in Files, m \in Mappings},
           {Ask(id) : id \in Ids})

Sizes ==
  {<<{Tier(200, TRUE), Tier(1000, FALSE)}, 1000>>, <<{}, 1000>>, <<{}, 0>>,
   <<{Tier(200, FALSE), Tier(400, FALSE)}, 0>>,
   <<{Tier(200, TRUE), Tier(400, TRUE), Tier(1000, FALSE), Tier(0, TRUE)}, 200>>}
Preferences ==
  {[k \in {Plain("a")} |-> w] : w \in {0, 200, 300, 1000, 2000, 2001}}
WindowsOf(z) == Entry(Plain("a"), Plain("N"), TRUE, z[1], z[2])
Sized ==
  Scenario({Config(l, <<WindowsOf(z)>>, p, Empty) :
              l \in BOOLEAN, z \in Sizes, p \in Preferences},
           {Ask(id) : id \in Ids \cup {None}})

Answers(a, items, output) ==
  Turn("user", items, [i \in DOMAIN a.calls |-> [call |-> a.calls[i], output |-> output[i]]],
       <<>>, FALSE)
Conversations ==
  LET firsts == {Turn("user", items, <<>>, <<>>, FALSE) :
                   items \in {<<t1>>, <<t1, i1>>, <<i1>>}}
      replies(ids) == {Turn("assistant", items, <<>>, calls, th) :
                         items \in {<<>>, <<t2>>}, calls \in {<<>>, ids}, th \in BOOLEAN}
      contents == {<<>>, <<t3>>, <<t3, i1>>}
      outputs == {<<<<t1>>, <<>>>>, <<<<t2, i1, t3>>, <<t1>>>>, <<<<i2, t2>>, <<i1, i2>>>>}
  IN {<<u>> : u \in firsts}
     \cup {<<u, a, Answers(a, x, o)>> :
             u \in firsts, a \in replies(<<c1, c2>>), x \in contents, o \in outputs}
     \cup {<<u, a, Answers(a, x, o), b, Answers(b, <<t1>>, <<<<t2>>>>)>> :
             u \in firsts, a \in replies(<<c1, c2>>), x \in contents, o \in outputs,
             b \in replies(<<c3>>)}

Simple == Config(TRUE, <<Entry(Plain("a"), Plain("N"), TRUE, {}, 200)>>, Empty, Empty)
N == [prefixed |-> FALSE, name |-> Plain("N")]
Talks ==
  Scenario({Simple},
           {Request(N, turns, system, mixed, marked, None, TRUE) :
              turns \in Conversations, system \in {<<>>, <<s1, s2>>}, mixed \in BOOLEAN,
              marked \in BOOLEAN})
ToolChoices ==
  Scenario({Simple},
           {Request(N, Hello, <<>>, FALSE, FALSE, choice, authorized) :
              choice \in {None, "one", "some", "auto"}, authorized \in BOOLEAN})

MCScenarios == {Catalogues, Sized, Talks, ToolChoices}

=============================================================================
