---------------------------- MODULE ModelCatalog ----------------------------
(***************************************************************************)
(* The model catalogue of the gateway: how loadCatalog builds it from the  *)
(* account's file, which context window each model is given, which names   *)
(* resolve to which model, and what GET /v1/models lists.                  *)
(*                                                                         *)
(* A name is a base and whether "[1m]" follows it; an identifier of a      *)
(* client is a name that "qoder-anthropic/" may precede.  Windows are in   *)
(* thousands of tokens.  A model is [key, name, enable, tiers, maxIn], a   *)
(* tier [n, default]; keys are names, and in the catalogue a model has its *)
(* effective window as well.  config is [lockdown, file, prefs, mapping,   *)
(* default, oneM]: the entries of a file that is not usable are none.      *)
(***************************************************************************)
EXTENDS Integers, FiniteSetsExt, SequencesExt

CONSTANTS
  None,      \* no name, no key, no usable file, no identifier
  Builtin    \* the models of builtinCatalog

VARIABLES
  config,    \* the flags and the file the gateway is started with
  catalog    \* the function from keys to models that run builds from them

OneM == 900
MaxPreference == 2000

Plain(base) == [base |-> base, oneM |-> FALSE]

IsName(x) == x = [base |-> x.base, oneM |-> x.oneM] /\ x.oneM \in BOOLEAN
IsTier(t) == t.n \in Int /\ t.default \in BOOLEAN
IsEntry(m) ==
  /\ m = [key |-> m.key, name |-> m.name, enable |-> m.enable, tiers |-> m.tiers,
          maxIn |-> m.maxIn]
  /\ m.key # None => IsName(m.key)
  /\ m.name # None => IsName(m.name)
  /\ m.enable \in BOOLEAN /\ m.maxIn \in Int
  /\ \A t \in m.tiers : IsTier(t)
IsConfig(c) ==
  /\ c.lockdown \in BOOLEAN
  /\ c.file \in Seq(ToSet(c.file)) /\ \A m \in ToSet(c.file) : IsEntry(m)
  /\ \A k \in DOMAIN c.prefs : IsName(k) /\ c.prefs[k] \in Int

ASSUME BuiltinAssumption == \A m \in Builtin : IsEntry(m) /\ m.key # None

----------------------------------------------------------------------------
(* Context windows.                                                        *)

Positive(S) == {w \in S : w > 0}
Windows(m) == Positive({t.n : t \in m.tiers})
Defaults(m) == Positive({t.n : t \in {u \in m.tiers : u.default}})
MaxWindow(m) == Max(Windows(m) \cup {0, m.maxIn})
Supports(m, w) ==
  /\ w > 0
  /\ IF Windows(m) = {} THEN w <= m.maxIn ELSE w \in Windows(m)

DefaultWindow(m) ==
  IF Defaults(m) # {} THEN Min(Defaults(m))
  ELSE IF m.maxIn > 0 THEN m.maxIn
  ELSE IF Windows(m) # {} THEN Min(Windows(m)) ELSE 0

ContextWindow(m) == IF m.effective > 0 THEN m.effective ELSE DefaultWindow(m)

PreferencesValid == \A k \in DOMAIN config.prefs : config.prefs[k] \in 1 .. MaxPreference
Prefers(m) == m.key \in DOMAIN config.prefs /\ Supports(m, config.prefs[m.key])

\* Mutant: the largest window where the user has chosen none.
LargestUnlessChosen(m) == IF Prefers(m) THEN config.prefs[m.key] ELSE MaxWindow(m)
Selected(m) == IF Prefers(m) THEN config.prefs[m.key] ELSE DefaultWindow(m)

----------------------------------------------------------------------------
(* The catalogue.                                                          *)

\* Mutant: the built-in models stay under lockdown.
AlwaysBuiltin == Builtin
Base == IF config.lockdown THEN {} ELSE Builtin

Accepted(m) == m.key # None /\ (config.lockdown => m.enable)

\* The groups of the file in their order; the last entry of a key wins, also over
\* the base, which is all there is without a usable file.
Merged(k) ==
  LET last == SelectLastInSubSeq(config.file, 1, Len(config.file),
                                 LAMBDA m : Accepted(m) /\ m.key = k)
  IN IF last > 0 THEN [config.file[last] EXCEPT !.enable = TRUE]
     ELSE CHOOSE m \in Base : m.key = k

LoadCatalog ==
  [k \in {m.key : m \in Base \cup {e \in ToSet(config.file) : Accepted(e)}} |->
     LET m == Merged(k) IN
     [key |-> k, name |-> m.name, enable |-> m.enable, tiers |-> m.tiers,
      maxIn |-> m.maxIn, effective |-> Selected(m)]]

Models == {catalog[k] : k \in DOMAIN catalog}

----------------------------------------------------------------------------
(* Names.                                                                  *)

\* Mutant: a display name means any of the models that have it.
NamesAnyOf(m) == m.name # None
\* The display name of m means m: no other model has it, as a name or as its key.
Names(m) ==
  /\ m.name # None
  /\ \A x \in Models \ {m} : m.name # x.name /\ m.name # x.key

\* The model a key or a display name means: one or none.
Found(id) ==
  IF id \in DOMAIN catalog THEN {catalog[id]}
  ELSE {m \in Models : Names(m) /\ m.name = id}

\* Mutant: the suffix is forgotten.
NameOrKey(m) == IF Names(m) THEN m.name ELSE m.key
PublicId(m) == IF Names(m) /\ ~m.name.oneM THEN m.name ELSE m.key

Synthetic(key) ==
  [key |-> key, name |-> None, enable |-> TRUE, tiers |-> {}, maxIn |-> 0, effective |-> 0]
ByKeyOrSynthetic(key) ==
  IF Found(key) # {} THEN CHOOSE m \in Found(key) : TRUE ELSE Synthetic(key)

\* Under lockdown: exactly the named model, or none.
ResolveExact(name, wants1M) ==
  {IF wants1M THEN [m EXCEPT !.effective = MaxWindow(m)] ELSE m :
     m \in {x \in Found(name) : x.enable /\ (wants1M => MaxWindow(x) >= OneM)}}

OrDefault(key, default) == IF key # None THEN key ELSE Plain(default)

\* Otherwise the mapping, the name itself and the default model are tried in turn.
ResolveMapped(name, wants1M) ==
  LET mapped == IF name \in DOMAIN config.mapping THEN config.mapping[name]
                ELSE IF Plain("*") \in DOMAIN config.mapping THEN config.mapping[Plain("*")]
                ELSE None
      m == ByKeyOrSynthetic(IF mapped # None THEN mapped
                            ELSE IF Found(name) # {} THEN name
                            ELSE OrDefault(config.default, "auto"))
      big == ByKeyOrSynthetic(OrDefault(config.oneM, "ultimate"))
  IN {IF wants1M /\ MaxWindow(m) < OneM /\ MaxWindow(big) >= OneM THEN big ELSE m}

\* The set of the model a client's identifier resolves to: one or none.
Resolve(id) ==
  LET name == Plain(id.name.base) IN
  IF config.lockdown THEN ResolveExact(name, id.name.oneM)
  ELSE ResolveMapped(name, id.name.oneM)

\* GET /v1/models.
Listed(m) ==
  LET name == IF m.name # None THEN m.name ELSE m.key IN
  [id |-> IF config.lockdown THEN [prefixed |-> TRUE, name |-> name]
          ELSE [prefixed |-> FALSE, name |-> PublicId(m)],
   key |-> m.key, window |-> ContextWindow(m), max |-> MaxWindow(m)]

=============================================================================
