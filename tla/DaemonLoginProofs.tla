-------------------------- MODULE DaemonLoginProofs --------------------------
(***************************************************************************)
(* Proofs about DaemonLogin: for every configuration file, all overrides,  *)
(* any clients and any faults, a daemon serves what its configuration says *)
(* and lets in whom it allows.                                             *)
(***************************************************************************)
EXTENDS DaemonLogin, TLAPS

-----------------------------------------------------------------------------
(* First and last elements                                                 *)

\* A least element is the first one.
LEMMA LeastIsFirst ==
  ASSUME NEW S, S \subseteq Nat, NEW i \in S, \A j \in S : i <= j
  PROVE  First(S) = i
<1>1. First(S) \in S /\ \A j \in S : First(S) <= j
  BY DEF First
<1>2. i \in Nat /\ First(S) \in Nat /\ i <= First(S) /\ First(S) <= i
  BY <1>1
<1> QED
  BY <1>2

\* A greatest element is the last one.
LEMMA GreatestIsLast ==
  ASSUME NEW S, S \subseteq Nat, NEW i \in S, \A j \in S : j <= i
  PROVE  LastOf(S) = i
<1>1. LastOf(S) \in S /\ \A j \in S : j <= LastOf(S)
  BY DEF LastOf
<1>2. i \in Nat /\ LastOf(S) \in Nat /\ i <= LastOf(S) /\ LastOf(S) <= i
  BY <1>1
<1> QED
  BY <1>2

-----------------------------------------------------------------------------
(* Reading the configuration                                               *)

Value == STRING \cup BOOLEAN \cup Users \cup {"", "unset"}

\* "none" is no user.
NamesUsers(key, value) == key = "auth users" => "none" \notin value

Mod == {m \in [name : STRING, set : [Keys -> Value]] : "none" \notin m.set["auth users"]}

\* A new section is a module, and differs from no section.
LEMMA FreshIsMod ==
  ASSUME NEW n \in STRING
  PROVE  Fresh(n) \in Mod /\ Fresh(n) # NoModule /\ Fresh(n).name = n
<1>1. [k \in Keys |-> CASE k = "path" -> "unset"
                        [] k = "comment" -> ""
                        [] k = "read only" -> TRUE
                        [] k = "write only" -> FALSE
                        [] k = "list" -> TRUE
                        [] k = "auth users" -> {}
                        [] k = "secrets file" -> "unset"] \in [Keys -> Value]
  <2>1. {} \in Users
    BY DEF Users
  <2>2. "unset" \in Value /\ "" \in Value /\ TRUE \in Value /\ FALSE \in Value /\ {} \in Value
    BY <2>1, Zenon DEF Value
  <2> DEFINE D(k) == CASE k = "path" -> "unset"
                        [] k = "comment" -> ""
                        [] k = "read only" -> TRUE
                        [] k = "write only" -> FALSE
                        [] k = "list" -> TRUE
                        [] k = "auth users" -> {}
                        [] k = "secrets file" -> "unset"
  <2>3. D("path") = "unset" /\ D("comment") = "" /\ D("auth users") = {} /\ D("secrets file") = "unset"
    OBVIOUS
  <2>4. D("read only") = TRUE /\ D("write only") = FALSE /\ D("list") = TRUE
    OBVIOUS
  <2> HIDE DEF D
  <2>5. \A k \in Keys : D(k) \in Value
    <3> SUFFICES ASSUME NEW k \in Keys PROVE D(k) \in Value
      OBVIOUS
    <3>1. k \in {"path", "comment", "secrets file", "read only", "write only", "list", "auth users"}
      BY DEF Keys, Texts, Flags
    <3> QED
      BY <2>2, <2>3, <2>4, <3>1, Zenon
  <2>6. [k \in Keys |-> D(k)] \in [Keys -> Value]
    BY <2>5, Zenon
  <2> QED
    BY <2>6 DEF D
<1>2. Fresh(n) \in Mod /\ Fresh(n).name = n
  <2>1. "auth users" \in Keys
    BY DEF Keys
  <2>2. Fresh(n).set["auth users"] = {}
    BY <2>1 DEF Fresh
  <2>3. Fresh(n) \in [name : STRING, set : [Keys -> Value]] /\ Fresh(n).name = n
    BY <1>1 DEF Fresh
  <2> QED
    BY <2>2, <2>3 DEF Mod
<1>3. "set" \in DOMAIN Fresh(n) /\ "set" \notin DOMAIN NoModule
  BY DEF Fresh, NoModule
<1> QED
  BY <1>2, <1>3

LEMMA ModIsNoNoModule ==
  ASSUME NEW m \in Mod
  PROVE  m # NoModule
<1>1. "set" \in DOMAIN m /\ "set" \notin DOMAIN NoModule
  BY DEF Mod, NoModule
<1> QED
  BY <1>1

\* Setting a parameter changes that one.
LEMMA WithParamSets ==
  ASSUME NEW m \in Mod, NEW key \in Keys, NEW value \in Value,
         NamesUsers(key, value)
  PROVE  /\ WithParam(m, key, value) \in Mod
         /\ WithParam(m, key, value).name = m.name
         /\ \A k \in Keys : WithParam(m, key, value).set[k] = IF k = key THEN value ELSE m.set[k]
<1>1. "auth users" \in Keys
  BY DEF Keys
<1> QED
  BY <1>1 DEF WithParam, Mod, NamesUsers

\* Lines of the file and overrides have a key and a value for it.
LEMMA LineTypes ==
  /\ \A l \in ConfigLine : l.is \in {"module", "param", "global"}
  /\ \A l \in ConfigLine : l.is = "module" => l.name \in STRING
  /\ \A l \in ConfigLine : l.is = "param" => l.key \in Keys /\ l.value \in Value
  /\ \A p \in Override : p.name \in STRING /\ p.key \in Keys /\ p.value \in Value
  /\ \A l \in ConfigLine : l.is = "param" => NamesUsers(l.key, l.value)
  /\ \A p \in Override : NamesUsers(p.key, p.value)
<1>1. \A l \in ConfigLine : l.is \in {"module", "param", "global"}
  BY DEF ConfigLine
<1>2. \A l \in ConfigLine : l.is = "module" => l.name \in STRING
  BY DEF ConfigLine
<1>3. \A l \in ConfigLine : l.is = "param" => l.key \in Keys /\ l.value \in Value
  BY DEF ConfigLine, Keys, Value
<1>4. \A p \in Override : p.name \in STRING /\ p.key \in Keys /\ p.value \in Value
  BY DEF Override, Keys, Value
<1>5. \A l \in ConfigLine : l.is = "param" => NamesUsers(l.key, l.value)
  BY DEF ConfigLine, Texts, Flags, Users, NamesUsers
<1>6. \A p \in Override : NamesUsers(p.key, p.value)
  BY DEF Override, Texts, Flags, Users, NamesUsers
<1> QED
  BY <1>1, <1>2, <1>3, <1>4, <1>5, <1>6

ReadSoFar == Len(wrote.lines) - Len(text)
GivenSoFar == Len(wrote.params) - Len(params)

\* text and params are what is left of the file and of the overrides.
TextOK ==
    /\ wrote.lines \in Seq(ConfigLine) /\ wrote.params \in Seq(Override)
    /\ text \in Seq(ConfigLine) /\ params \in Seq(Override)
    /\ Len(text) <= Len(wrote.lines) /\ Len(params) <= Len(wrote.params)
    /\ \A i \in 1 .. Len(text) : text[i] = wrote.lines[ReadSoFar + i]
    /\ \A i \in 1 .. Len(params) : params[i] = wrote.params[GivenSoFar + i]
    /\ modules \in Seq(Mod)
    /\ current = NoModule \/ current \in Mod
    /\ dpc \in {"config", "dparams", "stopped"} \/ params = <<>>
    /\ dpc = "config" => params = wrote.params
    /\ dpc \notin {"config", "stopped"} => current = NoModule

\* Line j belongs to the section that line i opens.
Within(lines, i, j) == i < j /\ \A k \in i + 1 .. j : lines[k].is # "module"

\* The lines up to r that set a key in the section that line i opens, and
\* the value that they give it
Setting(lines, i, key, r) ==
    {j \in 1 .. r : Within(lines, i, j) /\ lines[j].is = "param" /\ lines[j].key = key}

ValueSoFar(lines, i, key, r) ==
    IF Setting(lines, i, key, r) = {} THEN Fresh(lines[i].name).set[key]
    ELSE lines[LastOf(Setting(lines, i, key, r))].value

\* The modules ms are the sections of the first r lines: at tells which line
\* has opened each.
Follows(lines, at, ms, r) ==
    /\ at \in [1 .. Len(ms) -> 1 .. r]
    /\ \A i, j \in 1 .. Len(ms) : i < j => at[i] < at[j]
    /\ \A l \in 1 .. r : lines[l].is = "module" => \E i \in 1 .. Len(ms) : at[i] = l
    /\ \A i \in 1 .. Len(ms) :
         /\ lines[at[i]].is = "module"
         /\ ms[i].name = lines[at[i]].name
         /\ \A k \in Keys : ms[i].set[k] = ValueSoFar(lines, at[i], k, r)

SoFar == IF current = NoModule THEN modules ELSE Append(modules, current)

\* While the file is read
Parsed == dpc = "config" => \E at : Follows(wrote.lines, at, SoFar, ReadSoFar)

LEMMA SoFarType ==
  ASSUME TextOK
  PROVE  SoFar \in Seq(Mod)
  BY DEF TextOK, SoFar

\* A line that sets nothing changes no value.
LEMMA OtherLine ==
  ASSUME NEW lines \in Seq(ConfigLine), NEW r \in Nat, r + 1 <= Len(lines), NEW i \in 1 .. r, NEW k \in Keys,
         \/ lines[r + 1].is # "param"
         \/ lines[r + 1].key # k
         \/ ~Within(lines, i, r + 1)
  PROVE  ValueSoFar(lines, i, k, r + 1) = ValueSoFar(lines, i, k, r)
<1>1. Setting(lines, i, k, r + 1) = Setting(lines, i, k, r)
  BY DEF Setting
<1> QED
  BY <1>1 DEF ValueSoFar

\* A line that sets the key gives it its value.
LEMMA SettingLine ==
  ASSUME NEW lines \in Seq(ConfigLine), NEW r \in Nat, r + 1 <= Len(lines), NEW i \in 1 .. r, NEW k \in Keys,
         lines[r + 1].is = "param", lines[r + 1].key = k, Within(lines, i, r + 1)
  PROVE  ValueSoFar(lines, i, k, r + 1) = lines[r + 1].value
<1>1. r + 1 \in Setting(lines, i, k, r + 1)
  BY DEF Setting
<1>2. Setting(lines, i, k, r + 1) \subseteq Nat /\ \A j \in Setting(lines, i, k, r + 1) : j <= r + 1
  BY DEF Setting
<1>3. LastOf(Setting(lines, i, k, r + 1)) = r + 1
  BY <1>1, <1>2, GreatestIsLast
<1> QED
  BY <1>1, <1>3 DEF ValueSoFar

\* A section that has just been opened has its defaults.
LEMMA OpeningLine ==
  ASSUME NEW lines, NEW r \in Nat, NEW k \in Keys
  PROVE  ValueSoFar(lines, r + 1, k, r + 1) = Fresh(lines[r + 1].name).set[k]
<1>1. Setting(lines, r + 1, k, r + 1) = {}
  BY DEF Setting, Within
<1> QED
  BY <1>1 DEF ValueSoFar

LEMMA AfterSection ==
  ASSUME NEW lines \in Seq(ConfigLine), NEW r \in Nat, r + 1 <= Len(lines), lines[r + 1].is = "module",
         NEW ms \in Seq(Mod), NEW at, Follows(lines, at, ms, r)
  PROVE  \E at2 : Follows(lines, at2, Append(ms, Fresh(lines[r + 1].name)), r + 1)
<1> DEFINE n == lines[r + 1].name
           ms2 == Append(ms, Fresh(n))
           at2 == [i \in 1 .. Len(ms) + 1 |-> IF i = Len(ms) + 1 THEN r + 1 ELSE at[i]]
<1>1. n \in STRING
  <2>1. lines[r + 1] \in ConfigLine
    OBVIOUS
  <2> QED
    BY <2>1, LineTypes
<1>2. Fresh(n) \in Mod /\ Fresh(n).name = n
  BY <1>1, FreshIsMod
<1>3. /\ Len(ms2) = Len(ms) + 1 /\ Len(ms) \in Nat
      /\ \A i \in 1 .. Len(ms) : ms2[i] = ms[i]
      /\ ms2[Len(ms) + 1] = Fresh(n)
  BY <1>2
<1>4. /\ at2 \in [1 .. Len(ms2) -> 1 .. r + 1]
      /\ \A i \in 1 .. Len(ms) : at2[i] = at[i] /\ at[i] \in 1 .. r
      /\ at2[Len(ms) + 1] = r + 1
  <2>1. at \in [1 .. Len(ms) -> 1 .. r]
    BY DEF Follows
  <2> HIDE DEF ms2
  <2> QED
    BY <1>3, <2>1
<1> HIDE DEF ms2, at2
<1>5. \A i, j \in 1 .. Len(ms2) : i < j => at2[i] < at2[j]
  <2> SUFFICES ASSUME NEW i \in 1 .. Len(ms2), NEW j \in 1 .. Len(ms2), i < j PROVE at2[i] < at2[j]
    OBVIOUS
  <2>1. i \in 1 .. Len(ms)
    BY <1>3
  <2>2. CASE j \in 1 .. Len(ms)
    BY <1>4, <2>1, <2>2 DEF Follows
  <2>3. CASE j = Len(ms) + 1
    BY <1>4, <2>1, <2>3
  <2> QED
    BY <1>3, <2>2, <2>3
<1>6. \A l \in 1 .. r + 1 : lines[l].is = "module" => \E i \in 1 .. Len(ms2) : at2[i] = l
  <2> SUFFICES ASSUME NEW l \in 1 .. r + 1, lines[l].is = "module"
               PROVE  \E i \in 1 .. Len(ms2) : at2[i] = l
    OBVIOUS
  <2>1. CASE l = r + 1
    BY <1>3, <1>4, <2>1
  <2>2. CASE l \in 1 .. r
    <3>1. PICK i \in 1 .. Len(ms) : at[i] = l
      BY <2>2 DEF Follows
    <3> QED
      BY <1>3, <1>4, <3>1
  <2> QED
    BY <2>1, <2>2
<1>7. ASSUME NEW i \in 1 .. Len(ms2)
      PROVE  /\ lines[at2[i]].is = "module"
             /\ ms2[i].name = lines[at2[i]].name
             /\ \A k \in Keys : ms2[i].set[k] = ValueSoFar(lines, at2[i], k, r + 1)
  <2>1. CASE i = Len(ms) + 1
    BY <1>2, <1>3, <1>4, <2>1, OpeningLine
  <2>2. CASE i \in 1 .. Len(ms)
    <3>1. \A k \in Keys : ValueSoFar(lines, at[i], k, r + 1) = ValueSoFar(lines, at[i], k, r)
      BY <1>4, <2>2, OtherLine
    <3> QED
      BY <1>3, <1>4, <2>2, <3>1 DEF Follows
  <2> QED
    BY <1>3, <2>1, <2>2
<1>8. Follows(lines, at2, ms2, r + 1)
  BY <1>4, <1>5, <1>6, <1>7 DEF Follows
<1> QED
  BY <1>8 DEF ms2

LEMMA AfterGlobal ==
  ASSUME NEW lines \in Seq(ConfigLine), NEW r \in Nat, r + 1 <= Len(lines), lines[r + 1].is = "global",
         NEW ms \in Seq(Mod), NEW at, Follows(lines, at, ms, r)
  PROVE  Follows(lines, at, ms, r + 1)
<1>1. \A i \in 1 .. Len(ms) : \A k \in Keys : ValueSoFar(lines, at[i], k, r + 1) = ValueSoFar(lines, at[i], k, r)
  <2>1. \A i \in 1 .. Len(ms) : at[i] \in 1 .. r
    BY DEF Follows
  <2> QED
    BY <2>1, OtherLine
<1>2. at \in [1 .. Len(ms) -> 1 .. r + 1]
  BY DEF Follows
<1>3. \A l \in 1 .. r + 1 : lines[l].is = "module" => l \in 1 .. r
  OBVIOUS
<1>4. \A l \in 1 .. r + 1 : lines[l].is = "module" => \E i \in 1 .. Len(ms) : at[i] = l
  BY <1>3 DEF Follows
<1>5. \A i \in 1 .. Len(ms) :
         /\ lines[at[i]].is = "module"
         /\ ms[i].name = lines[at[i]].name
         /\ \A k \in Keys : ms[i].set[k] = ValueSoFar(lines, at[i], k, r + 1)
  BY <1>1, Zenon DEF Follows
<1>6. \A i, j \in 1 .. Len(ms) : i < j => at[i] < at[j]
  BY DEF Follows
<1> QED
  BY <1>2, <1>4, <1>5, <1>6, Zenon DEF Follows

LEMMA AfterParam ==
  ASSUME NEW lines \in Seq(ConfigLine), NEW r \in Nat, r + 1 <= Len(lines), lines[r + 1].is = "param",
         NEW ms \in Seq(Mod), NEW m \in Mod, NEW at, Follows(lines, at, Append(ms, m), r)
  PROVE  Follows(lines, at, Append(ms, WithParam(m, lines[r + 1].key, lines[r + 1].value)), r + 1)
<1> DEFINE key == lines[r + 1].key
           value == lines[r + 1].value
           m2 == WithParam(m, key, value)
           old == Append(ms, m)
           new == Append(ms, m2)
           last == Len(ms) + 1
<1>1. key \in Keys /\ value \in Value /\ NamesUsers(key, value)
  <2>1. lines[r + 1] \in ConfigLine
    OBVIOUS
  <2> QED
    BY <2>1, LineTypes
<1>2. m2 \in Mod /\ m2.name = m.name /\ \A k \in Keys : m2.set[k] = IF k = key THEN value ELSE m.set[k]
  BY <1>1, WithParamSets
<1> HIDE DEF m2
<1>3. /\ Len(old) = last /\ Len(new) = last /\ last \in Nat
      /\ \A i \in 1 .. Len(ms) : old[i] = ms[i] /\ new[i] = ms[i]
      /\ old[last] = m /\ new[last] = m2
  BY <1>2
<1> HIDE DEF old, new
<1>4. /\ at \in [1 .. last -> 1 .. r]
      /\ \A i, j \in 1 .. last : i < j => at[i] < at[j]
      /\ \A l \in 1 .. r : lines[l].is = "module" => \E i \in 1 .. last : at[i] = l
      /\ \A i \in 1 .. last :
           /\ lines[at[i]].is = "module"
           /\ old[i].name = lines[at[i]].name
           /\ \A k \in Keys : old[i].set[k] = ValueSoFar(lines, at[i], k, r)
  BY <1>3 DEF Follows, old
<1>5. Within(lines, at[last], r + 1)
  <2>1. at[last] \in 1 .. r
    BY <1>3, <1>4
  <2>2. ASSUME NEW l \in at[last] + 1 .. r + 1, lines[l].is = "module" PROVE FALSE
    <3>1. l \in 1 .. r
      BY <2>1, <2>2
    <3>2. PICK i \in 1 .. last : at[i] = l
      BY <1>4, <2>2, <3>1
    <3>3. at[i] > at[last]
      BY <2>1, <3>2
    <3>4. i = last \/ at[i] < at[last]
      BY <1>3, <1>4
    <3> QED
      BY <1>4, <2>1, <3>3, <3>4
  <2> QED
    BY <2>1, <2>2 DEF Within
<1>6. \A i \in 1 .. Len(ms) : ~Within(lines, at[i], r + 1)
  <2> SUFFICES ASSUME NEW i \in 1 .. Len(ms) PROVE ~Within(lines, at[i], r + 1)
    OBVIOUS
  <2>1. at[i] \in 1 .. r /\ at[last] \in 1 .. r /\ at[i] < at[last] /\ lines[at[last]].is = "module"
    <3>1. i \in 1 .. last /\ last \in 1 .. last /\ i < last
      BY <1>3
    <3> HIDE DEF last
    <3> QED
      BY <1>4, <3>1
  <2> QED
    BY <2>1 DEF Within
<1>7. ASSUME NEW i \in 1 .. last
      PROVE  /\ lines[at[i]].is = "module"
             /\ new[i].name = lines[at[i]].name
             /\ \A k \in Keys : new[i].set[k] = ValueSoFar(lines, at[i], k, r + 1)
  <2>1. at[i] \in 1 .. r
    BY <1>4
  <2>2. CASE i \in 1 .. Len(ms)
    <3>1. \A k \in Keys : ValueSoFar(lines, at[i], k, r + 1) = ValueSoFar(lines, at[i], k, r)
      BY <1>6, <2>1, <2>2, OtherLine
    <3> QED
      BY <1>3, <1>4, <2>2, <3>1
  <2>3. CASE i = last
    <3>1. ASSUME NEW k \in Keys PROVE m2.set[k] = ValueSoFar(lines, at[i], k, r + 1)
      <4>1. CASE k = key
        BY <1>2, <1>5, <2>1, <2>3, <4>1, SettingLine
      <4>2. CASE k # key
        <5>1. ValueSoFar(lines, at[i], k, r + 1) = ValueSoFar(lines, at[i], k, r)
          BY <2>1, <4>2, OtherLine
        <5> QED
          BY <1>2, <1>3, <1>4, <2>3, <4>2, <5>1
      <4> QED
        BY <4>1, <4>2
    <3> QED
      BY <1>2, <1>3, <1>4, <2>3, <3>1
  <2> QED
    BY <1>3, <2>2, <2>3
<1>8. \A l \in 1 .. r + 1 : lines[l].is = "module" => l \in 1 .. r
  OBVIOUS
<1>9. at \in [1 .. last -> 1 .. r + 1]
  BY <1>4
<1>10. Follows(lines, at, new, r + 1)
  BY <1>3, <1>4, <1>7, <1>8, <1>9 DEF Follows
<1> QED
  BY <1>10 DEF new, m2

-----------------------------------------------------------------------------
(* The configuration that is served                                        *)

\* Of the modules of a name there is a first.
HasFirst(ms) ==
    \A i \in 1 .. Len(ms) :
      \E j \in 1 .. Len(ms) :
        ms[j].name = ms[i].name /\ \A l \in 1 .. Len(ms) : ms[l].name = ms[i].name => j <= l

\* What the first section of a name and the first q overrides make of a key
SectionsIn(lines, n) == {i \in 1 .. Len(lines) : lines[i].is = "module" /\ lines[i].name = n}

IndexIn(ms, n) == {i \in 1 .. Len(ms) : ms[i].name = n}

GivenIn(ps, n, key, q) == {i \in 1 .. q : ps[i].name = n /\ ps[i].key = key}

EffectiveIn(lines, ps, n, key, q) ==
    IF GivenIn(ps, n, key, q) = {} THEN ValueSoFar(lines, First(SectionsIn(lines, n)), key, Len(lines))
    ELSE ps[LastOf(GivenIn(ps, n, key, q))].value

\* The modules ms are those of the file with the first q overrides.
Follow(lines, ps, ms, q) ==
    \A n \in STRING :
      /\ SectionsIn(lines, n) # {} <=> IndexIn(ms, n) # {}
      /\ SectionsIn(lines, n) # {} => First(SectionsIn(lines, n)) \in SectionsIn(lines, n)
      /\ IndexIn(ms, n) # {} =>
           \A k \in Keys : ms[First(IndexIn(ms, n))].set[k] = EffectiveIn(lines, ps, n, k, q)

\* Once the file is read
Loaded == dpc \notin {"config", "stopped"} => Follow(wrote.lines, wrote.params, modules, GivenSoFar)

Starting == {"config", "dparams", "stopped"}

Validated ==
    dpc \notin Starting =>
      modules # <<>> /\ \A i \in 1 .. Len(modules) : ModuleValid(modules[i])

\* The inductive invariant of the configuration
ConfigInv == TextOK /\ Parsed /\ HasFirst(SoFar) /\ Loaded /\ Validated

LEMMA AppendHasFirst ==
  ASSUME NEW ms \in Seq(Mod), NEW m \in Mod, HasFirst(ms)
  PROVE  HasFirst(Append(ms, m))
<1> DEFINE new == Append(ms, m)
<1>1. /\ Len(new) = Len(ms) + 1 /\ Len(ms) \in Nat
      /\ \A i \in 1 .. Len(ms) : new[i] = ms[i]
      /\ new[Len(ms) + 1] = m
  OBVIOUS
<1> HIDE DEF new
<1> SUFFICES ASSUME NEW i \in 1 .. Len(new)
             PROVE  \E j \in 1 .. Len(new) :
                      new[j].name = new[i].name /\ \A l \in 1 .. Len(new) : new[l].name = new[i].name => j <= l
  BY DEF HasFirst, new
<1>2. CASE \E h \in 1 .. Len(ms) : ms[h].name = new[i].name
  <2>1. PICK h \in 1 .. Len(ms) : ms[h].name = new[i].name
    BY <1>2
  <2>2. PICK j \in 1 .. Len(ms) :
          ms[j].name = ms[h].name /\ \A l \in 1 .. Len(ms) : ms[l].name = ms[h].name => j <= l
    BY DEF HasFirst
  <2>3. \A l \in 1 .. Len(new) : new[l].name = new[i].name => j <= l
    BY <1>1, <2>1, <2>2
  <2>4. j \in 1 .. Len(new) /\ new[j].name = new[i].name
    BY <1>1, <2>1, <2>2
  <2> QED
    BY <2>3, <2>4
<1>3. CASE ~\E h \in 1 .. Len(ms) : ms[h].name = new[i].name
  <2>1. i = Len(ms) + 1
    BY <1>1, <1>3
  <2>2. \A l \in 1 .. Len(new) : new[l].name = new[i].name => i <= l
    BY <1>1, <1>3, <2>1
  <2> QED
    BY <2>2
<1> QED
  BY <1>2, <1>3

\* Only names matter.
LEMMA RenamedHasFirst ==
  ASSUME NEW ms, NEW new, HasFirst(ms), Len(new) = Len(ms),
         \A i \in 1 .. Len(ms) : new[i].name = ms[i].name
  PROVE  HasFirst(new)
  BY DEF HasFirst

LEMMA ReadLineConfig ==
  ASSUME ConfigInv, ReadLine
  PROVE  ConfigInv'
<1> DEFINE r == ReadSoFar
           line == Head(text)
<1>1. /\ text \in Seq(ConfigLine) /\ text # <<>> /\ text' = Tail(text) /\ dpc = "config"
      /\ wrote' = wrote /\ params' = params /\ wrote.lines \in Seq(ConfigLine)
      /\ Len(text) <= Len(wrote.lines)
  BY DEF ReadLine, ConfigInv, TextOK
<1>2. /\ r \in Nat /\ r + 1 <= Len(wrote.lines) /\ ReadSoFar' = r + 1
      /\ line = wrote.lines[r + 1] /\ line \in ConfigLine
      /\ Len(text) \in Nat /\ Len(text) >= 1 /\ Len(text') = Len(text) - 1
      /\ \A i \in 1 .. Len(text') : text'[i] = text[i + 1]
  BY <1>1 DEF ReadSoFar, ConfigInv, TextOK
<1>3. \A i \in 1 .. Len(text') : text'[i] = wrote'.lines[ReadSoFar' + i]
  <2> SUFFICES ASSUME NEW i \in 1 .. Len(text') PROVE text'[i] = wrote.lines[r + 1 + i]
    BY <1>1, <1>2
  <2>1. i + 1 \in 1 .. Len(text) /\ r + (i + 1) = r + 1 + i
    BY <1>2
  <2>2. text[i + 1] = wrote.lines[r + (i + 1)]
    BY <2>1 DEF ConfigInv, TextOK
  <2> QED
    BY <1>2, <2>1, <2>2
<1>4. modules \in Seq(Mod) /\ (current = NoModule \/ current \in Mod) /\ SoFar \in Seq(Mod)
  BY SoFarType DEF ConfigInv, TextOK
<1>5. PICK at : Follows(wrote.lines, at, SoFar, r)
  BY <1>1 DEF ConfigInv, Parsed
<1>6. /\ dpc' \in {"config", "stopped"}
      /\ modules' \in Seq(Mod)
      /\ current' = NoModule \/ current' \in Mod
      /\ HasFirst(SoFar')
      /\ dpc' = "config" => \E at2 : Follows(wrote.lines, at2, SoFar', r + 1)
  <2> DEFINE G == /\ dpc' \in {"config", "stopped"}
                  /\ modules' \in Seq(Mod)
                  /\ current' = NoModule \/ current' \in Mod
                  /\ HasFirst(SoFar')
                  /\ dpc' = "config" => \E at2 : Follows(wrote.lines, at2, SoFar', r + 1)
  <2> SUFFICES G
    OBVIOUS
  <2> USE <1>1, <1>2, <1>4, <1>5
  <2>1. CASE line.is = "module"
    <3>1. line.name \in STRING
      BY <2>1, LineTypes
    <3>2. Fresh(line.name) \in Mod /\ Fresh(line.name) # NoModule
      BY <3>1, FreshIsMod
    <3>3. modules' = SoFar /\ current' = Fresh(line.name) /\ dpc' = dpc
      BY <2>1 DEF ReadLine, SoFar
    <3>4. SoFar' = Append(SoFar, Fresh(line.name))
      BY <3>2, <3>3 DEF SoFar
    <3>5. \E at2 : Follows(wrote.lines, at2, Append(SoFar, Fresh(wrote.lines[r + 1].name)), r + 1)
      BY <2>1, AfterSection DEF ConfigInv
    <3>6. HasFirst(SoFar')
      BY <3>2, <3>4, AppendHasFirst DEF ConfigInv
    <3> QED
      BY <3>2, <3>3, <3>4, <3>5, <3>6
  <2>2. CASE line.is = "param" /\ current # NoModule
    <3> DEFINE m2 == WithParam(current, line.key, line.value)
    <3>0. /\ line.key \in Keys /\ line.value \in Value /\ current \in Mod
          /\ NamesUsers(line.key, line.value)
      BY <2>2, LineTypes
    <3>1. m2 \in Mod /\ m2.name = current.name
      BY <3>0, WithParamSets
    <3>2. current' = m2 /\ modules' = modules /\ dpc' = dpc
      BY <2>2 DEF ReadLine
    <3> HIDE DEF m2
    <3>3. SoFar = Append(modules, current) /\ SoFar' = Append(modules, m2)
      BY <2>2, <3>1, <3>2, ModIsNoNoModule DEF SoFar
    <3>4. Follows(wrote.lines, at, Append(modules, m2), r + 1)
      BY <2>2, <3>3, AfterParam DEF ConfigInv, m2
    <3>5. Len(SoFar') = Len(SoFar) /\ \A i \in 1 .. Len(SoFar) : SoFar'[i].name = SoFar[i].name
      BY <2>2, <3>1, <3>3
    <3>6. HasFirst(SoFar')
      BY <3>5, RenamedHasFirst DEF ConfigInv
    <3> QED
      BY <3>1, <3>2, <3>3, <3>4, <3>6
  <2>3. CASE line.is = "global" /\ current = NoModule
    <3>1. current' = current /\ modules' = modules /\ dpc' = dpc
      BY <2>3 DEF ReadLine
    <3>2. SoFar' = SoFar
      BY <3>1 DEF SoFar
    <3>3. Follows(wrote.lines, at, SoFar, r + 1)
      BY <2>3, AfterGlobal DEF ConfigInv
    <3> QED
      BY <3>1, <3>2, <3>3 DEF ConfigInv
  <2>4. CASE \/ line.is = "param" /\ current = NoModule
             \/ line.is = "global" /\ current # NoModule
    <3>1. current' = current /\ modules' = modules /\ dpc' = "stopped"
      BY <2>4 DEF ReadLine
    <3>2. SoFar' = SoFar
      BY <3>1 DEF SoFar
    <3> QED
      BY <3>1, <3>2 DEF ConfigInv
  <2>5. line.is \in {"module", "param", "global"}
    BY LineTypes
  <2> HIDE <1>1, <1>2, <1>4, <1>5 DEF G
  <2> QED
    BY <2>1, <2>2, <2>3, <2>4, <2>5
<1>7. TextOK'
  <2>1. GivenSoFar' = GivenSoFar
    BY <1>1 DEF GivenSoFar
  <2>2. text' \in Seq(ConfigLine) /\ Len(text') <= Len(wrote'.lines)
    BY <1>1, <1>2
  <2>3. /\ wrote'.params \in Seq(Override) /\ params' \in Seq(Override)
        /\ Len(params') <= Len(wrote'.params)
        /\ \A i \in 1 .. Len(params') : params'[i] = wrote'.params[GivenSoFar' + i]
    BY <1>1, <2>1 DEF TextOK, ConfigInv
  <2>4. wrote'.lines \in Seq(ConfigLine) /\ dpc' \in {"config", "stopped"} /\ params' = wrote'.params
    BY <1>1, <1>6 DEF TextOK, ConfigInv
  <2> QED
    BY <1>3, <1>6, <2>2, <2>3, <2>4, Zenon DEF TextOK
<1>8. Parsed'
  <2> SUFFICES ASSUME dpc' = "config" PROVE (\E a : Follows(wrote.lines, a, SoFar, ReadSoFar))'
    BY DEF Parsed
  <2>1. PICK a : Follows(wrote.lines, a, SoFar', r + 1)
    BY <1>6
  <2>2. Follows(wrote.lines, a, SoFar, ReadSoFar)'
    BY <1>1, <1>2, <2>1
  <2> QED
    BY <2>2
<1> QED
  BY <1>6, <1>7, <1>8 DEF ConfigInv, Loaded, Validated, Starting

\* The first module of a name
LEMMA FirstModule ==
  ASSUME NEW ms \in Seq(Mod), HasFirst(ms), NEW n \in STRING, IndexIn(ms, n) # {}
  PROVE  /\ First(IndexIn(ms, n)) \in 1 .. Len(ms)
         /\ ms[First(IndexIn(ms, n))].name = n
         /\ \A l \in IndexIn(ms, n) : First(IndexIn(ms, n)) <= l
<1>1. PICK i \in 1 .. Len(ms) : ms[i].name = n
  BY DEF IndexIn
<1>2. PICK j \in 1 .. Len(ms) : ms[j].name = n /\ \A l \in 1 .. Len(ms) : ms[l].name = n => j <= l
  BY <1>1 DEF HasFirst
<1>3. j \in IndexIn(ms, n) /\ IndexIn(ms, n) \subseteq Nat /\ \A l \in IndexIn(ms, n) : j <= l
  BY <1>2 DEF IndexIn
<1>4. First(IndexIn(ms, n)) = j
  BY <1>3, LeastIsFirst
<1> QED
  BY <1>2, <1>3, <1>4

\* A file that has been read to its end
LEMMA ReadWhole ==
  ASSUME NEW lines \in Seq(ConfigLine), NEW ps \in Seq(Override), NEW ms \in Seq(Mod), NEW at,
         Follows(lines, at, ms, Len(lines)), HasFirst(ms)
  PROVE  Follow(lines, ps, ms, 0)
<1> SUFFICES ASSUME NEW n \in STRING
             PROVE  /\ SectionsIn(lines, n) # {} <=> IndexIn(ms, n) # {}
                    /\ SectionsIn(lines, n) # {} => First(SectionsIn(lines, n)) \in SectionsIn(lines, n)
                    /\ IndexIn(ms, n) # {} =>
                         \A k \in Keys : ms[First(IndexIn(ms, n))].set[k] = EffectiveIn(lines, ps, n, k, 0)
  BY DEF Follow
<1>1. /\ at \in [1 .. Len(ms) -> 1 .. Len(lines)] /\ Len(ms) \in Nat /\ Len(lines) \in Nat
      /\ \A i, j \in 1 .. Len(ms) : i < j => at[i] < at[j]
      /\ \A l \in 1 .. Len(lines) : lines[l].is = "module" => \E i \in 1 .. Len(ms) : at[i] = l
      /\ \A i \in 1 .. Len(ms) :
           /\ lines[at[i]].is = "module"
           /\ ms[i].name = lines[at[i]].name
           /\ \A k \in Keys : ms[i].set[k] = ValueSoFar(lines, at[i], k, Len(lines))
  BY DEF Follows
<1>2. \A i \in IndexIn(ms, n) : i \in 1 .. Len(ms) /\ at[i] \in SectionsIn(lines, n)
  BY <1>1 DEF IndexIn, SectionsIn
<1>3. \A l \in SectionsIn(lines, n) : \E i \in IndexIn(ms, n) : at[i] = l
  BY <1>1 DEF IndexIn, SectionsIn
<1>4. ASSUME IndexIn(ms, n) # {}
      PROVE  /\ First(SectionsIn(lines, n)) \in SectionsIn(lines, n)
             /\ \A k \in Keys : ms[First(IndexIn(ms, n))].set[k] = EffectiveIn(lines, ps, n, k, 0)
  <2> DEFINE f == First(IndexIn(ms, n))
  <2>1. f \in 1 .. Len(ms) /\ ms[f].name = n /\ \A l \in IndexIn(ms, n) : f <= l
    BY <1>4, FirstModule
  <2> HIDE DEF f
  <2>2. f \in IndexIn(ms, n)
    BY <2>1 DEF IndexIn
  <2>3. SectionsIn(lines, n) \subseteq Nat
    BY DEF SectionsIn
  <2>4. ASSUME NEW l \in SectionsIn(lines, n) PROVE at[f] <= l
    <3>1. PICK i \in IndexIn(ms, n) : at[i] = l
      BY <1>3
    <3>2. i \in 1 .. Len(ms) /\ f <= i
      BY <1>2, <2>1
    <3>3. at[f] \in Nat /\ at[i] \in Nat
      <4>1. at[f] \in 1 .. Len(lines) /\ at[i] \in 1 .. Len(lines)
        BY <1>1, <2>1, <3>2, Zenon
      <4> QED
        BY <1>1, <4>1
    <3>4. f = i \/ at[f] < at[i]
      <4>1. f \in 1 .. Len(ms) /\ i \in 1 .. Len(ms) /\ (f = i \/ f < i)
        BY <1>1, <2>1, <3>2
      <4> QED
        BY <1>1, <4>1
    <3> QED
      BY <3>1, <3>3, <3>4
  <2>5. First(SectionsIn(lines, n)) = at[f]
    BY <1>2, <2>2, <2>3, <2>4, LeastIsFirst
  <2>6. \A k \in Keys : GivenIn(ps, n, k, 0) = {}
    BY DEF GivenIn
  <2>7. First(SectionsIn(lines, n)) \in SectionsIn(lines, n)
    BY <1>2, <2>2, <2>5
  <2> QED
    BY <1>1, <2>1, <2>5, <2>6, <2>7 DEF EffectiveIn, f
<1> QED
  BY <1>2, <1>3, <1>4

LEMMA EndOfFileConfig ==
  ASSUME ConfigInv, EndOfFile
  PROVE  ConfigInv'
<1>1. /\ text = <<>> /\ text' = text /\ dpc = "config" /\ dpc' = "dparams"
      /\ wrote' = wrote /\ params' = params /\ current' = NoModule /\ modules' = SoFar
  BY DEF EndOfFile, SoFar
<1>2. SoFar \in Seq(Mod) /\ SoFar' = SoFar
  BY <1>1, SoFarType DEF SoFar, ConfigInv
<1>3. /\ wrote.lines \in Seq(ConfigLine) /\ wrote.params \in Seq(Override) /\ params = wrote.params
      /\ Len(text) = 0 /\ ReadSoFar = Len(wrote.lines) /\ GivenSoFar = 0
  BY <1>1 DEF ConfigInv, TextOK, ReadSoFar, GivenSoFar
<1>4. PICK at : Follows(wrote.lines, at, SoFar, Len(wrote.lines))
  BY <1>1, <1>3 DEF ConfigInv, Parsed
<1>5. Follow(wrote.lines, wrote.params, SoFar, 0)
  BY <1>2, <1>3, <1>4, ReadWhole DEF ConfigInv
<1>6. ReadSoFar' = ReadSoFar /\ GivenSoFar' = 0
  BY <1>1, <1>3 DEF ReadSoFar, GivenSoFar
<1>7. TextOK'
  BY <1>1, <1>2, <1>3, <1>6 DEF ConfigInv, TextOK
<1>8. Loaded'
  BY <1>1, <1>5, <1>6 DEF Loaded
<1> QED
  BY <1>1, <1>2, <1>7, <1>8 DEF ConfigInv, Parsed, Validated, Starting

\* An override sets a key of the first module of its name.
LEMMA AfterOverride ==
  ASSUME NEW lines, NEW ps \in Seq(Override), NEW ms \in Seq(Mod), HasFirst(ms),
         NEW q \in Nat, q + 1 <= Len(ps), Follow(lines, ps, ms, q),
         IndexIn(ms, ps[q + 1].name) # {}
  PROVE  LET new == [ms EXCEPT ![First(IndexIn(ms, ps[q + 1].name))] =
                       WithParam(@, ps[q + 1].key, ps[q + 1].value)]
         IN  new \in Seq(Mod) /\ HasFirst(new) /\ Follow(lines, ps, new, q + 1)
<1> DEFINE p == ps[q + 1]
           f == First(IndexIn(ms, p.name))
           m2 == WithParam(ms[f], p.key, p.value)
           new == [ms EXCEPT ![f] = m2]
<1>1. /\ p \in Override /\ p.name \in STRING /\ p.key \in Keys /\ p.value \in Value
      /\ NamesUsers(p.key, p.value)
  <2>1. p \in Override
    OBVIOUS
  <2> QED
    BY <2>1, LineTypes
<1>2. f \in 1 .. Len(ms) /\ ms[f].name = p.name /\ ms[f] \in Mod
  <2>1. IndexIn(ms, p.name) # {}
    OBVIOUS
  <2> HIDE DEF p
  <2>2. f \in 1 .. Len(ms) /\ ms[f].name = p.name
    BY <1>1, <2>1, FirstModule
  <2> HIDE DEF f
  <2> QED
    BY <2>2
<1>3. /\ m2 \in Mod /\ m2.name = p.name
      /\ \A k \in Keys : m2.set[k] = IF k = p.key THEN p.value ELSE ms[f].set[k]
  BY <1>1, <1>2, WithParamSets
<1> HIDE DEF m2, f
<1>4. /\ new \in Seq(Mod) /\ Len(new) = Len(ms) /\ Len(ms) \in Nat
      /\ \A i \in 1 .. Len(ms) : new[i] = IF i = f THEN m2 ELSE ms[i]
  <2> HIDE DEF p
  <2>1. f \in 1 .. Len(ms) /\ m2 \in Mod
    BY <1>2, <1>3
  <2>2. ms \in [1 .. Len(ms) -> Mod] /\ Len(ms) \in Nat
    OBVIOUS
  <2>3. new \in [1 .. Len(ms) -> Mod] /\ \A i \in 1 .. Len(ms) : new[i] = IF i = f THEN m2 ELSE ms[i]
    BY <2>1, <2>2
  <2> HIDE DEF new
  <2> QED
    BY <2>2, <2>3
<1> HIDE DEF new
<1>5. \A i \in 1 .. Len(ms) : new[i].name = ms[i].name
  BY <1>2, <1>3, <1>4
<1>6. HasFirst(new)
  BY <1>4, <1>5, RenamedHasFirst
<1>7. \A n \in STRING : IndexIn(new, n) = IndexIn(ms, n)
  BY <1>4, <1>5 DEF IndexIn
<1>8. ASSUME NEW n \in STRING, IndexIn(ms, n) # {}, NEW k \in Keys
      PROVE  new[First(IndexIn(ms, n))].set[k] = EffectiveIn(lines, ps, n, k, q + 1)
  <2> DEFINE g == First(IndexIn(ms, n))
  <2>1. g \in 1 .. Len(ms) /\ ms[g].name = n
    BY <1>8, FirstModule
  <2>2. ms[g].set[k] = EffectiveIn(lines, ps, n, k, q)
    BY <1>8 DEF Follow
  <2>3. n = p.name => g = f
    BY DEF f
  <2> HIDE DEF g
  <2>4. CASE n = p.name /\ k = p.key
    <3>1. q + 1 \in GivenIn(ps, n, k, q + 1)
      BY <2>4 DEF GivenIn
    <3>2. GivenIn(ps, n, k, q + 1) \subseteq Nat /\ \A j \in GivenIn(ps, n, k, q + 1) : j <= q + 1
      BY DEF GivenIn
    <3>3. LastOf(GivenIn(ps, n, k, q + 1)) = q + 1
      BY <3>1, <3>2, GreatestIsLast
    <3>4. EffectiveIn(lines, ps, n, k, q + 1) = p.value
      BY <3>1, <3>3 DEF EffectiveIn
    <3>5. new[g].set[k] = p.value
      BY <1>3, <1>4, <2>1, <2>3, <2>4
    <3> QED
      BY <3>4, <3>5 DEF g
  <2>5. CASE ~(n = p.name /\ k = p.key)
    <3>1. GivenIn(ps, n, k, q + 1) = GivenIn(ps, n, k, q)
      BY <2>5 DEF GivenIn
    <3>2. EffectiveIn(lines, ps, n, k, q + 1) = EffectiveIn(lines, ps, n, k, q)
      BY <3>1 DEF EffectiveIn
    <3>3. new[g].set[k] = ms[g].set[k]
      BY <1>2, <1>3, <1>4, <2>1, <2>3, <2>5
    <3> QED
      BY <2>2, <3>2, <3>3 DEF g
  <2> QED
    BY <2>4, <2>5
<1>9. Follow(lines, ps, new, q + 1)
  <2>1. \A n \in STRING :
          /\ SectionsIn(lines, n) # {} <=> IndexIn(new, n) # {}
          /\ SectionsIn(lines, n) # {} => First(SectionsIn(lines, n)) \in SectionsIn(lines, n)
    BY <1>7 DEF Follow
  <2>2. \A n \in STRING : IndexIn(new, n) # {} =>
          \A k \in Keys : new[First(IndexIn(new, n))].set[k] = EffectiveIn(lines, ps, n, k, q + 1)
    BY <1>7, <1>8
  <2> QED
    BY <2>1, <2>2 DEF Follow
<1> QED
  BY <1>4, <1>6, <1>9 DEF new, m2, f

LEMMA ApplyDparamConfig ==
  ASSUME ConfigInv, ApplyDparam
  PROVE  ConfigInv'
<1> DEFINE q == GivenSoFar
           p == Head(params)
<1>1. /\ dpc = "dparams" /\ params # <<>> /\ params' = Tail(params) /\ text' = text
      /\ wrote' = wrote /\ current' = current /\ current = NoModule /\ SoFar = modules
      /\ params \in Seq(Override) /\ wrote.params \in Seq(Override) /\ Len(params) <= Len(wrote.params)
      /\ modules \in Seq(Mod) /\ HasFirst(modules)
  BY DEF ApplyDparam, ConfigInv, TextOK, SoFar
<1>2. /\ q \in Nat /\ q + 1 <= Len(wrote.params) /\ GivenSoFar' = q + 1
      /\ p = wrote.params[q + 1]
      /\ Len(params) \in Nat /\ Len(params) >= 1 /\ Len(params') = Len(params) - 1
      /\ \A i \in 1 .. Len(params') : params'[i] = params[i + 1]
  BY <1>1 DEF GivenSoFar, ConfigInv, TextOK
<1>3. \A i \in 1 .. Len(params') : params'[i] = wrote'.params[GivenSoFar' + i]
  <2> SUFFICES ASSUME NEW i \in 1 .. Len(params') PROVE params'[i] = wrote.params[q + 1 + i]
    BY <1>1, <1>2
  <2>1. i + 1 \in 1 .. Len(params) /\ q + (i + 1) = q + 1 + i
    BY <1>2
  <2>2. params[i + 1] = wrote.params[q + (i + 1)]
    BY <2>1 DEF ConfigInv, TextOK
  <2> QED
    BY <1>2, <2>1, <2>2
<1>4. IndexOf(p.name) = IndexIn(modules, p.name)
  BY DEF IndexOf, IndexIn
<1>5. /\ dpc' \in {"dparams", "stopped"}
      /\ modules' \in Seq(Mod) /\ HasFirst(modules')
      /\ dpc' = "dparams" => Follow(wrote.lines, wrote.params, modules', q + 1)
  <2>1. CASE IndexIn(modules, p.name) # {}
    <3>1. /\ modules' = [modules EXCEPT ![First(IndexIn(modules, p.name))] = WithParam(@, p.key, p.value)]
          /\ dpc' = dpc
      BY <1>4, <2>1 DEF ApplyDparam
    <3>2. Follow(wrote.lines, wrote.params, modules, q)
      BY <1>1 DEF ConfigInv, Loaded
    <3>3. /\ modules' \in Seq(Mod) /\ HasFirst(modules')
          /\ Follow(wrote.lines, wrote.params, modules', q + 1)
      <4> HIDE DEF q, p
      <4>1. IndexIn(modules, wrote.params[q + 1].name) # {}
        BY <1>2, <2>1
      <4>2. modules' = [modules EXCEPT ![First(IndexIn(modules, wrote.params[q + 1].name))] =
                          WithParam(@, wrote.params[q + 1].key, wrote.params[q + 1].value)]
        BY <1>2, <3>1
      <4> QED
        BY <1>1, <1>2, <3>2, <4>1, <4>2, AfterOverride
    <3> QED
      BY <1>1, <3>1, <3>3
  <2>2. CASE IndexIn(modules, p.name) = {}
    BY <1>1, <1>4, <2>2 DEF ApplyDparam
  <2> QED
    BY <2>1, <2>2
<1>6. SoFar' = modules'
  BY <1>1 DEF SoFar
<1>7. TextOK'
  <2>1. ReadSoFar' = ReadSoFar
    BY <1>1 DEF ReadSoFar
  <2>2. params' \in Seq(Override) /\ Len(params') <= Len(wrote'.params)
    BY <1>1, <1>2
  <2>3. /\ wrote'.lines \in Seq(ConfigLine) /\ text' \in Seq(ConfigLine)
        /\ Len(text') <= Len(wrote'.lines)
        /\ \A i \in 1 .. Len(text') : text'[i] = wrote'.lines[ReadSoFar' + i]
    BY <1>1, <2>1 DEF TextOK, ConfigInv
  <2>4. wrote'.params \in Seq(Override) /\ dpc' \in {"dparams", "stopped"} /\ current' = NoModule
    BY <1>1, <1>5
  <2> QED
    BY <1>3, <1>5, <2>2, <2>3, <2>4 DEF TextOK
<1>8. Loaded'
  BY <1>1, <1>2, <1>5 DEF Loaded
<1> QED
  BY <1>5, <1>6, <1>7, <1>8 DEF ConfigInv, Parsed, Validated, Starting

LEMMA ValidateConfig ==
  ASSUME ConfigInv, Validate
  PROVE  ConfigInv'
<1>1. /\ dpc = "dparams" /\ params = <<>> /\ dpc' \in {"accept", "stopped"}
      /\ text' = text /\ wrote' = wrote /\ current' = current /\ modules' = modules /\ params' = params
      /\ dpc' = "accept" => modules # <<>> /\ \A i \in 1 .. Len(modules) : ModuleValid(modules[i])
  BY DEF Validate, config
<1>2. SoFar' = SoFar /\ ReadSoFar' = ReadSoFar /\ GivenSoFar' = GivenSoFar
  BY <1>1 DEF SoFar, ReadSoFar, GivenSoFar
<1>3. TextOK'
  BY <1>1, <1>2 DEF TextOK, ConfigInv
<1>4. HasFirst(SoFar)' /\ Parsed' /\ Loaded'
  BY <1>1, <1>2 DEF ConfigInv, Parsed, Loaded
<1>5. Validated'
  BY <1>1 DEF Validated, Starting, ModuleValid
<1> QED
  BY <1>3, <1>4, <1>5 DEF ConfigInv

\* Serving changes nothing of it.
LEMMA ServingConfig ==
  ASSUME ConfigInv, UNCHANGED config, dpc' = dpc \/ (dpc \notin Starting /\ dpc' \notin Starting)
  PROVE  ConfigInv'
<1>1. /\ text' = text /\ wrote' = wrote /\ current' = current /\ modules' = modules /\ params' = params
  BY DEF config
<1>2. SoFar' = SoFar /\ ReadSoFar' = ReadSoFar /\ GivenSoFar' = GivenSoFar
  BY <1>1 DEF SoFar, ReadSoFar, GivenSoFar
<1>3. TextOK'
  BY <1>1, <1>2 DEF TextOK, ConfigInv, Starting
<1>4. HasFirst(SoFar)' /\ Parsed' /\ Loaded'
  BY <1>1, <1>2 DEF ConfigInv, Parsed, Loaded, Starting
<1>5. Validated'
  BY <1>1 DEF Validated, Starting, ModuleValid, ConfigInv
<1> QED
  BY <1>3, <1>4, <1>5 DEF ConfigInv

-----------------------------------------------------------------------------
(* Connections                                                             *)

DaemonSteps == Starting \cup {"accept", "greeting", "request", "list", "auth", "args", "send", "receive"}
ClientSteps == {"start", "greeting", "listing", "selection", "setup", "transfer", "done", "failed"}

StateOK ==
    /\ dpc \in DaemonSteps
    /\ conn \in Clients \cup {"none"}
    /\ conn = "none" <=> dpc \in Starting \cup {"accept"}
    /\ dpc \in Starting => closed = {}
    /\ backlog \in Seq(Clients)
    /\ \A i, j \in 1 .. Len(backlog) : backlog[i] = backlog[j] => i = j
    /\ closed \subseteq Clients
    /\ cpc \in [Clients -> ClientSteps]
    /\ jobs \in [Clients -> Job]
    /\ DOMAIN toServer = Clients /\ DOMAIN toClient = Clients
    /\ DOMAIN shown = Clients /\ DOMAIN down = Clients
    /\ row \in Nat

Queues(c) == \E i \in 1 .. Len(backlog) : backlog[i] = c

\* The module that a client asks for, and who may do what with it
Known(c) == Transfers(c) /\ IndexIn(modules, jobs[c].request) # {}
Mine(c) == modules[First(IndexIn(modules, jobs[c].request))]

Admitted(c) ==
    \/ Mine(c).set["auth users"] = {}
    \/ /\ jobs[c].user \in Mine(c).set["auth users"]
       /\ jobs[c].password # "none"
       /\ jobs[c].password = Secrets[Mine(c).set["secrets file"]][jobs[c].user]

Allowed(c) == IF jobs[c].push THEN ~Mine(c).set["read only"] ELSE ~Mine(c).set["write only"]

May(c) == Known(c) /\ Admitted(c) /\ Allowed(c) /\ jobs[c].path = "safe"

Excused(c) == jobs[c].protocol = 27 \/ jobs[c].early \/ jobs[c].greets < 31

\* A client that asks for a transfer fails for a reason.
Rightly(c) == Transfers(c) => ~May(c) \/ Excused(c)

\* Where a client is and what is in its two streams
At(c, at, ts, tc) == cpc[c] = at /\ toServer[c] = ts /\ toClient[c] = tc

Asking(c) == IF jobs[c].request = "#list" THEN "listing" ELSE "selection"

AnswerOf(c) ==
    [user |-> jobs[c].user,
     hash |-> Response(jobs[c].password, c, AuthChecksum(GreetingOf(jobs[c])))]

\* The lines of a listing: what was shown and what is on its way are modules
\* to be listed, and of the first n none with a comment is missing.
ListingLine == [is : {"motd", "EXIT"}] \cup [is : {"module"}, name : STRING, comment : Value]

Offered(n) == \E i \in 1 .. Len(modules) : modules[i].name = n /\ modules[i].set["list"]

Underway(tc, m) ==
    \E j \in 1 .. Len(tc) : tc[j].is = "module" /\ tc[j].name = m.name /\ tc[j].comment = m.set["comment"]

Listing(c, n) ==
    /\ ~Transfers(c)
    /\ cpc[c] = "listing"
    /\ toClient[c] \in Seq(ListingLine)
    /\ \A j \in 1 .. Len(toClient[c]) : toClient[c][j].is = "module" => Offered(toClient[c][j].name)
    /\ \A m \in shown[c] : Offered(m)
    /\ \A i \in 1 .. n :
         modules[i].set["list"] /\ modules[i].set["comment"] # "" =>
           modules[i].name \in shown[c] \/ Underway(toClient[c], modules[i])

Complete(c) ==
    /\ \A m \in shown[c] : Offered(m)
    /\ \A i \in 1 .. Len(modules) :
         modules[i].set["list"] /\ modules[i].set["comment"] # "" => modules[i].name \in shown[c]

\* Not connected yet
Idle(c) == At(c, "start", <<>>, <<>>) /\ shown[c] = {}
Queued(c) == At(c, "greeting", <<>>, <<>>) /\ shown[c] = {}

\* Served: how far the daemon and the client are
AtGreeting(c) ==
    /\ dpc = "greeting"
    /\ shown[c] = {}
    /\ \/ At(c, "greeting", <<>>, <<"Greeting">>)
       \/ At(c, Asking(c), <<GreetingOf(jobs[c]), jobs[c].request>>, <<>>)

AtRequest(c) ==
    dpc = "request" /\ shown[c] = {} /\ At(c, Asking(c), <<jobs[c].request>>, <<>>)

AtList(c) ==
    /\ dpc = "list"
    /\ toServer[c] = <<>>
    /\ row <= Len(modules)
    /\ Listing(c, row)
    /\ \A j \in 1 .. Len(toClient[c]) : toClient[c][j].is # "EXIT"

AtAuth(c) ==
    /\ dpc = "auth"
    /\ Known(c) /\ chosen = Mine(c) /\ Mine(c).set["auth users"] # {}
    /\ \/ At(c, "selection", <<>>, <<"AUTHREQD">>)
       \/ At(c, "selection", <<AnswerOf(c)>>, <<>>) /\ HasCredentials(jobs[c])
       \/ At(c, "failed", <<>>, <<>>) /\ ~HasCredentials(jobs[c])

AtArgs(c) ==
    /\ dpc = "args"
    /\ Known(c) /\ chosen = Mine(c) /\ Admitted(c)
    /\ \/ At(c, "selection", <<>>, <<"OK">>)
       \/ At(c, "setup", <<ArgsOf(jobs[c])>>, <<>>)

AtTransfer(c) ==
    /\ dpc = IF jobs[c].push THEN "receive" ELSE "send"
    /\ Known(c) /\ Admitted(c) /\ Allowed(c)
    /\ jobs[c].push => jobs[c].path = "safe"
    /\ \/ At(c, "setup", <<>>, <<"Setup">>)
       \/ At(c, "transfer", <<"Data">>, <<>>)

Served(c) ==
    \/ AtGreeting(c) \/ AtRequest(c) \/ AtList(c)
    \/ AtAuth(c) \/ AtArgs(c) \/ AtTransfer(c)

\* Closed by the daemon: what the client still has to read decides
Ended(c) ==
    \/ down[c] = "dead" /\ cpc[c] \notin {"done", "failed"}
    \/ cpc[c] = "failed" /\ Rightly(c)
    \/ cpc[c] = "done" /\ (Transfers(c) => May(c)) /\ (~Transfers(c) => Complete(c))

ListEnds(c) ==
    /\ Listing(c, Len(modules))
    /\ toClient[c] # <<>>
    /\ \A j \in 1 .. Len(toClient[c]) : toClient[c][j].is = "EXIT" <=> j = Len(toClient[c])

Hearing(c) ==
    /\ Transfers(c)
    /\ \/ cpc[c] = "selection" /\ toClient[c] = <<"ERROR">> /\ Rightly(c)
       \/ cpc[c] = "setup" /\ toClient[c] = <<>> /\ Rightly(c)
       \/ cpc[c] = "setup" /\ toClient[c] = <<"ERROR">> /\ Rightly(c)
       \/ cpc[c] = "setup" /\ toClient[c] = <<"Setup">> /\ Rightly(c)
       \/ cpc[c] = "transfer" /\ toClient[c] = <<"rest">> /\ Rightly(c)
       \/ cpc[c] = "transfer" /\ toClient[c] = <<>> /\ Rightly(c)
       \/ cpc[c] = "transfer" /\ toClient[c] = <<"Data">> /\ May(c)

Over(c) == Ended(c) \/ ListEnds(c) \/ Hearing(c)

\* What holds of a client at every moment
ClientOK(c) ==
    /\ c = conn => c \notin closed /\ Served(c)
    /\ c \in closed => Over(c)
    /\ Queues(c) => c # conn /\ c \notin closed /\ Queued(c)
    /\ c # conn /\ c \notin closed /\ ~Queues(c) => Idle(c)

\* The inductive invariant of the daemon and all its clients
Inv == StateOK /\ ConfigInv /\ \A c \in Clients : ClientOK(c)

-----------------------------------------------------------------------------
(* What a step leaves alone                                                *)

\* What may be done depends on the configuration and the job only.
LEMMA SameRights ==
  ASSUME modules' = modules, jobs' = jobs, NEW CONSTANT c \in Clients
  PROVE  /\ Transfers(c)' <=> Transfers(c)
         /\ Known(c)' <=> Known(c)
         /\ Mine(c)' = Mine(c)
         /\ Admitted(c)' <=> Admitted(c)
         /\ Allowed(c)' <=> Allowed(c)
         /\ May(c)' <=> May(c)
         /\ Rightly(c)' <=> Rightly(c)
         /\ Asking(c)' = Asking(c)
         /\ AnswerOf(c)' = AnswerOf(c)
<1>1. (Transfers(c)' <=> Transfers(c)) /\ (Known(c)' <=> Known(c)) /\ Mine(c)' = Mine(c)
  BY DEF Transfers, Known, Mine
<1>2. (Admitted(c)' <=> Admitted(c)) /\ (Allowed(c)' <=> Allowed(c))
  BY <1>1 DEF Admitted, Allowed
<1>3. May(c)' <=> May(c)
  BY <1>1, <1>2 DEF May
<1>4. Rightly(c)' <=> Rightly(c)
  BY <1>1, <1>3 DEF Rightly, Excused
<1>5. Asking(c)' = Asking(c) /\ AnswerOf(c)' = AnswerOf(c)
  BY DEF Asking, AnswerOf
<1> QED
  BY <1>1, <1>2, <1>3, <1>4, <1>5

Same(c) ==
    cpc'[c] = cpc[c] /\ toServer'[c] = toServer[c] /\ toClient'[c] = toClient[c] /\ shown'[c] = shown[c]

LEMMA SameListing ==
  ASSUME modules' = modules, jobs' = jobs, NEW CONSTANT c \in Clients, Same(c), NEW CONSTANT n
  PROVE  (Listing(c, n)' <=> Listing(c, n)) /\ (Complete(c)' <=> Complete(c))
<1>1. \A m : Offered(m)' <=> Offered(m)
  BY DEF Offered
<1>2. Transfers(c)' <=> Transfers(c)
  BY SameRights
<1>3. Listing(c, n)' <=> Listing(c, n)
  BY <1>1, <1>2, Zenon DEF Listing, Same
<1>4. Complete(c)' <=> Complete(c)
  BY <1>1, Zenon DEF Complete, Same
<1> QED
  BY <1>3, <1>4

LEMMA SameOver ==
  ASSUME modules' = modules, jobs' = jobs, NEW CONSTANT c \in Clients, Same(c), Over(c),
         down'[c] = down[c] \/ (down[c] # "dead" /\ cpc[c] \notin {"done", "failed"})
  PROVE  Over(c)'
<1>1. CASE Ended(c)
  <2>1. Complete(c)' <=> Complete(c)
    BY SameListing
  <2> QED
    BY <1>1, <2>1, SameRights DEF Ended, Same, Over
<1>2. CASE ListEnds(c)
  <2>1. Listing(c, Len(modules))' <=> Listing(c, Len(modules))
    BY SameListing DEF Listing
  <2> QED
    BY <1>2, <2>1 DEF ListEnds, Same, Over
<1>3. CASE Hearing(c)
  BY <1>3, SameRights DEF Hearing, Same, Over
<1> QED
  BY <1>1, <1>2, <1>3 DEF Over

\* A client that is not being served
LEMMA Away ==
  ASSUME NEW CONSTANT d \in Clients, ClientOK(d), modules' = modules, jobs' = jobs, Same(d),
         down'[d] = down[d], d # conn, d # conn', d \in closed' <=> d \in closed,
         Queues(d)' <=> Queues(d)
  PROVE  ClientOK(d)'
<1>1. d \in closed => Over(d)'
  BY SameOver DEF ClientOK
<1>2. (Queued(d)' <=> Queued(d)) /\ (Idle(d)' <=> Idle(d))
  BY DEF Queued, Idle, At, Same
<1> QED
  BY <1>1, <1>2 DEF ClientOK

\* Any client, while the daemon stands still
LEMMA SameServed ==
  ASSUME modules' = modules, jobs' = jobs, NEW CONSTANT c \in Clients, Same(c), Served(c),
         dpc' = dpc, chosen' = chosen, row' = row
  PROVE  Served(c)'
<1>1. CASE AtGreeting(c)
  BY <1>1, SameRights DEF Served, AtGreeting, At, Same
<1>2. CASE AtRequest(c)
  BY <1>2, SameRights DEF Served, AtRequest, At, Same
<1>3. CASE AtList(c)
  <2>1. Listing(c, row)' <=> Listing(c, row)
    BY SameListing DEF Listing
  <2> QED
    BY <1>3, <2>1 DEF Served, AtList, Same
<1>4. CASE AtAuth(c)
  BY <1>4, SameRights DEF Served, AtAuth, At, Same
<1>5. CASE AtArgs(c)
  BY <1>5, SameRights DEF Served, AtArgs, At, Same
<1>6. CASE AtTransfer(c)
  BY <1>6, SameRights DEF Served, AtTransfer, At, Same
<1> QED
  BY <1>1, <1>2, <1>3, <1>4, <1>5, <1>6 DEF Served

LEMMA Bystander ==
  ASSUME NEW CONSTANT d \in Clients, ClientOK(d), modules' = modules, jobs' = jobs, Same(d),
         down'[d] = down[d] \/ (down[d] # "dead" /\ cpc[d] \notin {"done", "failed"}),
         dpc' = dpc, chosen' = chosen, row' = row, conn' = conn, closed' = closed,
         Queues(d)' <=> Queues(d)
  PROVE  ClientOK(d)'
<1>1. d \in closed => Over(d)'
  BY SameOver DEF ClientOK
<1>2. (Queued(d)' <=> Queued(d)) /\ (Idle(d)' <=> Idle(d))
  BY DEF Queued, Idle, At, Same
<1>3. d = conn => Served(d)'
  BY SameServed DEF ClientOK
<1> QED
  BY <1>1, <1>2, <1>3 DEF ClientOK

-----------------------------------------------------------------------------
(* Starting up                                                             *)

\* Before the daemon listens nobody has connected.
LEMMA StartupKeeps ==
  ASSUME Inv, UNCHANGED <<jobs, conn, chosen, row, backlog, closed, cpc, toServer, toClient, down, shown>>,
         dpc \in Starting, dpc' \in Starting \cup {"accept"}
  PROVE  StateOK' /\ \A c \in Clients : ClientOK(c)'
<1>1. StateOK'
  BY DEF Inv, StateOK, DaemonSteps
<1>2. ASSUME NEW c \in Clients PROVE ClientOK(c)'
  <2>1. ClientOK(c) /\ c # conn /\ c \notin closed
    BY DaemonAssumption DEF Inv, StateOK
  <2>2. (Queues(c)' <=> Queues(c)) /\ (Queued(c)' <=> Queued(c)) /\ (Idle(c)' <=> Idle(c))
    BY DEF Queues, Queued, Idle, At
  <2> QED
    BY <2>1, <2>2 DEF ClientOK
<1> QED
  BY <1>1, <1>2

LEMMA StartupInv ==
  ASSUME Inv, Startup
  PROVE  Inv'
<1>1. CASE ReadLine
  <2>1. dpc = "config" /\ dpc' \in {"config", "stopped"}
    BY <1>1 DEF ReadLine
  <2> QED
    BY <1>1, <2>1, StartupKeeps, ReadLineConfig DEF Inv, ReadLine, Fixed, Starting
<1>2. CASE EndOfFile
  BY <1>2, StartupKeeps, EndOfFileConfig DEF Inv, EndOfFile, Fixed, Starting
<1>3. CASE ApplyDparam
  <2>1. dpc = "dparams" /\ dpc' \in {"dparams", "stopped"}
    BY <1>3 DEF ApplyDparam
  <2> QED
    BY <1>3, <2>1, StartupKeeps, ApplyDparamConfig DEF Inv, ApplyDparam, Fixed, Starting
<1>4. CASE Validate
  BY <1>4, StartupKeeps, ValidateConfig DEF Inv, Validate, Fixed, Starting
<1> QED
  BY <1>1, <1>2, <1>3, <1>4 DEF Startup

-----------------------------------------------------------------------------
(* The clients                                                             *)

\* A step of a client is seen by no other.
LEMMA ClientMoves ==
  ASSUME Inv, NEW CONSTANT c \in Clients, ClientOnly,
         DOMAIN toServer' = Clients, DOMAIN toClient' = Clients, DOMAIN shown' = Clients,
         cpc' \in [Clients -> ClientSteps],
         \A d \in Clients \ {c} : Same(d),
         ClientOK(c)'
  PROVE  Inv'
<1>1. /\ UNCHANGED config /\ UNCHANGED down
      /\ dpc' = dpc /\ conn' = conn /\ chosen' = chosen /\ row' = row /\ backlog' = backlog
      /\ closed' = closed /\ modules' = modules /\ jobs' = jobs
  BY DEF ClientOnly, daemon, config
<1>2. StateOK'
  BY <1>1 DEF Inv, StateOK
<1>3. ConfigInv'
  BY <1>1, ServingConfig DEF Inv
<1>4. ASSUME NEW d \in Clients, d # c PROVE ClientOK(d)'
  <2>1. Queues(d)' <=> Queues(d)
    BY <1>1 DEF Queues
  <2>2. ClientOK(d) /\ Same(d) /\ down'[d] = down[d]
    BY <1>1, <1>4 DEF Inv
  <2> QED
    BY <1>1, <2>1, <2>2, Bystander
<1> QED
  BY <1>2, <1>3, <1>4 DEF Inv

\* A client that takes a line, or comes to the end of its stream, and says
\* something
Speaks(c, tc, lines, next) ==
    /\ DOMAIN toServer' = Clients /\ DOMAIN toClient' = Clients /\ DOMAIN shown' = Clients
    /\ cpc' \in [Clients -> ClientSteps]
    /\ \A d \in Clients \ {c} : Same(d)
    /\ cpc'[c] = next /\ toClient'[c] = tc /\ shown'[c] = shown[c]
    /\ toServer'[c] = IF c \in closed THEN toServer[c] ELSE toServer[c] \o lines

LEMMA Speaking ==
  ASSUME StateOK, NEW c \in Clients, NEW tc, NEW lines, NEW next \in ClientSteps,
         toClient' = [toClient EXCEPT ![c] = tc], Say(c, lines, next), UNCHANGED shown
  PROVE  Speaks(c, tc, lines, next)
  BY DEF StateOK, Say, Speaks, Same

LEMMA GreetInv ==
  ASSUME Inv, NEW c \in Clients, Greet(c)
  PROVE  Inv'
<1> DEFINE lines == <<GreetingOf(jobs[c]), jobs[c].request>>
<1>1. /\ cpc[c] = "greeting" /\ toClient[c] # <<>> /\ down[c] = "no" /\ ClientOK(c) /\ StateOK
      /\ ClientOnly /\ dpc' = dpc /\ conn' = conn /\ closed' = closed /\ backlog' = backlog
      /\ modules' = modules /\ jobs' = jobs
  BY DEF Greet, Hears, Alive, Inv, ClientOnly, daemon, config
<1>2. Asking(c) \in ClientSteps
  BY DEF Asking, ClientSteps
<1>3. Speaks(c, Tail(toClient[c]), lines, Asking(c))
  BY <1>1, <1>2, Speaking DEF Greet, Consume, Asking
<1>4. c \notin closed
  BY <1>1 DEF ClientOK, Over, Ended, ListEnds, Listing, Hearing
<1>5. ~Queues(c)
  BY <1>1 DEF ClientOK, Queued, At
<1>6. c = conn
  BY <1>1, <1>4, <1>5 DEF ClientOK, Idle, At
<1>7. AtGreeting(c) /\ At(c, "greeting", <<>>, <<"Greeting">>)
  <2>1. Asking(c) # "greeting"
    BY DEF Asking
  <2> QED
    BY <1>1, <1>6, <2>1 DEF ClientOK, Served, AtGreeting, AtRequest, AtList, AtAuth, AtArgs, AtTransfer, At,
                            Listing
<1>8. AtGreeting(c)'
  <2>1. toClient'[c] = <<>> /\ toServer'[c] = lines
    BY <1>3, <1>4, <1>7 DEF Speaks, At
  <2> QED
    BY <1>1, <1>3, <1>7, <2>1 DEF Speaks, AtGreeting, At, Asking
<1>9. ClientOK(c)'
  BY <1>1, <1>4, <1>5, <1>6, <1>8 DEF ClientOK, Served, Queues
<1> QED
  BY <1>1, <1>3, <1>9, ClientMoves DEF Speaks

LEMMA ReadSelectionInv ==
  ASSUME Inv, NEW c \in Clients, ReadSelection(c)
  PROVE  Inv'
<1>1. /\ cpc[c] = "selection" /\ toClient[c] # <<>> /\ down[c] = "no" /\ ClientOK(c) /\ StateOK
      /\ ClientOnly /\ dpc' = dpc /\ conn' = conn /\ closed' = closed /\ backlog' = backlog
      /\ chosen' = chosen /\ modules' = modules /\ jobs' = jobs /\ UNCHANGED shown
      /\ toClient' = [toClient EXCEPT ![c] = Tail(toClient[c])]
  BY DEF ReadSelection, Hears, Alive, Inv, ClientOnly, daemon, config, Consume
<1>2. ~Queues(c)
  BY <1>1 DEF ClientOK, Queued, At
<1>3. Queues(c)' <=> Queues(c)
  BY <1>1 DEF Queues
<1>4. \/ c = conn /\ c \notin closed /\ AtAuth(c) /\ At(c, "selection", <<>>, <<"AUTHREQD">>)
      \/ c = conn /\ c \notin closed /\ AtArgs(c) /\ At(c, "selection", <<>>, <<"OK">>)
      \/ c # conn /\ c \in closed /\ toClient[c] = <<"ERROR">> /\ Transfers(c) /\ Rightly(c)
  <2>1. CASE c = conn
    BY <1>1, <2>1 DEF ClientOK, Served, AtGreeting, AtRequest, AtList, AtAuth, AtArgs, AtTransfer, At, Listing
  <2>2. CASE c # conn
    <3>1. c \in closed
      BY <1>1, <1>2, <2>2 DEF ClientOK, Idle, At
    <3> QED
      BY <1>1, <2>2, <3>1 DEF ClientOK, Over, Ended, ListEnds, Listing, Hearing
  <2> QED
    BY <2>1, <2>2
<1>5. {"failed", "selection", "setup"} \subseteq ClientSteps
  BY DEF ClientSteps
<1>6. CASE c = conn /\ c \notin closed /\ AtAuth(c) /\ At(c, "selection", <<>>, <<"AUTHREQD">>)
  <2>1. Heard(c) = "AUTHREQD" /\ Tail(toClient[c]) = <<>> /\ toServer[c] = <<>>
    BY <1>6 DEF At, Heard
  <2>2. CASE HasCredentials(jobs[c])
    <3>1. Say(c, <<AnswerOf(c)>>, "selection")
      BY <2>1, <2>2 DEF ReadSelection, AnswerOf
    <3>2. Speaks(c, <<>>, <<AnswerOf(c)>>, "selection")
      BY <1>1, <1>5, <2>1, <3>1, Speaking
    <3>3. toServer'[c] = <<AnswerOf(c)>> /\ toClient'[c] = <<>> /\ cpc'[c] = "selection"
      BY <1>6, <2>1, <3>2 DEF Speaks
    <3>4. AtAuth(c)'
      BY <1>1, <1>6, <2>2, <3>3, SameRights DEF AtAuth, At
    <3>5. ClientOK(c)'
      BY <1>1, <1>2, <1>3, <1>6, <3>4 DEF ClientOK, Served
    <3> QED
      BY <1>1, <3>2, <3>5, ClientMoves DEF Speaks
  <2>3. CASE ~HasCredentials(jobs[c])
    <3>1. Say(c, <<>>, "failed")
      BY <2>1, <2>3 DEF ReadSelection
    <3>2. Speaks(c, <<>>, <<>>, "failed")
      BY <1>1, <1>5, <2>1, <3>1, Speaking
    <3>3. toServer'[c] = <<>> /\ toClient'[c] = <<>> /\ cpc'[c] = "failed"
      BY <1>6, <2>1, <3>2 DEF Speaks
    <3>4. AtAuth(c)'
      BY <1>1, <1>6, <2>3, <3>3, SameRights DEF AtAuth, At
    <3>5. ClientOK(c)'
      BY <1>1, <1>2, <1>3, <1>6, <3>4 DEF ClientOK, Served
    <3> QED
      BY <1>1, <3>2, <3>5, ClientMoves DEF Speaks
  <2> QED
    BY <2>2, <2>3
<1>7. CASE c = conn /\ c \notin closed /\ AtArgs(c) /\ At(c, "selection", <<>>, <<"OK">>)
  <2>1. Heard(c) = "OK" /\ Tail(toClient[c]) = <<>> /\ toServer[c] = <<>>
    BY <1>7 DEF At, Heard
  <2>2. Say(c, <<ArgsOf(jobs[c])>>, "setup")
    BY <2>1 DEF ReadSelection
  <2>3. Speaks(c, <<>>, <<ArgsOf(jobs[c])>>, "setup")
    BY <1>1, <1>5, <2>1, <2>2, Speaking
  <2>4. toServer'[c] = <<ArgsOf(jobs[c])>> /\ toClient'[c] = <<>> /\ cpc'[c] = "setup"
    BY <1>7, <2>1, <2>3 DEF Speaks
  <2>5. AtArgs(c)'
    BY <1>1, <1>7, <2>4, SameRights DEF AtArgs, At
  <2>6. ClientOK(c)'
    BY <1>1, <1>2, <1>3, <1>7, <2>5 DEF ClientOK, Served
  <2> QED
    BY <1>1, <2>3, <2>6, ClientMoves DEF Speaks
<1>8. CASE c # conn /\ c \in closed /\ toClient[c] = <<"ERROR">> /\ Transfers(c) /\ Rightly(c)
  <2>1. Heard(c) = "ERROR" /\ Tail(toClient[c]) = <<>>
    BY <1>8 DEF Heard
  <2>2. Say(c, <<>>, "failed")
    BY <2>1 DEF ReadSelection
  <2>3. Speaks(c, <<>>, <<>>, "failed")
    BY <1>1, <1>5, <2>1, <2>2, Speaking
  <2>4. Over(c)'
    BY <1>1, <1>8, <2>3, SameRights DEF Over, Ended, Speaks
  <2>5. ClientOK(c)'
    BY <1>1, <1>2, <1>3, <1>8, <2>4 DEF ClientOK
  <2> QED
    BY <1>1, <2>3, <2>5, ClientMoves DEF Speaks
<1> QED
  BY <1>4, <1>6, <1>7, <1>8

LEMMA ReadSetupInv ==
  ASSUME Inv, NEW c \in Clients, ReadSetup(c)
  PROVE  Inv'
<1> DEFINE tc == IF Heard(c) = "ERROR" THEN <<"rest">> \o Tail(toClient[c]) ELSE Tail(toClient[c])
<1>1. /\ cpc[c] = "setup" /\ toClient[c] # <<>> /\ down[c] = "no" /\ ClientOK(c) /\ StateOK
      /\ ClientOnly /\ dpc' = dpc /\ conn' = conn /\ closed' = closed /\ backlog' = backlog
      /\ chosen' = chosen /\ modules' = modules /\ jobs' = jobs /\ UNCHANGED shown
      /\ toClient' = [toClient EXCEPT ![c] = tc]
      /\ Say(c, <<"Data">>, "transfer")
  BY DEF ReadSetup, Hears, Alive, Inv, ClientOnly, daemon, config
<1>2. ~Queues(c) /\ ~Queues(c)'
  BY <1>1 DEF ClientOK, Queued, At, Queues
<1>3. Speaks(c, tc, <<"Data">>, "transfer")
  <2> HIDE DEF tc
  <2>1. "transfer" \in ClientSteps
    BY DEF ClientSteps
  <2> QED
    BY <1>1, <2>1, Speaking
<1>4. \/ c = conn /\ c \notin closed /\ AtTransfer(c) /\ At(c, "setup", <<>>, <<"Setup">>)
      \/ /\ c # conn /\ c \in closed /\ Transfers(c) /\ Rightly(c)
         /\ toClient[c] \in {<<"ERROR">>, <<"Setup">>}
  <2>1. CASE c = conn
    <3>1. Asking(c) # "setup"
      BY DEF Asking
    <3> QED
      BY <1>1, <2>1, <3>1 DEF ClientOK, Served, AtGreeting, AtRequest, AtList, AtAuth, AtArgs, AtTransfer, At,
                              Listing
  <2>2. CASE c # conn
    <3>1. c \in closed
      BY <1>1, <1>2, <2>2 DEF ClientOK, Idle, At
    <3> QED
      BY <1>1, <2>2, <3>1 DEF ClientOK, Over, Ended, ListEnds, Listing, Hearing
  <2> QED
    BY <2>1, <2>2
<1>5. CASE c = conn /\ c \notin closed /\ AtTransfer(c) /\ At(c, "setup", <<>>, <<"Setup">>)
  <2>1. tc = <<>> /\ toServer[c] = <<>>
    BY <1>5 DEF At, Heard
  <2> HIDE DEF tc
  <2>2. toServer'[c] = <<"Data">> /\ toClient'[c] = <<>> /\ cpc'[c] = "transfer"
    BY <1>3, <1>5, <2>1 DEF Speaks
  <2>3. AtTransfer(c)'
    BY <1>1, <1>5, <2>2, SameRights DEF AtTransfer, At
  <2>4. ClientOK(c)'
    BY <1>1, <1>2, <1>5, <2>3 DEF ClientOK, Served
  <2> QED
    BY <1>1, <1>3, <2>4, ClientMoves DEF Speaks
<1>6. CASE /\ c # conn /\ c \in closed /\ Transfers(c) /\ Rightly(c)
           /\ toClient[c] \in {<<"ERROR">>, <<"Setup">>}
  <2>1. tc \in {<<"rest">>, <<>>}
    <3>1. CASE toClient[c] = <<"ERROR">>
      <4>1. Heard(c) = "ERROR" /\ Tail(toClient[c]) = <<>>
        BY <3>1 DEF Heard
      <4>2. <<"rest">> \o <<>> = <<"rest">>
        OBVIOUS
      <4> QED
        BY <4>1, <4>2
    <3>2. CASE toClient[c] = <<"Setup">>
      BY <3>2 DEF Heard
    <3> QED
      BY <1>6, <3>1, <3>2
  <2> HIDE DEF tc
  <2>2. toClient'[c] \in {<<"rest">>, <<>>} /\ cpc'[c] = "transfer"
    BY <1>3, <2>1 DEF Speaks
  <2>3. Over(c)'
    BY <1>1, <1>6, <2>2, SameRights DEF Over, Hearing
  <2>4. ClientOK(c)'
    BY <1>1, <1>2, <1>6, <2>3 DEF ClientOK
  <2> QED
    BY <1>1, <1>3, <2>4, ClientMoves DEF Speaks
<1> QED
  BY <1>4, <1>5, <1>6

LEMMA ReadTransferInv ==
  ASSUME Inv, NEW c \in Clients, ReadTransfer(c)
  PROVE  Inv'
<1> DEFINE next == IF Heard(c) = "Data" THEN "done" ELSE "failed"
<1>1. /\ cpc[c] = "transfer" /\ toClient[c] # <<>> /\ down[c] = "no" /\ ClientOK(c) /\ StateOK
      /\ ClientOnly /\ conn' = conn /\ closed' = closed /\ backlog' = backlog
      /\ modules' = modules /\ jobs' = jobs /\ UNCHANGED shown
      /\ toClient' = [toClient EXCEPT ![c] = Tail(toClient[c])]
      /\ Say(c, <<>>, next)
  BY DEF ReadTransfer, Hears, Alive, Inv, ClientOnly, daemon, config, Consume
<1>2. ~Queues(c) /\ ~Queues(c)'
  BY <1>1 DEF ClientOK, Queued, At, Queues
<1>3. Speaks(c, Tail(toClient[c]), <<>>, next)
  <2>1. next \in ClientSteps
    BY DEF ClientSteps
  <2> HIDE DEF next
  <2> QED
    BY <1>1, <2>1, Speaking
<1>4. /\ c # conn /\ c \in closed /\ Transfers(c)
      /\ \/ toClient[c] = <<"rest">> /\ Rightly(c)
         \/ toClient[c] = <<"Data">> /\ May(c)
  <2>1. CASE c = conn
    <3>1. Asking(c) # "transfer"
      BY DEF Asking
    <3> QED
      BY <1>1, <2>1, <3>1 DEF ClientOK, Served, AtGreeting, AtRequest, AtList, AtAuth, AtArgs, AtTransfer, At,
                              Listing
  <2>2. CASE c # conn
    <3>1. c \in closed
      BY <1>1, <1>2, <2>2 DEF ClientOK, Idle, At
    <3> QED
      BY <1>1, <2>2, <3>1 DEF ClientOK, Over, Ended, ListEnds, Listing, Hearing
  <2> QED
    BY <2>1, <2>2
<1>5. \/ cpc'[c] = "failed" /\ Rightly(c)
      \/ cpc'[c] = "done" /\ May(c)
  <2>1. CASE toClient[c] = <<"rest">> /\ Rightly(c)
    BY <1>3, <2>1 DEF Speaks, Heard
  <2>2. CASE toClient[c] = <<"Data">> /\ May(c)
    BY <1>3, <2>2 DEF Speaks, Heard
  <2> QED
    BY <1>4, <2>1, <2>2
<1>6. Over(c)'
  BY <1>1, <1>4, <1>5, SameRights DEF Over, Ended
<1>7. ClientOK(c)'
  BY <1>1, <1>2, <1>4, <1>6 DEF ClientOK
<1> QED
  BY <1>1, <1>3, <1>7, ClientMoves DEF Speaks

LEMMA ClientEofInv ==
  ASSUME Inv, NEW c \in Clients, ClientEof(c)
  PROVE  Inv'
<1>1. /\ cpc[c] \notin {"done", "failed"} /\ toClient[c] = <<>> /\ down[c] = "no" /\ c \in closed
      /\ ClientOK(c) /\ StateOK
      /\ ClientOnly /\ conn' = conn /\ closed' = closed /\ backlog' = backlog
      /\ modules' = modules /\ jobs' = jobs /\ UNCHANGED <<toClient, shown>>
      /\ Say(c, <<>>, "failed")
  BY DEF ClientEof, Alive, Inv, ClientOnly, daemon, config
<1>2. c # conn /\ ~Queues(c) /\ ~Queues(c)'
  BY <1>1 DEF ClientOK, Queues
<1>3. Speaks(c, <<>>, <<>>, "failed")
  BY <1>1 DEF StateOK, Say, Speaks, Same, ClientSteps
<1>4. Transfers(c) /\ Rightly(c)
  BY <1>1 DEF ClientOK, Over, Ended, ListEnds, Listing, Hearing
<1>5. Over(c)'
  BY <1>1, <1>3, <1>4, SameRights DEF Over, Ended, Speaks
<1>6. ClientOK(c)'
  BY <1>1, <1>2, <1>5 DEF ClientOK
<1> QED
  BY <1>1, <1>3, <1>6, ClientMoves DEF Speaks

LEMMA TakeLine ==
  ASSUME NEW S, NEW s \in Seq(S), s # <<>>
  PROVE  /\ Len(s) \in Nat /\ Len(s) >= 1
         /\ Head(s) = s[1] /\ Head(s) \in S /\ Tail(s) \in Seq(S)
         /\ Len(Tail(s)) = Len(s) - 1
         /\ \A j \in 1 .. Len(Tail(s)) : Tail(s)[j] = s[j + 1]
<1>1. Len(s) \in Nat /\ Len(s) >= 1
  OBVIOUS
<1>2. Head(s) = s[1] /\ Head(s) \in S
  BY <1>1
<1>3. Tail(s) \in Seq(S) /\ Len(Tail(s)) = Len(s) - 1
  BY <1>1
<1>4. \A j \in 1 .. Len(Tail(s)) : Tail(s)[j] = s[j + 1]
  BY <1>1
<1> QED
  BY <1>1, <1>2, <1>3, <1>4

\* A line of a listing goes from the stream to what is shown.
LEMMA ListingMoves ==
  ASSUME NEW CONSTANT c \in Clients, NEW CONSTANT n, Listing(c, n), toClient[c] # <<>>,
         Head(toClient[c]).is # "EXIT", modules' = modules, jobs' = jobs,
         cpc'[c] = "listing", toClient'[c] = Tail(toClient[c]),
         shown'[c] = shown[c] \cup ParseModuleLine(Head(toClient[c]))
  PROVE  Listing(c, n)'
<1> DEFINE tc == toClient[c]
           h == Head(toClient[c])
<1>1. /\ tc \in Seq(ListingLine) /\ Len(tc) \in Nat /\ Len(tc) >= 1
      /\ h = tc[1] /\ h \in ListingLine /\ toClient'[c] \in Seq(ListingLine)
      /\ Len(toClient'[c]) = Len(tc) - 1
      /\ \A j \in 1 .. Len(toClient'[c]) : toClient'[c][j] = tc[j + 1]
  <2>1. tc \in Seq(ListingLine) /\ tc # <<>> /\ toClient'[c] = Tail(tc) /\ h = Head(tc)
    BY DEF Listing
  <2> HIDE DEF tc, h
  <2> QED
    BY <2>1, TakeLine
<1>2. h.is \in {"motd", "module"}
  BY <1>1 DEF ListingLine
<1>3. \A m : Offered(m)' <=> Offered(m)
  BY DEF Offered
<1>4. \A j \in 1 .. Len(toClient'[c]) : toClient'[c][j].is = "module" => Offered(toClient'[c][j].name)
  <2> SUFFICES ASSUME NEW j \in 1 .. Len(toClient'[c]), toClient'[c][j].is = "module"
               PROVE  Offered(toClient'[c][j].name)
    OBVIOUS
  <2>1. j + 1 \in 1 .. Len(tc) /\ toClient'[c][j] = tc[j + 1]
    BY <1>1
  <2> QED
    BY <2>1 DEF Listing
<1>5. \A m \in shown'[c] : Offered(m)
  <2> SUFFICES ASSUME NEW m \in ParseModuleLine(h) PROVE Offered(m)
    BY DEF Listing
  <2>1. h.is = "module" /\ m = h.name
    BY <1>2 DEF ParseModuleLine
  <2>2. 1 \in 1 .. Len(tc)
    BY <1>1
  <2> QED
    BY <1>1, <2>1, <2>2 DEF Listing
<1>6. ASSUME NEW i \in 1 .. n, modules[i].set["list"], modules[i].set["comment"] # ""
      PROVE  modules[i].name \in shown'[c] \/ Underway(toClient'[c], modules[i])
  <2>1. CASE modules[i].name \in shown[c]
    BY <2>1
  <2>2. CASE Underway(tc, modules[i])
    <3>1. PICK j \in 1 .. Len(tc) : /\ tc[j].is = "module" /\ tc[j].name = modules[i].name
                                    /\ tc[j].comment = modules[i].set["comment"]
      BY <2>2 DEF Underway
    <3>2. CASE j = 1
      BY <1>1, <1>6, <3>1, <3>2 DEF ParseModuleLine
    <3>3. CASE j # 1
      <4>1. j - 1 \in 1 .. Len(toClient'[c]) /\ toClient'[c][j - 1] = tc[j]
        BY <1>1, <3>3
      <4> QED
        BY <3>1, <4>1 DEF Underway
    <3> QED
      BY <3>2, <3>3
  <2> QED
    BY <1>6, <2>1, <2>2 DEF Listing
<1>7. Transfers(c)' <=> Transfers(c)
  BY SameRights
<1> HIDE DEF tc, h
<1> QED
  BY <1>1, <1>3, <1>4, <1>5, <1>6, <1>7, Zenon DEF Listing

LEMMA ReadListingInv ==
  ASSUME Inv, NEW c \in Clients, ReadListing(c)
  PROVE  Inv'
<1>1. /\ cpc[c] = "listing" /\ toClient[c] # <<>> /\ down[c] = "no" /\ ClientOK(c) /\ StateOK
      /\ ClientOnly /\ dpc' = dpc /\ row' = row /\ conn' = conn /\ closed' = closed /\ backlog' = backlog
      /\ modules' = modules /\ jobs' = jobs /\ toServer' = toServer
      /\ toClient' = [toClient EXCEPT ![c] = Tail(toClient[c])]
  BY DEF ReadListing, Hears, Alive, Inv, ClientOnly, daemon, config, Consume
<1>2. ~Queues(c) /\ ~Queues(c)'
  BY <1>1 DEF ClientOK, Queued, At, Queues
<1>3. \/ c = conn /\ c \notin closed /\ AtList(c)
      \/ c # conn /\ c \in closed /\ ListEnds(c)
  <2>1. CASE c = conn
    BY <1>1, <2>1 DEF ClientOK, Served, AtGreeting, AtRequest, AtAuth, AtArgs, AtTransfer, At
  <2>2. CASE c # conn
    <3>1. c \in closed
      BY <1>1, <1>2, <2>2 DEF ClientOK, Idle, At
    <3> QED
      BY <1>1, <2>2, <3>1 DEF ClientOK, Over, Ended, Hearing
  <2> QED
    BY <2>1, <2>2
<1>4. /\ toClient[c] \in Seq(ListingLine) /\ Len(toClient[c]) \in Nat /\ Len(toClient[c]) >= 1
      /\ Head(toClient[c]) = toClient[c][1] /\ toClient'[c] = Tail(toClient[c])
      /\ DOMAIN toClient' = Clients /\ DOMAIN toServer' = Clients
  <2>1. toClient[c] \in Seq(ListingLine)
    BY <1>3 DEF AtList, ListEnds, Listing
  <2>2. toClient'[c] = Tail(toClient[c]) /\ DOMAIN toClient' = Clients /\ DOMAIN toServer' = Clients
    BY <1>1 DEF StateOK
  <2> QED
    BY <1>1, <2>1, <2>2
<1>5. \A d \in Clients \ {c} : cpc'[d] = cpc[d] /\ toServer'[d] = toServer[d] /\ toClient'[d] = toClient[d]
                               /\ shown'[d] = shown[d]
  BY <1>1 DEF ReadListing, StateOK
<1>6. cpc' \in [Clients -> ClientSteps] /\ DOMAIN shown' = Clients
  BY <1>1 DEF ReadListing, StateOK, ClientSteps
<1>7. CASE Head(toClient[c]).is # "EXIT"
  <2>1. cpc'[c] = "listing" /\ shown'[c] = shown[c] \cup ParseModuleLine(Head(toClient[c]))
    BY <1>1, <1>7 DEF ReadListing, Heard, StateOK
  <2>2. /\ Len(toClient'[c]) = Len(toClient[c]) - 1
        /\ \A j \in 1 .. Len(toClient'[c]) : j + 1 \in 1 .. Len(toClient[c]) /\ toClient'[c][j] = toClient[c][j + 1]
    BY <1>1, <1>4
  <2>3. ASSUME c = conn /\ c \notin closed /\ AtList(c) PROVE ClientOK(c)'
    <3>1. Listing(c, row)'
      <4>1. Listing(c, row)
        BY <2>3 DEF AtList
      <4>2. \A n : Listing(c, n) => Listing(c, n)'
        BY <1>1, <1>4, <1>7, <2>1, ListingMoves
      <4> QED
        BY <1>1, <4>1, <4>2 DEF Listing
    <3>2. AtList(c)'
      BY <1>1, <2>2, <2>3, <3>1 DEF AtList
    <3> QED
      BY <1>1, <1>2, <2>3, <3>2 DEF ClientOK, Served
  <2>4. ASSUME c # conn /\ c \in closed /\ ListEnds(c) PROVE ClientOK(c)'
    <3>1. Listing(c, Len(modules))'
      <4>1. Listing(c, Len(modules))
        BY <2>4 DEF ListEnds
      <4>2. \A n : Listing(c, n) => Listing(c, n)'
        BY <1>1, <1>4, <1>7, <2>1, ListingMoves
      <4> QED
        BY <1>1, <4>1, <4>2 DEF Listing
    <3>2. Len(toClient[c]) # 1
      BY <1>4, <1>7, <2>4 DEF ListEnds
    <3>3. toClient'[c] # <<>>
      <4>1. Len(toClient'[c]) # 0 /\ Len(<<>>) = 0
        BY <1>4, <2>2, <3>2
      <4> QED
        BY <4>1
    <3>4. ASSUME NEW j \in 1 .. Len(toClient'[c])
          PROVE  toClient'[c][j].is = "EXIT" <=> j = Len(toClient'[c])
      <4>1. toClient[c][j + 1].is = "EXIT" <=> j + 1 = Len(toClient[c])
        BY <2>2, <2>4 DEF ListEnds
      <4>2. j \in Nat /\ (j + 1 = Len(toClient[c]) <=> j = Len(toClient'[c]))
        BY <1>4, <2>2
      <4> QED
        BY <2>2, <4>1, <4>2
    <3> QED
      BY <1>1, <1>2, <2>4, <3>1, <3>3, <3>4 DEF ClientOK, Over, ListEnds
  <2>5. ClientOK(c)'
    BY <1>3, <2>3, <2>4
  <2> QED
    BY <1>1, <1>4, <1>5, <1>6, <2>5, ClientMoves DEF Same
<1>8. CASE Head(toClient[c]).is = "EXIT"
  <2>1. cpc'[c] = "done" /\ shown' = shown
    BY <1>1, <1>8 DEF ReadListing, Heard, StateOK
  <2>2. 1 \in 1 .. Len(toClient[c]) /\ toClient[c][1].is = "EXIT"
    BY <1>4, <1>8
  <2>3. c # conn /\ c \in closed /\ ListEnds(c)
    BY <1>3, <2>2 DEF AtList
  <2>4. Len(toClient[c]) = 1
    BY <2>2, <2>3 DEF ListEnds
  <2>5. \A i : ~Underway(toClient[c], modules[i])
    BY <2>2, <2>4 DEF Underway
  <2>6. Complete(c) /\ ~Transfers(c)
    BY <2>3, <2>5 DEF ListEnds, Listing, Complete
  <2>7. Complete(c)' /\ ~Transfers(c)'
    <3>1. \A m : Offered(m)' <=> Offered(m)
      BY <1>1 DEF Offered
    <3> QED
      BY <1>1, <2>1, <2>6, <3>1, SameRights DEF Complete
  <2>8. ClientOK(c)'
    BY <1>1, <1>2, <2>1, <2>3, <2>7 DEF ClientOK, Over, Ended
  <2> QED
    BY <1>1, <1>4, <1>5, <1>6, <2>8, ClientMoves DEF Same
<1> QED
  BY <1>7, <1>8

LEMMA ConnectInv ==
  ASSUME Inv, NEW c \in Clients, Connect(c)
  PROVE  Inv'
<1>1. /\ cpc[c] = "start" /\ down[c] = "no" /\ dpc \notin Starting /\ ClientOK(c) /\ StateOK
      /\ UNCHANGED config /\ modules' = modules /\ jobs' = jobs
      /\ dpc' = dpc /\ conn' = conn /\ closed' = closed /\ chosen' = chosen /\ row' = row
      /\ toServer' = toServer /\ toClient' = toClient /\ down' = down /\ shown' = shown
      /\ backlog' = Append(backlog, c) /\ cpc' = [cpc EXCEPT ![c] = "greeting"]
  BY DEF Connect, Alive, Inv, config, Starting
<1>2. c # conn
  <2>1. Asking(c) # "start"
    BY DEF Asking
  <2> QED
    BY <1>1, <2>1 DEF ClientOK, Served, AtGreeting, AtRequest, AtList, AtAuth, AtArgs, AtTransfer, At, Listing
<1>3. c \notin closed
  BY <1>1 DEF ClientOK, Over, Ended, ListEnds, Listing, Hearing
<1>4. ~Queues(c) /\ Idle(c)
  BY <1>1, <1>2, <1>3 DEF ClientOK, Queued, At
<1>5. /\ backlog \in Seq(Clients) /\ Len(backlog) \in Nat
      /\ backlog' \in Seq(Clients) /\ Len(backlog') = Len(backlog) + 1
      /\ \A i \in 1 .. Len(backlog) : backlog'[i] = backlog[i]
      /\ backlog'[Len(backlog) + 1] = c
  BY <1>1 DEF StateOK
<1>6. StateOK'
  <2>1. \A i, j \in 1 .. Len(backlog') : backlog'[i] = backlog'[j] => i = j
    <3>1. \A i \in 1 .. Len(backlog) : backlog'[i] # c
      BY <1>4, <1>5 DEF Queues
    <3>2. \A i \in 1 .. Len(backlog') : i \in 1 .. Len(backlog) \/ i = Len(backlog) + 1
      BY <1>5
    <3> QED
      BY <1>1, <1>5, <3>1, <3>2 DEF StateOK
  <2>2. cpc' \in [Clients -> ClientSteps]
    BY <1>1 DEF StateOK, ClientSteps
  <2> QED
    BY <1>1, <1>5, <2>1, <2>2 DEF StateOK
<1>7. ConfigInv'
  BY <1>1, ServingConfig DEF Inv
<1>8. ASSUME NEW d \in Clients, d # c PROVE ClientOK(d)'
  <2>1. Queues(d)' <=> Queues(d)
    <3>1. ASSUME Queues(d) PROVE Queues(d)'
      <4>1. PICK i \in 1 .. Len(backlog) : backlog[i] = d
        BY <3>1 DEF Queues
      <4>2. i \in 1 .. Len(backlog') /\ backlog'[i] = d
        BY <1>5, <4>1
      <4> QED
        BY <4>2 DEF Queues
    <3>2. ASSUME Queues(d)' PROVE Queues(d)
      <4>1. PICK i \in 1 .. Len(backlog') : backlog'[i] = d
        BY <3>2 DEF Queues
      <4>2. i \in 1 .. Len(backlog) /\ backlog[i] = d
        BY <1>5, <1>8, <4>1
      <4> QED
        BY <4>2 DEF Queues
    <3> QED
      BY <3>1, <3>2
  <2>2. ClientOK(d) /\ Same(d) /\ down'[d] = down[d]
    BY <1>1, <1>8 DEF Inv, Same, StateOK
  <2> QED
    BY <1>1, <2>1, <2>2, Bystander
<1>9. ClientOK(c)'
  <2>1. cpc'[c] = "greeting"
    BY <1>1 DEF StateOK
  <2>2. Queued(c)'
    BY <1>1, <1>4, <2>1 DEF Queued, Idle, At
  <2>3. Queues(c)'
    <3>1. Len(backlog) + 1 \in 1 .. Len(backlog')
      BY <1>5
    <3> QED
      BY <1>5, <3>1 DEF Queues
  <2> QED
    BY <1>1, <1>2, <1>3, <2>2, <2>3 DEF ClientOK
<1> QED
  BY <1>6, <1>7, <1>8, <1>9 DEF Inv

LEMMA FaultInv ==
  ASSUME Inv, NEW c \in Clients, NEW how \in {"dead", "silent"}, Fault(c, how)
  PROVE  Inv'
<1>1. /\ down[c] = "no" /\ cpc[c] \notin {"done", "failed"}
      /\ UNCHANGED config /\ modules' = modules /\ jobs' = jobs
      /\ dpc' = dpc /\ conn' = conn /\ closed' = closed /\ chosen' = chosen /\ row' = row
      /\ backlog' = backlog /\ cpc' = cpc
      /\ toServer' = toServer /\ toClient' = toClient /\ shown' = shown
      /\ DOMAIN down' = Clients /\ \A d \in Clients \ {c} : down'[d] = down[d]
  BY DEF Fault, Alive, Inv, config, daemon, StateOK
<1>2. StateOK' /\ ConfigInv'
  <2>1. StateOK'
    BY <1>1 DEF Inv, StateOK
  <2> QED
    BY <1>1, <2>1, ServingConfig DEF Inv
<1>3. ASSUME NEW d \in Clients PROVE ClientOK(d)'
  <2>1. ClientOK(d) /\ Same(d) /\ (Queues(d)' <=> Queues(d))
    BY <1>1 DEF Inv, Same, Queues
  <2>2. down'[d] = down[d] \/ (down[d] # "dead" /\ cpc[d] \notin {"done", "failed"})
    BY <1>1
  <2> QED
    BY <1>1, <2>1, <2>2, Bystander
<1> QED
  BY <1>2, <1>3 DEF Inv

LEMMA ClientInv ==
  ASSUME Inv, NEW c \in Clients, Client(c)
  PROVE  Inv'
  BY ConnectInv, GreetInv, ReadListingInv, ReadSelectionInv, ReadSetupInv, ReadTransferInv, ClientEofInv
     DEF Client

-----------------------------------------------------------------------------
(* The daemon                                                              *)

\* A step of the daemon touches the streams of one client.
Streams(c, ts, tc) ==
    /\ DOMAIN toServer' = Clients /\ DOMAIN toClient' = Clients
    /\ \A d \in Clients \ {c} : toServer'[d] = toServer[d] /\ toClient'[d] = toClient[d]
    /\ toServer'[c] = ts /\ toClient'[c] = tc

Serves == UNCHANGED config /\ UNCHANGED <<backlog, cpc, down, shown>>

LEMMA Answering ==
  ASSUME StateOK, NEW c \in Clients, conn = c, NEW lines, NEW next, Answer(lines, next)
  PROVE  /\ Streams(c, Tail(toServer[c]), toClient[c] \o lines)
         /\ dpc' = next /\ conn' = c /\ closed' = closed
  BY DEF StateOK, Answer, Streams

LEMMA Closing ==
  ASSUME StateOK, NEW c \in Clients, conn = c, NEW lines, Close(lines)
  PROVE  /\ Streams(c, <<>>, toClient[c] \o lines)
         /\ dpc' = "accept" /\ conn' = "none" /\ closed' = closed \cup {c}
  BY DEF StateOK, Close, Streams

\* The daemon goes on with the client,
LEMMA Stays ==
  ASSUME Inv, NEW CONSTANT c \in Clients, conn = c, Serves, NEW ts, NEW tc, Streams(c, ts, tc),
         conn' = c, closed' = closed, row' \in Nat,
         dpc' \in DaemonSteps \ (Starting \cup {"accept"}), Served(c)'
  PROVE  Inv'
<1>1. /\ StateOK /\ ConfigInv /\ c # "none" /\ dpc \notin Starting /\ dpc' \notin Starting
      /\ UNCHANGED config /\ modules' = modules /\ jobs' = jobs
      /\ backlog' = backlog /\ cpc' = cpc /\ down' = down /\ shown' = shown
  BY DaemonAssumption DEF Inv, StateOK, Serves, config
<1>2. ConfigInv'
  BY <1>1, ServingConfig
<1>3. StateOK'
  BY <1>1 DEF StateOK, Streams
<1>4. \A d \in Clients : Queues(d)' <=> Queues(d)
  BY <1>1 DEF Queues
<1>5. ASSUME NEW d \in Clients, d # c PROVE ClientOK(d)'
  <2>1. ClientOK(d) /\ Same(d) /\ down'[d] = down[d] /\ d # conn /\ d # conn'
    BY <1>1, <1>5 DEF Inv, Streams, Same
  <2> QED
    BY <1>1, <1>4, <2>1, Away
<1>6. ClientOK(c)'
  <2>1. ClientOK(c)
    BY DEF Inv
  <2> QED
    BY <1>4, <2>1 DEF ClientOK
<1> QED
  BY <1>2, <1>3, <1>5, <1>6 DEF Inv

\* or closes its connection.
LEMMA Leaves ==
  ASSUME Inv, NEW CONSTANT c \in Clients, conn = c, Serves, NEW ts, NEW tc, Streams(c, ts, tc),
         conn' = "none", closed' = closed \cup {c}, row' \in Nat, dpc' = "accept", Over(c)'
  PROVE  Inv'
<1>1. /\ StateOK /\ ConfigInv /\ c # "none" /\ dpc \notin Starting /\ dpc' \notin Starting
      /\ UNCHANGED config /\ modules' = modules /\ jobs' = jobs
      /\ backlog' = backlog /\ cpc' = cpc /\ down' = down /\ shown' = shown
  BY DaemonAssumption DEF Inv, StateOK, Serves, config, Starting
<1>2. ConfigInv'
  BY <1>1, ServingConfig
<1>3. StateOK'
  BY <1>1 DEF StateOK, Streams, DaemonSteps
<1>4. \A d \in Clients : Queues(d)' <=> Queues(d)
  BY <1>1 DEF Queues
<1>5. ASSUME NEW d \in Clients, d # c PROVE ClientOK(d)'
  <2>1. ClientOK(d) /\ Same(d) /\ down'[d] = down[d] /\ d # conn /\ d # conn'
    BY <1>1, <1>5, DaemonAssumption DEF Inv, Streams, Same
  <2>2. d \in closed' <=> d \in closed
    BY <1>5
  <2> QED
    BY <1>1, <1>4, <2>1, <2>2, Away
<1>6. ClientOK(c)'
  <2>1. ClientOK(c)
    BY DEF Inv
  <2> QED
    BY <1>1, <1>4, <2>1 DEF ClientOK
<1> QED
  BY <1>2, <1>3, <1>5, <1>6 DEF Inv

\* Whoever is served is at the step where the daemon is.
LEMMA BeingServed ==
  ASSUME Inv, conn # "none"
  PROVE  /\ conn \in Clients /\ conn \notin closed /\ ~Queues(conn) /\ Served(conn)
         /\ StateOK /\ ConfigInv
  BY DEF Inv, StateOK, ClientOK

LEMMA ReadGreetingInv ==
  ASSUME Inv, ReadGreeting
  PROVE  Inv'
<1>1. conn # "none" /\ dpc = "greeting" /\ toServer[conn] # <<>>
  BY DEF ReadGreeting, Inv, StateOK, Starting, Waiting
<1>2. PICK c \in Clients : conn = c
  BY <1>1, BeingServed
<1>3. /\ Served(c) /\ StateOK /\ Serves /\ row' = row /\ Answer(<<>>, "request")
      /\ modules' = modules /\ jobs' = jobs /\ cpc' = cpc /\ shown' = shown
  BY <1>1, <1>2, BeingServed DEF ReadGreeting, Serves, config
<1>4. Streams(c, Tail(toServer[c]), toClient[c] \o <<>>) /\ dpc' = "request" /\ conn' = c /\ closed' = closed
  BY <1>2, <1>3, Answering
<1>5. shown[c] = {} /\ At(c, Asking(c), <<GreetingOf(jobs[c]), jobs[c].request>>, <<>>)
  BY <1>1, <1>2, <1>3 DEF Served, AtGreeting, AtRequest, AtList, AtAuth, AtArgs, AtTransfer, At
<1>6. toServer'[c] = <<jobs[c].request>> /\ toClient'[c] = <<>>
  BY <1>4, <1>5 DEF At, Streams
<1>7. AtRequest(c)'
  BY <1>3, <1>4, <1>5, <1>6, SameRights DEF AtRequest, At
<1>8. row' \in Nat /\ dpc' \in DaemonSteps \ (Starting \cup {"accept"})
  BY <1>3, <1>4 DEF StateOK, DaemonSteps, Starting
<1> QED
  BY <1>2, <1>3, <1>4, <1>7, <1>8, Stays DEF Served

LEMMA ReadRequestInv ==
  ASSUME Inv, ReadRequest
  PROVE  Inv'
<1>1. conn # "none" /\ dpc = "request" /\ toServer[conn] # <<>>
  BY DEF ReadRequest, Inv, StateOK, Starting, Waiting
<1>2. PICK c \in Clients : conn = c
  BY <1>1, BeingServed
<1>3. /\ Served(c) /\ StateOK /\ Serves /\ row' \in Nat
      /\ modules' = modules /\ jobs' = jobs /\ cpc' = cpc /\ shown' = shown
  <2>1. Served(c) /\ StateOK
    BY <1>1, <1>2, BeingServed
  <2>2. row' = row \/ row' = 0
    BY DEF ReadRequest
  <2>3. Serves /\ modules' = modules /\ jobs' = jobs /\ cpc' = cpc /\ shown' = shown
    BY DEF ReadRequest, Serves, config
  <2>4. row' \in Nat
    BY <2>1, <2>2 DEF StateOK
  <2> QED
    BY <2>1, <2>3, <2>4
<1>4. shown[c] = {} /\ At(c, Asking(c), <<jobs[c].request>>, <<>>)
  BY <1>1, <1>2, <1>3 DEF Served, AtGreeting, AtRequest, AtList, AtAuth, AtArgs, AtTransfer, At
<1>5. /\ Line = jobs[c].request /\ Tail(toServer[c]) = <<>> /\ toClient[c] = <<>> /\ cpc[c] = Asking(c)
      /\ IndexOf(Line) = IndexIn(modules, jobs[c].request)
  BY <1>2, <1>4 DEF At, Line, IndexOf, IndexIn
<1>6. {"list", "auth", "args"} \subseteq DaemonSteps \ (Starting \cup {"accept"})
  BY DEF DaemonSteps, Starting
<1>7. CASE Line = "#list"
  <2>1. Answer(<<[is |-> "motd"]>>, "list") /\ row' = 0
    BY <1>7 DEF ReadRequest
  <2>2. /\ Streams(c, Tail(toServer[c]), toClient[c] \o <<[is |-> "motd"]>>)
        /\ dpc' = "list" /\ conn' = c /\ closed' = closed
    BY <1>2, <1>3, <2>1, Answering
  <2>3. toServer'[c] = <<>> /\ toClient'[c] = <<[is |-> "motd"]>>
    BY <1>5, <2>2 DEF Streams
  <2>4. cpc'[c] = "listing" /\ shown'[c] = {} /\ ~Transfers(c)'
    BY <1>3, <1>4, <1>5, <1>7 DEF Asking, Transfers
  <2>5. /\ toClient'[c] \in Seq(ListingLine) /\ Len(toClient'[c]) = 1
        /\ toClient'[c][1].is = "motd"
    <3>1. [is |-> "motd"] \in ListingLine
      BY DEF ListingLine
    <3> QED
      BY <2>3, <3>1
  <2>6. Listing(c, row)'
    BY <2>1, <2>4, <2>5 DEF Listing
  <2>7. 0 <= Len(modules)
    BY <1>1 DEF Inv, ConfigInv, TextOK
  <2>8. AtList(c)'
    BY <1>3, <2>1, <2>2, <2>3, <2>5, <2>6, <2>7 DEF AtList
  <2> QED
    BY <1>2, <1>3, <1>6, <2>2, <2>8, Stays DEF Served
<1>8. CASE Line # "#list" /\ IndexOf(Line) = {}
  <2>1. Close(<<"ERROR">>)
    BY <1>8 DEF ReadRequest
  <2>2. /\ Streams(c, <<>>, toClient[c] \o <<"ERROR">>)
        /\ dpc' = "accept" /\ conn' = "none" /\ closed' = closed \cup {c}
    BY <1>2, <1>3, <2>1, Closing
  <2>3. toClient'[c] = <<"ERROR">> /\ cpc'[c] = "selection"
    BY <1>3, <1>5, <1>8, <2>2 DEF Streams, Asking
  <2>4. Transfers(c) /\ Rightly(c)
    BY <1>5, <1>8 DEF Transfers, Rightly, May, Known
  <2>5. Over(c)'
    BY <1>3, <2>3, <2>4, SameRights DEF Over, Hearing
  <2> QED
    BY <1>2, <1>3, <2>2, <2>5, Leaves
<1>9. CASE Line # "#list" /\ IndexOf(Line) # {}
  <2>1. chosen' = Mine(c) /\ Known(c) /\ cpc[c] = "selection"
    BY <1>5, <1>9 DEF ReadRequest, Mine, Known, Transfers, Asking
  <2>2. CASE Mine(c).set["auth users"] = {}
    <3>1. Answer(<<"OK">>, "args")
      BY <1>9, <2>1, <2>2 DEF ReadRequest
    <3>2. /\ Streams(c, Tail(toServer[c]), toClient[c] \o <<"OK">>)
          /\ dpc' = "args" /\ conn' = c /\ closed' = closed
      BY <1>2, <1>3, <3>1, Answering
    <3>3. toServer'[c] = <<>> /\ toClient'[c] = <<"OK">> /\ cpc'[c] = "selection"
      BY <1>3, <1>5, <2>1, <3>2 DEF Streams
    <3>4. Admitted(c)
      BY <2>2 DEF Admitted
    <3>5. AtArgs(c)'
      BY <1>3, <2>1, <3>2, <3>3, <3>4, SameRights DEF AtArgs, At
    <3> QED
      BY <1>2, <1>3, <1>6, <3>2, <3>5, Stays DEF Served
  <2>3. CASE Mine(c).set["auth users"] # {}
    <3>1. Answer(<<"AUTHREQD">>, "auth")
      BY <1>9, <2>1, <2>3 DEF ReadRequest
    <3>2. /\ Streams(c, Tail(toServer[c]), toClient[c] \o <<"AUTHREQD">>)
          /\ dpc' = "auth" /\ conn' = c /\ closed' = closed
      BY <1>2, <1>3, <3>1, Answering
    <3>3. toServer'[c] = <<>> /\ toClient'[c] = <<"AUTHREQD">> /\ cpc'[c] = "selection"
      BY <1>3, <1>5, <2>1, <3>2 DEF Streams
    <3>4. AtAuth(c)'
      BY <1>3, <2>1, <2>3, <3>2, <3>3, SameRights DEF AtAuth, At
    <3> QED
      BY <1>2, <1>3, <1>6, <3>2, <3>4, Stays DEF Served
  <2> QED
    BY <2>2, <2>3
<1> QED
  BY <1>7, <1>8, <1>9

\* A module's line goes into the stream.
LEMMA ListModuleInv ==
  ASSUME Inv, ListModule
  PROVE  Inv'
<1>1. conn # "none" /\ dpc = "list"
  BY DEF ListModule, Inv, StateOK, Starting
<1>2. PICK c \in Clients : conn = c
  BY <1>1, BeingServed
<1> DEFINE m == modules[row + 1]
           tc == toClient[c]
           new == tc \o ListLine(m)
<1>3. /\ Served(c) /\ StateOK /\ Serves /\ row \in Nat /\ row' = row + 1 /\ row < Len(modules)
      /\ modules' = modules /\ jobs' = jobs /\ cpc' = cpc /\ shown' = shown /\ modules \in Seq(Mod)
      /\ dpc' = dpc /\ conn' = c /\ closed' = closed /\ toServer' = toServer
      /\ toClient' = [toClient EXCEPT ![c] = new]
  BY <1>1, <1>2, BeingServed DEF ListModule, Serves, config, StateOK, ConfigInv, TextOK
<1>4. AtList(c)
  BY <1>1, <1>3 DEF Served, AtGreeting, AtRequest, AtAuth, AtArgs, AtTransfer
<1>5. tc \in Seq(ListingLine) /\ Len(modules) \in Nat /\ m \in Mod /\ row + 1 \in 1 .. Len(modules)
  <2>1. tc \in Seq(ListingLine)
    BY <1>4 DEF AtList, Listing
  <2>2. Len(modules) \in Nat /\ row + 1 \in 1 .. Len(modules)
    BY <1>3
  <2>3. m \in Mod
    BY <1>3, <2>2
  <2> QED
    BY <2>1, <2>2, <2>3
<1>6. Streams(c, toServer[c], new)
  <2> HIDE DEF new
  <2> QED
    BY <1>3 DEF Streams, StateOK
<1>7. /\ new \in Seq(ListingLine) /\ Len(tc) \in Nat /\ Len(tc) <= Len(new) /\ Len(new) <= Len(tc) + 1
      /\ \A j \in 1 .. Len(tc) : new[j] = tc[j]
      /\ \A j \in Len(tc) + 1 .. Len(new) :
           /\ j = Len(tc) + 1
           /\ m.set["list"]
           /\ new[j].is = "module" /\ new[j].name = m.name /\ new[j].comment = m.set["comment"]
      /\ m.set["list"] => Len(new) = Len(tc) + 1
  <2> DEFINE l == [is |-> "module", name |-> m.name, comment |-> m.set["comment"]]
  <2>1. l \in ListingLine /\ l.is = "module" /\ l.name = m.name /\ l.comment = m.set["comment"]
    <3>1. "comment" \in Keys
      BY DEF Keys, Texts
    <3> HIDE DEF m
    <3> QED
      BY <1>5, <3>1 DEF ListingLine, Mod
  <2>2. ListLine(m) = IF m.set["list"] THEN <<l>> ELSE <<>>
    BY DEF ListLine
  <2> HIDE DEF l, m, tc
  <2>3. CASE m.set["list"]
    BY <1>5, <2>1, <2>2, <2>3
  <2>4. CASE ~m.set["list"]
    BY <1>5, <2>1, <2>2, <2>4
  <2> QED
    BY <2>3, <2>4
<1>8. \A n : Offered(n)' <=> Offered(n)
  BY <1>3 DEF Offered
<1>9. Offered(m.name) \/ ~m.set["list"]
  BY <1>5 DEF Offered
<1> HIDE DEF new
<1>10. \A j \in 1 .. Len(new) : /\ new[j].is = "module" => Offered(new[j].name)
                                /\ new[j].is # "EXIT"
  <2> SUFFICES ASSUME NEW j \in 1 .. Len(new)
               PROVE  (new[j].is = "module" => Offered(new[j].name)) /\ new[j].is # "EXIT"
    OBVIOUS
  <2>1. CASE j \in 1 .. Len(tc)
    BY <1>4, <1>7, <2>1 DEF AtList, Listing
  <2>2. CASE j \notin 1 .. Len(tc)
    <3>1. j \in Len(tc) + 1 .. Len(new)
      BY <1>7, <2>2
    <3> HIDE DEF m, tc
    <3> QED
      BY <1>7, <1>9, <3>1
  <2> QED
    BY <2>1, <2>2
<1>11. ASSUME NEW i \in 1 .. row + 1, modules[i].set["list"], modules[i].set["comment"] # ""
       PROVE  modules[i].name \in shown[c] \/ Underway(new, modules[i])
  <2>1. CASE i = row + 1
    <3>1. modules[i] = m /\ m.set["list"]
      BY <1>11, <2>1
    <3> HIDE DEF m, tc
    <3>2. Len(new) = Len(tc) + 1
      BY <1>7, <3>1
    <3>3. Len(tc) + 1 \in 1 .. Len(new) /\ Len(tc) + 1 \in Len(tc) + 1 .. Len(new)
      BY <1>7, <3>2
    <3> QED
      BY <1>7, <3>1, <3>3 DEF Underway
  <2>2. CASE i \in 1 .. row
    <3>1. modules[i].name \in shown[c] \/ Underway(tc, modules[i])
      BY <1>4, <1>11, <2>2 DEF AtList, Listing
    <3>2. ASSUME Underway(tc, modules[i]) PROVE Underway(new, modules[i])
      <4>1. PICK j \in 1 .. Len(tc) : /\ tc[j].is = "module" /\ tc[j].name = modules[i].name
                                      /\ tc[j].comment = modules[i].set["comment"]
        BY <3>2 DEF Underway
      <4>2. j \in 1 .. Len(new) /\ new[j] = tc[j]
        BY <1>7
      <4> QED
        BY <4>1, <4>2 DEF Underway
    <3> QED
      BY <3>1, <3>2
  <2> QED
    BY <1>3, <2>1, <2>2
<1>12. toClient'[c] = new /\ toServer'[c] = toServer[c]
  BY <1>6 DEF Streams
<1>13. Listing(c, row)'
  <2>1. ~Transfers(c)' /\ cpc'[c] = "listing" /\ \A n \in shown'[c] : Offered(n)
    BY <1>3, <1>4, SameRights DEF AtList, Listing
  <2> HIDE DEF m, tc
  <2> QED
    BY <1>3, <1>7, <1>8, <1>10, <1>11, <1>12, <2>1 DEF Listing
<1>14. AtList(c)'
  <2>1. toServer[c] = <<>> /\ row' <= Len(modules')
    BY <1>3, <1>4, <1>5 DEF AtList
  <2> QED
    BY <1>1, <1>3, <1>10, <1>12, <1>13, <2>1 DEF AtList
<1>15. row' \in Nat /\ dpc' \in DaemonSteps \ (Starting \cup {"accept"})
  BY <1>1, <1>3 DEF DaemonSteps, Starting
<1> QED
  BY <1>2, <1>3, <1>6, <1>14, <1>15, Stays DEF Served

LEMMA EndListInv ==
  ASSUME Inv, EndList
  PROVE  Inv'
<1>1. conn # "none" /\ dpc = "list"
  BY DEF EndList, Inv, StateOK, Starting
<1>2. PICK c \in Clients : conn = c
  BY <1>1, BeingServed
<1> DEFINE tc == toClient[c]
           new == tc \o <<[is |-> "EXIT"]>>
<1>3. /\ Served(c) /\ StateOK /\ Serves /\ row' = row /\ row = Len(modules)
      /\ modules' = modules /\ jobs' = jobs /\ cpc' = cpc /\ shown' = shown
      /\ Close(<<[is |-> "EXIT"]>>)
  BY <1>1, <1>2, BeingServed DEF EndList, Serves, config
<1>4. AtList(c)
  BY <1>1, <1>3 DEF Served, AtGreeting, AtRequest, AtAuth, AtArgs, AtTransfer
<1>5. Streams(c, <<>>, new) /\ dpc' = "accept" /\ conn' = "none" /\ closed' = closed \cup {c}
  BY <1>2, <1>3, Closing
<1>6. /\ new \in Seq(ListingLine) /\ Len(tc) \in Nat /\ Len(new) = Len(tc) + 1
      /\ \A j \in 1 .. Len(tc) : new[j] = tc[j]
      /\ new[Len(tc) + 1].is = "EXIT"
  <2>1. tc \in Seq(ListingLine)
    BY <1>4 DEF AtList, Listing
  <2>2. [is |-> "EXIT"] \in ListingLine
    BY DEF ListingLine
  <2> HIDE DEF tc
  <2> QED
    BY <2>1, <2>2
<1> HIDE DEF new
<1>7. \A n : Offered(n)' <=> Offered(n)
  BY <1>3 DEF Offered
<1>8. \A j \in 1 .. Len(new) : j \in 1 .. Len(tc) \/ j = Len(tc) + 1
  BY <1>6
<1>9. \A j \in 1 .. Len(new) : new[j].is = "module" => Offered(new[j].name)
  <2>1. \A j \in 1 .. Len(tc) : tc[j].is = "module" => Offered(tc[j].name)
    BY <1>4 DEF AtList, Listing
  <2> HIDE DEF tc
  <2> QED
    BY <1>6, <1>8, <2>1
<1>10. \A j \in 1 .. Len(new) : new[j].is = "EXIT" <=> j = Len(new)
  <2>1. \A j \in 1 .. Len(tc) : tc[j].is # "EXIT"
    BY <1>4 DEF AtList
  <2> HIDE DEF tc
  <2> QED
    BY <1>6, <1>8, <2>1
<1>11. ASSUME NEW i \in 1 .. Len(modules), modules[i].set["list"], modules[i].set["comment"] # ""
       PROVE  modules[i].name \in shown[c] \/ Underway(new, modules[i])
  <2>1. modules[i].name \in shown[c] \/ Underway(tc, modules[i])
    BY <1>3, <1>4, <1>11 DEF AtList, Listing
  <2>2. ASSUME Underway(tc, modules[i]) PROVE Underway(new, modules[i])
    <3>1. PICK j \in 1 .. Len(tc) : /\ tc[j].is = "module" /\ tc[j].name = modules[i].name
                                    /\ tc[j].comment = modules[i].set["comment"]
      BY <2>2 DEF Underway
    <3>2. j \in 1 .. Len(new) /\ new[j] = tc[j]
      BY <1>6
    <3> QED
      BY <3>1, <3>2 DEF Underway
  <2> QED
    BY <2>1, <2>2
<1>12. toClient'[c] = new
  BY <1>5 DEF Streams
<1>13. Listing(c, Len(modules))'
  <2>1. ~Transfers(c)' /\ cpc'[c] = "listing" /\ \A n \in shown'[c] : Offered(n)
    BY <1>3, <1>4, SameRights DEF AtList, Listing
  <2> QED
    BY <1>3, <1>6, <1>7, <1>9, <1>11, <1>12, <2>1 DEF Listing
<1>14. new # <<>>
  <2>1. Len(new) # 0 /\ Len(<<>>) = 0
    BY <1>6
  <2> QED
    BY <2>1
<1>15. Over(c)'
  BY <1>3, <1>10, <1>12, <1>13, <1>14 DEF Over, ListEnds
<1>16. row' \in Nat
  BY <1>3 DEF StateOK
<1> QED
  BY <1>2, <1>3, <1>5, <1>15, <1>16, Leaves

\* The response is valid exactly for a user of the module with its password.
LEMMA AuthenticateInv ==
  ASSUME Inv, Authenticate
  PROVE  Inv'
<1>1. conn # "none" /\ dpc = "auth" /\ toServer[conn] # <<>>
  BY DEF Authenticate, Inv, StateOK, Starting, Waiting
<1>2. PICK c \in Clients : conn = c
  BY <1>1, BeingServed
<1>3. /\ Served(c) /\ StateOK /\ Serves /\ row' = row /\ chosen' = chosen
      /\ modules' = modules /\ jobs' = jobs /\ cpc' = cpc /\ shown' = shown
  BY <1>1, <1>2, BeingServed DEF Authenticate, Serves, config
<1>4. /\ AtAuth(c) /\ Known(c) /\ chosen = Mine(c) /\ Mine(c).set["auth users"] # {}
      /\ At(c, "selection", <<AnswerOf(c)>>, <<>>) /\ HasCredentials(jobs[c])
  BY <1>1, <1>2, <1>3 DEF Served, AtGreeting, AtRequest, AtList, AtAuth, AtArgs, AtTransfer, At
<1>5. Line = AnswerOf(c) /\ Tail(toServer[c]) = <<>> /\ toClient[c] = <<>> /\ cpc'[c] = "selection"
  <2> DEFINE a == AnswerOf(c)
  <2> HIDE DEF a
  <2>1. toServer[c] = <<a>> /\ toClient[c] = <<>> /\ cpc[c] = "selection"
    BY <1>4 DEF At, a
  <2>2. Line = a /\ Tail(toServer[c]) = <<>>
    BY <1>2, <2>1 DEF Line
  <2> QED
    BY <1>3, <2>1, <2>2 DEF a
<1>6. ResponseValid(Line) <=> Admitted(c)
  <2> DEFINE pw == Secrets[Mine(c).set["secrets file"]][jobs[c].user]
             k == AuthChecksum(GreetingOf(jobs[c]))
  <2>1. /\ AnswerOf(c).user = jobs[c].user
        /\ AnswerOf(c).hash = <<jobs[c].password, c, k>>
    BY DEF AnswerOf, Response
  <2>2. ResponseValid(AnswerOf(c)) <=>
          /\ jobs[c].user \in Mine(c).set["auth users"]
          /\ pw # "none"
          /\ AnswerOf(c).hash = <<pw, c, k>>
    BY <1>2, <1>4, <2>1 DEF ResponseValid, Response
  <2> HIDE DEF pw, k
  <2>3. <<jobs[c].password, c, k>> = <<pw, c, k>> <=> jobs[c].password = pw
    OBVIOUS
  <2>4. Admitted(c) <=> /\ jobs[c].user \in Mine(c).set["auth users"]
                        /\ jobs[c].password # "none"
                        /\ jobs[c].password = pw
    BY <1>4 DEF Admitted, pw
  <2> QED
    BY <1>5, <2>1, <2>2, <2>3, <2>4
<1>7. row' \in Nat /\ "args" \in DaemonSteps \ (Starting \cup {"accept"})
  BY <1>3 DEF StateOK, DaemonSteps, Starting
<1>8. CASE Admitted(c)
  <2>1. Answer(<<"OK">>, "args")
    BY <1>6, <1>8 DEF Authenticate
  <2>2. /\ Streams(c, Tail(toServer[c]), toClient[c] \o <<"OK">>)
        /\ dpc' = "args" /\ conn' = c /\ closed' = closed
    BY <1>2, <1>3, <2>1, Answering
  <2>3. toServer'[c] = <<>> /\ toClient'[c] = <<"OK">>
    BY <1>5, <2>2 DEF Streams
  <2>4. AtArgs(c)'
    BY <1>3, <1>4, <1>5, <1>8, <2>2, <2>3, SameRights DEF AtArgs, At
  <2> QED
    BY <1>2, <1>3, <1>7, <2>2, <2>4, Stays DEF Served
<1>9. CASE ~Admitted(c)
  <2>1. Close(<<"ERROR">>)
    BY <1>6, <1>9 DEF Authenticate
  <2>2. /\ Streams(c, <<>>, toClient[c] \o <<"ERROR">>)
        /\ dpc' = "accept" /\ conn' = "none" /\ closed' = closed \cup {c}
    BY <1>2, <1>3, <2>1, Closing
  <2>3. toClient'[c] = <<"ERROR">>
    BY <1>5, <2>2 DEF Streams
  <2>4. Transfers(c) /\ Rightly(c)
    BY <1>4, <1>9 DEF Rightly, May, Known
  <2>5. Over(c)'
    BY <1>3, <1>5, <2>3, <2>4, SameRights DEF Over, Hearing
  <2> QED
    BY <1>2, <1>3, <1>7, <2>2, <2>5, Leaves
<1> QED
  BY <1>8, <1>9

LEMMA ReadArgsInv ==
  ASSUME Inv, ReadArgs
  PROVE  Inv'
<1>1. conn # "none" /\ dpc = "args" /\ toServer[conn] # <<>>
  BY DEF ReadArgs, Inv, StateOK, Starting, Waiting
<1>2. PICK c \in Clients : conn = c
  BY <1>1, BeingServed
<1>3. /\ Served(c) /\ StateOK /\ Serves /\ row' = row /\ chosen' = chosen
      /\ modules' = modules /\ jobs' = jobs /\ cpc' = cpc /\ shown' = shown
  BY <1>1, <1>2, BeingServed DEF ReadArgs, Serves, config
<1>4. /\ Known(c) /\ chosen = Mine(c) /\ Admitted(c)
      /\ At(c, "setup", <<ArgsOf(jobs[c])>>, <<>>)
  BY <1>1, <1>2, <1>3 DEF Served, AtGreeting, AtRequest, AtList, AtAuth, AtArgs, AtTransfer, At
<1>5. /\ Line = ArgsOf(jobs[c]) /\ Tail(toServer[c]) = <<>> /\ toClient[c] = <<>> /\ cpc'[c] = "setup"
      /\ Transfers(c)
  BY <1>2, <1>3, <1>4 DEF At, Line, Known
<1>6. /\ Line.split = IF jobs[c].protocol = 27 THEN "line" ELSE "nul"
      /\ Line.early = jobs[c].early /\ Line.push = jobs[c].push /\ Line.path = jobs[c].path
      /\ jobs[c] \in Job
  BY <1>3, <1>5 DEF ArgsOf, StateOK
<1>7. /\ jobs[c].greets \in Nat /\ jobs[c].path \in {"safe", "unsafe"}
      /\ jobs[c].push \in BOOLEAN /\ jobs[c].early \in BOOLEAN
  BY <1>6 DEF Job
<1> DEFINE splitAs == IF jobs[c].greets >= 30 THEN "nul" ELSE "line"
           misread == Line.split # splitAs \/ Line.early
<1>8. row' \in Nat /\ {"receive", "send"} \subseteq DaemonSteps \ (Starting \cup {"accept"})
  BY <1>3 DEF StateOK, DaemonSteps, Starting
<1>9. ASSUME NEW tc \in {<<>>, <<"ERROR">>, <<"Setup">>}, Close(tc), Rightly(c)
      PROVE  Inv'
  <2>1. /\ Streams(c, <<>>, toClient[c] \o tc)
        /\ dpc' = "accept" /\ conn' = "none" /\ closed' = closed \cup {c}
    BY <1>2, <1>3, <1>9, Closing
  <2>2. toClient'[c] = tc
    <3>1. <<>> \o <<>> = <<>> /\ <<>> \o <<"ERROR">> = <<"ERROR">> /\ <<>> \o <<"Setup">> = <<"Setup">>
      OBVIOUS
    <3>2. <<>> \o tc = tc
      BY <1>9, <3>1
    <3> QED
      BY <1>5, <2>1, <3>2 DEF Streams
  <2>3. Over(c)'
    BY <1>3, <1>5, <1>9, <2>2, SameRights DEF Over, Hearing
  <2> QED
    BY <1>2, <1>3, <1>8, <2>1, <2>3, Leaves
<1>10. CASE misread
  <2>1. Close(<<>>)
    BY <1>2, <1>10 DEF ReadArgs
  <2>2. Excused(c)
    BY <1>6, <1>7, <1>10 DEF Excused
  <2> QED
    BY <1>9, <2>1, <2>2 DEF Rightly
<1>11. CASE ~misread /\ ArgsRefused(Line)
  <2>1. Close(<<"ERROR">>)
    BY <1>2, <1>11 DEF ReadArgs
  <2>2. Excused(c) \/ ~Allowed(c)
    BY <1>2, <1>4, <1>6, <1>7, <1>11 DEF ArgsRefused, Excused, Allowed
  <2> QED
    BY <1>9, <2>1, <2>2 DEF Rightly, May
<1>12. CASE ~misread /\ ~ArgsRefused(Line)
  <2>1. Allowed(c)
    BY <1>2, <1>4, <1>6, <1>7, <1>12 DEF ArgsRefused, Allowed
  <2>2. IF Line.push /\ Line.path = "unsafe"
        THEN Close(<<"Setup">>)
        ELSE Answer(<<"Setup">>, IF Line.push THEN "receive" ELSE "send")
    BY <1>2, <1>12 DEF ReadArgs
  <2>3. CASE jobs[c].push /\ jobs[c].path = "unsafe"
    <3>1. Close(<<"Setup">>) /\ Rightly(c)
      BY <1>6, <2>2, <2>3 DEF Rightly, May
    <3> QED
      BY <1>9, <3>1
  <2>4. CASE ~(jobs[c].push /\ jobs[c].path = "unsafe")
    <3> DEFINE next == IF jobs[c].push THEN "receive" ELSE "send"
    <3>1. Answer(<<"Setup">>, next)
      BY <1>6, <2>2, <2>4
    <3> HIDE DEF next
    <3>2. /\ Streams(c, Tail(toServer[c]), toClient[c] \o <<"Setup">>)
          /\ dpc' = next /\ conn' = c /\ closed' = closed
      BY <1>2, <1>3, <3>1, Answering
    <3>3. toServer'[c] = <<>> /\ toClient'[c] = <<"Setup">>
      BY <1>5, <3>2 DEF Streams
    <3>4. AtTransfer(c)'
      BY <1>3, <1>4, <1>5, <1>7, <2>1, <2>4, <3>2, <3>3, SameRights DEF AtTransfer, At, next
    <3>5. dpc' \in DaemonSteps \ (Starting \cup {"accept"})
      BY <1>8, <3>2 DEF next
    <3> QED
      BY <1>2, <1>3, <1>8, <3>2, <3>4, <3>5, Stays DEF Served
  <2> QED
    BY <2>3, <2>4
<1> HIDE DEF misread
<1> QED
  BY <1>10, <1>11, <1>12

LEMMA ServePullInv ==
  ASSUME Inv, ServePull
  PROVE  Inv'
<1>1. conn # "none" /\ dpc = "send" /\ toServer[conn] # <<>>
  BY DEF ServePull, Inv, StateOK, Starting, Waiting
<1>2. PICK c \in Clients : conn = c
  BY <1>1, BeingServed
<1> DEFINE lines == IF jobs[c].path = "unsafe" THEN <<>> ELSE <<"Data">>
<1>3. /\ Served(c) /\ StateOK /\ Serves /\ row' = row /\ row \in Nat
      /\ modules' = modules /\ jobs' = jobs /\ cpc' = cpc /\ shown' = shown
      /\ Close(lines)
  <2>1. Served(c) /\ StateOK
    BY <1>1, <1>2, BeingServed
  <2> QED
    BY <1>2, <2>1 DEF ServePull, Serves, config, StateOK
<1>4. Known(c) /\ Admitted(c) /\ Allowed(c) /\ At(c, "transfer", <<"Data">>, <<>>)
  BY <1>1, <1>2, <1>3 DEF Served, AtGreeting, AtRequest, AtList, AtAuth, AtArgs, AtTransfer, At
<1>5. jobs[c].path \in {"safe", "unsafe"}
  BY <1>3 DEF StateOK, Job
<1>6. \/ lines = <<>> /\ Rightly(c)
      \/ lines = <<"Data">> /\ May(c)
  BY <1>4, <1>5 DEF Rightly, May
<1> HIDE DEF lines
<1>7. /\ Streams(c, <<>>, toClient[c] \o lines)
      /\ dpc' = "accept" /\ conn' = "none" /\ closed' = closed \cup {c}
  BY <1>2, <1>3, Closing
<1>8. toClient'[c] = lines /\ cpc'[c] = "transfer" /\ Transfers(c)
  <2>1. <<>> \o <<>> = <<>> /\ <<>> \o <<"Data">> = <<"Data">>
    OBVIOUS
  <2> QED
    BY <1>3, <1>4, <1>6, <1>7, <2>1 DEF Streams, At, Known
<1>9. Over(c)'
  BY <1>3, <1>6, <1>8, SameRights DEF Over, Hearing
<1> QED
  BY <1>2, <1>3, <1>7, <1>9, Leaves

LEMMA ServePushInv ==
  ASSUME Inv, ServePush
  PROVE  Inv'
<1>1. conn # "none" /\ dpc = "receive" /\ toServer[conn] # <<>>
  BY DEF ServePush, Inv, StateOK, Starting, Waiting
<1>2. PICK c \in Clients : conn = c
  BY <1>1, BeingServed
<1>3. /\ Served(c) /\ StateOK /\ Serves /\ row' = row /\ row \in Nat
      /\ modules' = modules /\ jobs' = jobs /\ cpc' = cpc /\ shown' = shown
      /\ Close(<<"Data">>)
  <2>1. Served(c) /\ StateOK
    BY <1>1, <1>2, BeingServed
  <2> QED
    BY <1>2, <2>1 DEF ServePush, Serves, config, StateOK
<1>4. May(c) /\ At(c, "transfer", <<"Data">>, <<>>)
  BY <1>1, <1>2, <1>3 DEF Served, AtGreeting, AtRequest, AtList, AtAuth, AtArgs, AtTransfer, At, May
<1>5. /\ Streams(c, <<>>, toClient[c] \o <<"Data">>)
      /\ dpc' = "accept" /\ conn' = "none" /\ closed' = closed \cup {c}
  BY <1>2, <1>3, Closing
<1>6. toClient'[c] = <<"Data">> /\ cpc'[c] = "transfer" /\ Transfers(c)
  BY <1>3, <1>4, <1>5 DEF Streams, At, May, Known
<1>7. Over(c)'
  BY <1>3, <1>4, <1>6, SameRights DEF Over, Hearing
<1> QED
  BY <1>2, <1>3, <1>5, <1>7, Leaves

\* The module that a client asks for, where there is one
LEMMA MineIsMod ==
  ASSUME ConfigInv, dpc \notin Starting, NEW CONSTANT c \in Clients, jobs[c] \in Job, Known(c)
  PROVE  /\ First(IndexIn(modules, jobs[c].request)) \in 1 .. Len(modules)
         /\ Mine(c) \in Mod
<1>1. modules \in Seq(Mod) /\ SoFar = modules /\ HasFirst(modules) /\ jobs[c].request \in STRING
  BY DEF ConfigInv, TextOK, SoFar, Starting, Job
<1>2. First(IndexIn(modules, jobs[c].request)) \in 1 .. Len(modules)
  BY <1>1, FirstModule DEF Known
<1> QED
  BY <1>1, <1>2 DEF Mine

\* Without credentials nobody is admitted where users are named.
LEMMA NoCredentials ==
  ASSUME NEW CONSTANT c \in Clients, Mine(c) \in Mod, ~HasCredentials(jobs[c]),
         Mine(c).set["auth users"] # {}
  PROVE  ~Admitted(c)
<1>1. "none" \notin Mine(c).set["auth users"]
  BY DEF Mod
<1> QED
  BY <1>1 DEF HasCredentials, Admitted

LEMMA ReadEndsInv ==
  ASSUME Inv, ReadEnds
  PROVE  Inv'
<1>1. conn # "none" /\ toServer[conn] = <<>> /\ HungUp
  BY DEF ReadEnds, Waiting
<1>2. PICK c \in Clients : conn = c
  BY <1>1, BeingServed
<1>3. /\ Served(c) /\ StateOK /\ ConfigInv /\ Serves /\ row' = row /\ row \in Nat
      /\ modules' = modules /\ jobs' = jobs /\ cpc' = cpc /\ shown' = shown /\ down' = down
      /\ Close(<<>>)
  <2>1. Served(c) /\ StateOK /\ ConfigInv
    BY <1>1, <1>2, BeingServed
  <2> QED
    BY <1>2, <2>1 DEF ReadEnds, Serves, config, StateOK
<1>4. /\ Streams(c, <<>>, toClient[c] \o <<>>)
      /\ dpc' = "accept" /\ conn' = "none" /\ closed' = closed \cup {c}
  BY <1>2, <1>3, Closing
<1>5. Over(c)'
  <2>1. CASE cpc[c] \in {"done", "failed"}
    <3>1. AtAuth(c)
      <4>1. Asking(c) \in {"listing", "selection"}
        BY DEF Asking
      <4> QED
        BY <1>3, <2>1, <4>1 DEF Served, AtGreeting, AtRequest, AtList, AtArgs, AtTransfer, At, Listing
    <3>2. /\ cpc[c] = "failed" /\ ~HasCredentials(jobs[c]) /\ Known(c)
          /\ Mine(c).set["auth users"] # {}
      BY <2>1, <3>1 DEF AtAuth, At
    <3>3. Mine(c) \in Mod
      <4>1. dpc \notin Starting /\ jobs[c] \in Job
        BY <1>1, <1>3 DEF StateOK
      <4> QED
        BY <1>3, <3>2, <4>1, MineIsMod
    <3>4. ~Admitted(c)
      BY <3>2, <3>3, NoCredentials
    <3>5. Rightly(c)
      BY <3>4 DEF Rightly, May
    <3> QED
      BY <1>3, <3>2, <3>5, SameRights DEF Over, Ended
  <2>2. CASE cpc[c] \notin {"done", "failed"}
    BY <1>1, <1>2, <1>3, <2>2 DEF HungUp, Over, Ended
  <2> QED
    BY <2>1, <2>2
<1> QED
  BY <1>2, <1>3, <1>4, <1>5, Leaves

LEMMA AcceptInv ==
  ASSUME Inv, Accept
  PROVE  Inv'
<1>1. /\ dpc = "accept" /\ backlog # <<>> /\ conn = "none" /\ StateOK /\ ConfigInv
      /\ conn' = Head(backlog) /\ backlog' = Tail(backlog) /\ dpc' = "greeting"
      /\ toClient' = [toClient EXCEPT ![Head(backlog)] = Append(@, "Greeting")]
      /\ UNCHANGED config /\ modules' = modules /\ jobs' = jobs /\ chosen' = chosen /\ row' = row
      /\ closed' = closed /\ cpc' = cpc /\ toServer' = toServer /\ down' = down /\ shown' = shown
  BY DEF Accept, Inv, StateOK, config
<1>0. PICK c \in Clients : c = Head(backlog)
  <2>1. Head(backlog) \in Clients
    BY <1>1, TakeLine DEF StateOK
  <2> QED
    BY <2>1
<1>2. /\ backlog \in Seq(Clients) /\ Len(backlog) \in Nat /\ Len(backlog) >= 1
      /\ c = backlog[1] /\ c \in Clients /\ backlog' \in Seq(Clients)
      /\ Len(backlog') = Len(backlog) - 1
      /\ \A j \in 1 .. Len(backlog') : backlog'[j] = backlog[j + 1]
  <2>1. backlog \in Seq(Clients)
    BY <1>1 DEF StateOK
  <2> QED
    BY <1>0, <1>1, <2>1, TakeLine
<1>3. \A i, j \in 1 .. Len(backlog) : backlog[i] = backlog[j] => i = j
  BY <1>1 DEF StateOK
<1>4. Queues(c) /\ ClientOK(c) /\ c \notin closed /\ Queued(c)
  <2>1. 1 \in 1 .. Len(backlog)
    BY <1>2
  <2>2. Queues(c)
    BY <1>2, <2>1 DEF Queues
  <2>3. ClientOK(c)
    BY <1>2 DEF Inv
  <2> QED
    BY <2>2, <2>3 DEF ClientOK
<1>5. \A i \in 1 .. Len(backlog') : i + 1 \in 1 .. Len(backlog) /\ i + 1 # 1
  BY <1>2
<1>6. ~Queues(c)'
  <2> SUFFICES ASSUME NEW i \in 1 .. Len(backlog'), backlog'[i] = c PROVE FALSE
    BY DEF Queues
  <2>1. i + 1 \in 1 .. Len(backlog) /\ 1 \in 1 .. Len(backlog) /\ backlog[i + 1] = backlog[1] /\ i + 1 # 1
    BY <1>2, <1>5
  <2> QED
    BY <1>3, <2>1
<1>7. ASSUME NEW d \in Clients, d # c PROVE Queues(d)' <=> Queues(d)
  <2>1. ASSUME Queues(d)' PROVE Queues(d)
    <3>1. PICK i \in 1 .. Len(backlog') : backlog'[i] = d
      BY <2>1 DEF Queues
    <3>2. i + 1 \in 1 .. Len(backlog) /\ backlog[i + 1] = d
      BY <1>2, <1>5, <3>1
    <3> QED
      BY <3>2 DEF Queues
  <2>2. ASSUME Queues(d) PROVE Queues(d)'
    <3>1. PICK i \in 1 .. Len(backlog) : backlog[i] = d
      BY <2>2 DEF Queues
    <3>2. i # 1
      BY <1>2, <1>7, <3>1
    <3>3. i - 1 \in 1 .. Len(backlog') /\ (i - 1) + 1 = i
      BY <1>2, <3>2
    <3>4. backlog'[i - 1] = d
      BY <1>2, <3>1, <3>3
    <3> QED
      BY <3>3, <3>4 DEF Queues
  <2> QED
    BY <2>1, <2>2
<1>8. StateOK'
  <2>1. \A i, j \in 1 .. Len(backlog') : backlog'[i] = backlog'[j] => i = j
    <3> SUFFICES ASSUME NEW i \in 1 .. Len(backlog'), NEW j \in 1 .. Len(backlog'), backlog'[i] = backlog'[j]
                 PROVE  i = j
      OBVIOUS
    <3>1. i + 1 = j + 1
      BY <1>2, <1>3, <1>5
    <3> QED
      BY <3>1
  <2>2. DOMAIN toClient' = Clients /\ conn' \in Clients /\ conn' # "none"
    BY <1>0, <1>1, <1>2, DaemonAssumption DEF StateOK
  <2> QED
    BY <1>1, <1>2, <2>1, <2>2 DEF StateOK, DaemonSteps, Starting
<1>9. ConfigInv'
  BY <1>1, ServingConfig DEF Starting
<1>10. ASSUME NEW d \in Clients, d # c PROVE ClientOK(d)'
  <2>1. ClientOK(d) /\ Same(d) /\ down'[d] = down[d] /\ d # conn /\ d # conn'
    BY <1>0, <1>1, <1>10, DaemonAssumption DEF Inv, Same, StateOK
  <2> QED
    BY <1>1, <1>7, <1>10, <2>1, Away
<1>11. ClientOK(c)'
  <2>1. toClient'[c] = <<"Greeting">> /\ conn' = c
    <3>1. toClient[c] = <<>> /\ c \in DOMAIN toClient
      BY <1>1, <1>2, <1>4 DEF Queued, At, StateOK
    <3> QED
      BY <1>0, <1>1, <3>1
  <2>2. AtGreeting(c)'
    BY <1>1, <1>4, <2>1 DEF AtGreeting, Queued, At
  <2> QED
    BY <1>1, <1>4, <1>6, <2>1, <2>2 DEF ClientOK, Served
<1> QED
  BY <1>2, <1>8, <1>9, <1>10, <1>11 DEF Inv

-----------------------------------------------------------------------------
(* The invariant                                                           *)

LEMMA ServingInv ==
  ASSUME Inv, Serving
  PROVE  Inv'
  BY AcceptInv, ReadGreetingInv, ReadRequestInv, ListModuleInv, EndListInv, AuthenticateInv,
     ReadArgsInv, ServePullInv, ServePushInv, ReadEndsInv DEF Serving

LEMMA StutterInv ==
  ASSUME Inv, UNCHANGED vars
  PROVE  Inv'
<1>1. /\ UNCHANGED config /\ modules' = modules /\ jobs' = jobs
      /\ dpc' = dpc /\ conn' = conn /\ closed' = closed /\ chosen' = chosen /\ row' = row
      /\ backlog' = backlog /\ cpc' = cpc
      /\ toServer' = toServer /\ toClient' = toClient /\ shown' = shown /\ down' = down
  BY DEF vars, config, daemon
<1>2. StateOK'
  BY <1>1 DEF Inv, StateOK
<1>3. ConfigInv'
  BY <1>1, ServingConfig DEF Inv
<1>4. ASSUME NEW d \in Clients PROVE ClientOK(d)'
  <2>1. ClientOK(d) /\ Same(d) /\ (Queues(d)' <=> Queues(d)) /\ down'[d] = down[d]
    BY <1>1 DEF Inv, Same, Queues
  <2> QED
    BY <1>1, <2>1, Bystander
<1> QED
  BY <1>2, <1>3, <1>4 DEF Inv

LEMMA InitInv ==
  ASSUME Init
  PROVE  Inv
<1>1. PICK s \in Starts : /\ wrote = [lines |-> s.lines, params |-> s.params]
                          /\ jobs = s.jobs
                          /\ down = [c \in Clients |-> IF c \in s.here THEN "no" ELSE "dead"]
  BY DEF Init
<1>2. /\ wrote.lines \in Seq(ConfigLine) /\ wrote.params \in Seq(Override) /\ jobs \in [Clients -> Job]
      /\ DOMAIN down = Clients
  BY <1>1, DaemonAssumption
<1>3. /\ text = wrote.lines /\ params = wrote.params /\ current = NoModule /\ modules = <<>>
      /\ dpc = "config" /\ conn = "none" /\ row = 0 /\ backlog = <<>> /\ closed = {}
      /\ cpc = [c \in Clients |-> "start"]
      /\ toServer = [c \in Clients |-> <<>>] /\ toClient = [c \in Clients |-> <<>>]
      /\ shown = [c \in Clients |-> {}]
  BY DEF Init
<1>4. StateOK
  BY <1>2, <1>3 DEF StateOK, DaemonSteps, ClientSteps, Starting
<1>5. TextOK /\ ReadSoFar = 0 /\ SoFar = <<>>
  <2>1. ReadSoFar = 0 /\ GivenSoFar = 0 /\ Len(wrote.lines) \in Nat /\ Len(wrote.params) \in Nat
    BY <1>2, <1>3 DEF ReadSoFar, GivenSoFar
  <2>2. modules \in Seq(Mod)
    BY <1>3
  <2>3. SoFar = <<>>
    BY <1>3 DEF SoFar
  <2> QED
    BY <1>2, <1>3, <2>1, <2>2, <2>3 DEF TextOK
<1>6. Parsed
  <2> DEFINE at == [i \in 1 .. 0 |-> i]
  <2>1. Follows(wrote.lines, at, <<>>, 0)
    <3>1. Len(<<>>) = 0 /\ 1 .. 0 = {}
      OBVIOUS
    <3>2. at \in [1 .. 0 -> 1 .. 0]
      OBVIOUS
    <3> HIDE DEF at
    <3> QED
      BY <3>1, <3>2 DEF Follows
  <2> HIDE DEF at
  <2> QED
    BY <1>5, <2>1 DEF Parsed
<1>7. HasFirst(SoFar)
  BY <1>5 DEF HasFirst
<1>8. ConfigInv
  BY <1>3, <1>5, <1>6, <1>7 DEF ConfigInv, Loaded, Validated, Starting
<1>9. ASSUME NEW c \in Clients PROVE ClientOK(c)
  <2>1. ~Queues(c) /\ c # conn /\ c \notin closed
    BY <1>3, DaemonAssumption DEF Queues
  <2>2. Idle(c)
    BY <1>3 DEF Idle, At
  <2> QED
    BY <2>1, <2>2 DEF ClientOK
<1> QED
  BY <1>4, <1>8, <1>9 DEF Inv

\* Whatever the daemon and its clients have done, the modules are what was
\* read of the configuration, a client that is served is where the daemon is,
\* and what is left in the stream of one that was left is what it deserves
\* (run, handle_client and the client's functions in daemon_client.rs).
THEOREM DaemonInvariant == Spec => []Inv
<1>1. Init => Inv
  BY InitInv
<1>2. Inv /\ [Next]_vars => Inv'
  <2> SUFFICES ASSUME Inv, [Next]_vars PROVE Inv'
    OBVIOUS
  <2>1. CASE Startup
    BY <2>1, StartupInv
  <2>2. CASE Serving
    BY <2>2, ServingInv
  <2>3. ASSUME NEW c \in Clients, Client(c) PROVE Inv'
    BY <2>3, ClientInv
  <2>4. ASSUME NEW c \in Clients, NEW how \in {"dead", "silent"}, Fault(c, how) PROVE Inv'
    BY <2>4, FaultInv
  <2>5. CASE UNCHANGED vars
    BY <2>5, StutterInv
  <2> QED
    BY <2>1, <2>2, <2>3, <2>4, <2>5 DEF Next
<1> QED
  BY <1>1, <1>2, PTL DEF Spec

-----------------------------------------------------------------------------
(* What it means                                                           *)

\* The modules that are served have the values that the text of the
\* configuration and the overrides give them.
LEMMA ServedAsWritten ==
  ASSUME ConfigInv, dpc \notin Starting, NEW n \in STRING
  PROVE  /\ Sections(n) # {} <=> IndexIn(modules, n) # {}
         /\ IndexIn(modules, n) # {} =>
              \A k \in Keys : modules[First(IndexIn(modules, n))].set[k] = Effective(n, k)
<1>1. /\ wrote.lines \in Seq(ConfigLine) /\ wrote.params \in Seq(Override) /\ params = <<>>
      /\ Follow(wrote.lines, wrote.params, modules, GivenSoFar)
  BY DEF ConfigInv, TextOK, Loaded, Starting
<1>2. /\ DOMAIN wrote.lines = 1 .. Len(wrote.lines) /\ DOMAIN wrote.params = 1 .. Len(wrote.params)
      /\ GivenSoFar = Len(wrote.params)
  BY <1>1 DEF GivenSoFar
<1>3. Sections(n) = SectionsIn(wrote.lines, n)
  BY <1>2 DEF Sections, SectionsIn, Lines
<1>4. /\ SectionsIn(wrote.lines, n) # {} <=> IndexIn(modules, n) # {}
      /\ SectionsIn(wrote.lines, n) # {} => First(SectionsIn(wrote.lines, n)) \in SectionsIn(wrote.lines, n)
      /\ IndexIn(modules, n) # {} =>
           \A k \in Keys : modules[First(IndexIn(modules, n))].set[k] =
                             EffectiveIn(wrote.lines, wrote.params, n, k, GivenSoFar)
  BY <1>1 DEF Follow
<1>5. ASSUME IndexIn(modules, n) # {}, NEW k \in Keys
      PROVE  EffectiveIn(wrote.lines, wrote.params, n, k, GivenSoFar) = Effective(n, k)
  <2> DEFINE f == First(SectionsIn(wrote.lines, n))
  <2>1. f = First(Sections(n)) /\ wrote.lines[f].name = n
    BY <1>3, <1>4, <1>5 DEF SectionsIn
  <2> HIDE DEF f
  <2>2. Setting(wrote.lines, f, k, Len(wrote.lines)) =
          {j \in Lines : /\ InSection(First(Sections(n)), j)
                         /\ wrote.lines[j].is = "param" /\ wrote.lines[j].key = k}
    BY <1>2, <2>1 DEF Setting, Within, Lines, InSection
  <2>3. ValueSoFar(wrote.lines, f, k, Len(wrote.lines)) = Written(n, k)
    BY <2>1, <2>2 DEF ValueSoFar, Written
  <2>4. GivenIn(wrote.params, n, k, GivenSoFar) =
          {i \in DOMAIN wrote.params : wrote.params[i].name = n /\ wrote.params[i].key = k}
    BY <1>2 DEF GivenIn
  <2> QED
    BY <2>3, <2>4 DEF EffectiveIn, Effective, f
<1> QED
  BY <1>3, <1>4, <1>5

\* Who may, by the modules, is who is permitted, by the text.
LEMMA MayIsPermitted ==
  ASSUME ConfigInv, dpc \notin Starting, NEW CONSTANT c \in Clients, jobs[c] \in Job, Transfers(c)
  PROVE  May(c) <=> Permitted(c)
<1> DEFINE n == jobs[c].request
<1>1. n \in STRING
  BY DEF Job
<1> HIDE DEF n
<1>2. /\ Sections(n) # {} <=> Known(c)
      /\ Known(c) => \A k \in Keys : Mine(c).set[k] = Effective(n, k)
  BY <1>1, ServedAsWritten DEF Known, Mine, n
<1>3. {"read only", "write only", "auth users", "secrets file"} \subseteq Keys
  BY DEF Keys, Texts, Flags
<1>4. CASE Known(c)
  <2>1. /\ Mine(c).set["read only"] = Effective(n, "read only")
        /\ Mine(c).set["write only"] = Effective(n, "write only")
        /\ Mine(c).set["auth users"] = Effective(n, "auth users")
        /\ Mine(c).set["secrets file"] = Effective(n, "secrets file")
    BY <1>2, <1>3, <1>4
  <2> QED
    BY <1>2, <1>4, <2>1 DEF May, Admitted, Allowed, Permitted, n
<1>5. CASE ~Known(c)
  BY <1>2, <1>5 DEF May, Permitted, n
<1> QED
  BY <1>4, <1>5

\* Every served directory exists, every module with users has a secrets
\* file, and every parameter has the value that the first section of its
\* name and the last override give it, whatever the file and the overrides
\* are (parse_config, apply_dparams, validate_config).
THEOREM ConfigurationHolds == Spec => []ConfigSound
<1>1. Inv => ConfigSound
  <2> SUFFICES ASSUME Inv, dpc = "accept"
               PROVE  /\ modules # <<>>
                      /\ \A i \in 1 .. Len(modules) :
                           /\ modules[i].set["path"] = "dir"
                           /\ modules[i].set["auth users"] # {} =>
                                modules[i].set["secrets file"] \in DOMAIN Secrets
                      /\ \A i \in 1 .. Len(modules) : \A k \in Keys :
                           i = First(IndexOf(modules[i].name)) =>
                             modules[i].set[k] = Effective(modules[i].name, k)
    BY DEF ConfigSound
  <2>1. ConfigInv /\ dpc \notin Starting /\ modules \in Seq(Mod)
    BY DEF Inv, ConfigInv, TextOK, Starting
  <2>2. modules # <<>> /\ \A i \in 1 .. Len(modules) : ModuleValid(modules[i])
    BY <2>1 DEF ConfigInv, Validated
  <2>3. ASSUME NEW i \in 1 .. Len(modules), NEW k \in Keys, i = First(IndexOf(modules[i].name))
        PROVE  modules[i].set[k] = Effective(modules[i].name, k)
    <3> DEFINE n == modules[i].name
    <3>1. n \in STRING /\ IndexOf(n) = IndexIn(modules, n) /\ i \in IndexIn(modules, n)
      <4>1. modules[i] \in Mod
        BY <2>1
      <4>2. n \in STRING
        BY <4>1 DEF Mod
      <4> QED
        BY <4>2 DEF IndexOf, IndexIn
    <3> HIDE DEF n
    <3>2. modules[First(IndexIn(modules, n))].set[k] = Effective(n, k)
      BY <2>1, <3>1, ServedAsWritten
    <3>3. First(IndexIn(modules, n)) = i
      BY <2>3, <3>1 DEF n
    <3> QED
      BY <3>2, <3>3 DEF n
  <2> QED
    BY <2>2, <2>3 DEF ModuleValid
<1> QED
  BY <1>1, DaemonInvariant, PTL

\* A client that is done or has failed got what it deserves: while the daemon
\* still serves it, it can only have found that it has no credentials.
LEMMA Outcome ==
  ASSUME Inv, NEW CONSTANT c \in Clients, cpc[c] \in {"done", "failed"}
  PROVE  /\ dpc \notin Starting /\ jobs[c] \in Job
         /\ cpc[c] = "failed" => Rightly(c)
         /\ cpc[c] = "done" => (Transfers(c) => May(c)) /\ (~Transfers(c) => Complete(c))
<1>1. StateOK /\ ConfigInv /\ ClientOK(c) /\ jobs[c] \in Job /\ "none" \notin Clients
  BY DaemonAssumption DEF Inv, StateOK
<1>2. CASE c = conn
  <2>1. Served(c) /\ dpc \notin Starting
    BY <1>1, <1>2 DEF ClientOK, StateOK
  <2>2. AtAuth(c)
    <3>1. Asking(c) \in {"listing", "selection"}
      BY DEF Asking
    <3> QED
      BY <2>1, <3>1 DEF Served, AtGreeting, AtRequest, AtList, AtArgs, AtTransfer, At, Listing
  <2>3. /\ cpc[c] = "failed" /\ ~HasCredentials(jobs[c]) /\ Known(c)
        /\ Mine(c).set["auth users"] # {}
    BY <2>2 DEF AtAuth, At
  <2>4. Mine(c) \in Mod
    BY <1>1, <2>1, <2>3, MineIsMod
  <2>5. ~Admitted(c)
    BY <2>3, <2>4, NoCredentials
  <2> QED
    BY <1>1, <2>1, <2>3, <2>5 DEF Rightly, May
<1>3. CASE c # conn
  <2>1. c \in closed
    BY <1>1, <1>3 DEF ClientOK, Queued, Idle, At
  <2>2. dpc \notin Starting
    BY <1>1, <2>1 DEF StateOK
  <2>3. Ended(c)
    BY <1>1, <2>1 DEF ClientOK, Over, ListEnds, Listing, Hearing
  <2> QED
    BY <1>1, <2>2, <2>3 DEF Ended
<1> QED
  BY <1>2, <1>3

\* For every configuration, all clients and any faults: a transfer ends well
\* only for a client that the configuration's text permits it, a client that
\* is permitted it fails only for the reasons named, and a listing is true
\* (handle_client, authenticate_daemon_client, write_module_list and
\* read_module_list).
THEOREM LoginHolds == Spec => []LoginSound
<1>1. Inv => TypeOK
  <2> SUFFICES ASSUME Inv PROVE TypeOK
    OBVIOUS
  <2>1. StateOK
    BY DEF Inv
  <2>2. ASSUME NEW i \in 1 .. Len(backlog) PROVE backlog[i] \in Clients \ (closed \cup {conn})
    <3>1. backlog[i] \in Clients /\ Queues(backlog[i])
      BY <2>1 DEF StateOK, Queues
    <3>2. ClientOK(backlog[i])
      BY <3>1 DEF Inv
    <3> QED
      BY <3>1, <3>2 DEF ClientOK
  <2>3. \A c \in Clients : cpc[c] \in ClientSteps
    BY <2>1 DEF StateOK
  <2> QED
    BY <2>1, <2>2, <2>3 DEF TypeOK, StateOK, DaemonSteps, Starting, ClientSteps
<1>2. Inv => DoneOnlyIfPermitted
  <2> SUFFICES ASSUME Inv, NEW c \in Clients, cpc[c] = "done", Transfers(c) PROVE Permitted(c)
    BY DEF DoneOnlyIfPermitted
  <2>1. May(c) /\ dpc \notin Starting /\ jobs[c] \in Job /\ ConfigInv
    BY Outcome DEF Inv
  <2> QED
    BY <2>1, MayIsPermitted
<1>3. Inv => NoFalseAlarm
  <2> SUFFICES ASSUME Inv, NEW c \in Clients, cpc[c] = "failed", Transfers(c), Permitted(c)
               PROVE  Excused(c)
    BY DEF NoFalseAlarm, Excused
  <2>1. Rightly(c) /\ dpc \notin Starting /\ jobs[c] \in Job /\ ConfigInv
    BY Outcome DEF Inv
  <2>2. May(c)
    BY <2>1, MayIsPermitted
  <2> QED
    BY <2>1, <2>2 DEF Rightly
<1>4. Inv => ListingSound
  <2> SUFFICES ASSUME Inv, NEW c \in Clients, cpc[c] = "done", ~Transfers(c)
               PROVE  Complete(c)
    BY DEF ListingSound, Complete, Offered
  <2> QED
    BY Outcome
<1>5. Inv => LoginSound
  BY <1>1, <1>2, <1>3, <1>4 DEF LoginSound
<1> QED
  BY <1>5, DaemonInvariant, PTL
=============================================================================
