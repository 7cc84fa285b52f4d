------------------------- MODULE EnvironmentProofs -------------------------
(***************************************************************************)
(* Two results for any names, any files and any number of them.           *)
(*                                                                         *)
(* A clean environment stays clean: whatever files, providers and sessions *)
(* set, and whatever the values in a file refer to, a piece of the daemon's *)
(* environment in a value of a clean session is one of the variables it    *)
(* starts with (CleanStaysClosed).                                         *)
(*                                                                         *)
(* The last layer wins: after every layer the entries are what the         *)
(* assignments up to that layer say, each variable once (LayersResolve,    *)
(* LastLayerStands). One assignment that is upserted keeps that            *)
(* (UpsertResolves); layers, files and lines are folds of such steps.      *)
(***************************************************************************)
EXTENDS Environment, FiniteSetTheorems, SequenceTheorems, TLAPS

Parsing == INSTANCE FoldTheorems WITH Op <- LineParsed
FromFile == INSTANCE FoldTheorems
              WITH Op <- LAMBDA es, p : UpsertEntry(es, p.key, p.value, "EnvFile")
FromProvider == INSTANCE FoldTheorems
  WITH Op <- LAMBDA es, k : UpsertEntry(es, k, <<<<"ProviderConfig", k>>>>, "ProviderConfig")
FromSession == INSTANCE FoldTheorems
  WITH Op <- LAMBDA es, k : UpsertEntry(es, k, <<<<"SessionOverride", k>>>>, "SessionOverride")

Passed == {"HOME", "USER", "TMPDIR"}
Names == Keys \cup STRING \cup Passed \cup {"PATH", "minimal path"}
Origins == {"text", "ref", "sq", "dq", "sp", "hash", "daemon", "ProviderConfig", "SessionOverride"}
\* Pieces that say nothing of the daemon's environment but these three.
Pieces == {p \in Origins \X Names : p[1] = "daemon" => p[2] \in Passed}
Values == Seq(Pieces)
Sources == {"DaemonInherited", "EnvFile", "ProviderConfig", "SessionOverride"}
CleanEntries == [key : Names, value : Values, source : Sources]
\* Maps from names to such values.
Maps == UNION {[ks -> Values] : ks \in SUBSET Names}

-----------------------------------------------------------------------------
(* The operators of the library.                                           *)

\* The least and the greatest of a set of naturals, for the greatest with a
\* bound, are in the set.
LEMMA Extremes ==
  /\ \A S \in SUBSET Nat : S # {} => Min(S) \in S
  /\ \A S \in SUBSET Nat, n \in Nat : S # {} /\ (\A y \in S : y <= n) => Max(S) \in S
<1>1. ASSUME NEW S \in SUBSET Nat, S # {} PROVE Min(S) \in S
  BY <1>1, Parsing!MinOfNaturals DEF Min, Parsing!Min
<1>2. ASSUME NEW S \in SUBSET Nat, NEW n \in Nat, S # {}, \A y \in S : y <= n
      PROVE  Max(S) \in S
  BY <1>2, Parsing!MaxOfNaturals DEF Max, Parsing!Max
<1> QED BY <1>1, <1>2

\* The greatest of a set of naturals with a bound is above all of them.
LEMMA Greatest ==
  ASSUME NEW S \in SUBSET Nat, S # {}, NEW n \in Nat, \A y \in S : y <= n
  PROVE  Max(S) \in S /\ \A y \in S : y <= Max(S)
BY Parsing!MaxOfNaturals DEF Max, Parsing!Max

\* SetToSeq of a finite set is a sequence of its elements.
LEMMA ListOf ==
  ASSUME NEW S, IsFiniteSet(S)
  PROVE  SetToSeq(S) \in Seq(S)
<1>1. Cardinality(S) \in Nat /\ ExistsBijection(1 .. Cardinality(S), S)
  BY FS_CardinalityType
<1>2. \E f \in [1 .. Cardinality(S) -> S] : IsInjective(f)
  BY <1>1 DEF ExistsBijection, Bijection, Injection, IsInjective
<1>3. SetToSeq(S) \in [1 .. Cardinality(S) -> S]
  BY <1>2 DEF SetToSeq
<1> QED BY <1>1, <1>3

\* Putting sequences of a type together gives one of that type.
LEMMA FlattenKeeps ==
  ASSUME NEW T, NEW ss \in Seq(Seq(T))
  PROVE  FlattenSeq(ss) \in Seq(T)
BY Parsing!FlattenType DEF FlattenSeq, Parsing!FlattenSeq

-----------------------------------------------------------------------------
(* The parser.                                                             *)

\* A comment and the blanks before it are cut off at the end.
LEMMA StripKeeps ==
  ASSUME NEW raw \in Seq(Tokens)
  PROVE  LET value == TrimEnd(StripInlineComment(raw)) IN
         value \in Seq(Tokens) /\ (Len(value) > 0 => Len(raw) > 0 /\ value[1] = raw[1])
<1> DEFINE FrontOf(s, t) == s \in Seq(Tokens) /\ (Len(s) > 0 => Len(t) > 0 /\ s[1] = t[1])
<1>1. FrontOf(StripInlineComment(raw), raw)
  <2> DEFINE marks == {i \in DOMAIN raw : raw[i].t = "hash" /\ ~QuotedAt(raw, i)
                                          /\ Quote(i - 1, raw, "sp")}
  <2>1. CASE marks = {}
    BY <2>1 DEF StripInlineComment
  <2>2. CASE marks # {}
    <3>1. marks \in SUBSET Nat /\ DOMAIN raw = 1 .. Len(raw) /\ marks \subseteq DOMAIN raw
      OBVIOUS
    <3>2. StripInlineComment(raw) = SubSeq(raw, 1, Min(marks) - 1)
      BY <2>2 DEF StripInlineComment
    <3> HIDE DEF marks
    <3>3. Min(marks) \in 1 .. Len(raw)
      BY <2>2, <3>1, Extremes
    <3> QED BY <3>2, <3>3
  <2> QED BY <2>1, <2>2
<1>2. ASSUME NEW s \in Seq(Tokens) PROVE FrontOf(TrimEnd(s), s)
  <2> DEFINE ends == {0} \cup {i \in DOMAIN s : s[i].t # "sp"}
  <2>1. ends \in SUBSET Nat /\ ends # {} /\ ends \subseteq 0 .. Len(s)
    OBVIOUS
  <2>2. TrimEnd(s) = SubSeq(s, 1, Max(ends))
    BY DEF TrimEnd
  <2> HIDE DEF ends
  <2>3. Len(s) \in Nat /\ \A y \in ends : y <= Len(s)
    BY <2>1
  <2>4. Max(ends) \in 0 .. Len(s)
    BY <2>1, <2>3, Extremes
  <2> DEFINE end == Max(ends)
  <2> HIDE DEF end
  <2>5. FrontOf(SubSeq(s, 1, end), s)
    <3>1. s \in Seq(Tokens) /\ end \in 0 .. Len(s)
      BY <2>4 DEF end
    <3> QED BY ONLY <3>1
  <2> QED BY <2>2, <2>5 DEF end
<1> QED BY <1>1, <1>2

\* A token as text comes from the file.
LEMMA PieceIsClean ==
  ASSUME NEW x \in Tokens
  PROVE  Piece(x) \in Pieces
<1>1. x.t \in {"lit", "ref", "sq", "dq", "sp", "hash"} /\ x.v \in STRING
  BY DEF Tokens
<1> DEFINE origin == IF x.t = "lit" THEN "text" ELSE x.t
<1>2. Piece(x) = <<origin, x.v>>
  BY DEF Piece
<1>3. origin \in {"text", "ref", "sq", "dq", "sp", "hash"}
  BY <1>1
<1> HIDE DEF origin
<1>4. origin \in Origins /\ origin # "daemon"
  BY <1>3 DEF Origins
<1>5. x.v \in Names
  BY <1>1 DEF Names
<1> QED BY ONLY <1>2, <1>4, <1>5 DEF Pieces

\* References bring in what the variables have.
LEMMA ExpandKeeps ==
  ASSUME NEW raw \in Seq(Tokens), NEW vals \in Maps
  PROVE  ExpandVars(raw, vals) \in Values
<1> DEFINE part(i) == IF raw[i].t # "ref" THEN <<Piece(raw[i])>>
                      ELSE IF raw[i].v \in DOMAIN vals THEN vals[raw[i].v] ELSE <<>>
           parts == [i \in DOMAIN raw |-> part(i)]
<1>1. ASSUME NEW i \in DOMAIN raw PROVE part(i) \in Seq(Pieces)
  <2>1. raw[i] \in Tokens
    OBVIOUS
  <2>2. <<Piece(raw[i])>> \in Seq(Pieces) /\ <<>> \in Seq(Pieces)
    BY <2>1, PieceIsClean
  <2>3. \A v \in DOMAIN vals : vals[v] \in Seq(Pieces)
    BY DEF Maps, Values
  <2> QED BY <2>2, <2>3
<1> HIDE DEF part
<1>2. parts \in Seq(Seq(Pieces))
  BY <1>1
<1>3. ExpandVars(raw, vals) = FlattenSeq(parts)
  BY DEF ExpandVars, part
<1> HIDE DEF parts
<1> QED BY <1>2, <1>3, FlattenKeeps DEF Values

\* The value of a line, quoted or not.
LEMMA UnquoteKeeps ==
  ASSUME NEW raw \in Seq(Tokens), NEW vals \in Maps
  PROVE  UnquoteValue(raw, vals) \in Values
<1> DEFINE n == Len(raw)
           inner == SubSeq(raw, 2, n - 1)
           quoted(q) == n >= 2 /\ Quote(1, raw, q) /\ Quote(n, raw, q)
<1>1. quoted("sq") \/ quoted("dq") => inner \in Seq(Tokens)
  OBVIOUS
<1>2. ASSUME NEW s \in Seq(Tokens) PROVE Literally(s) \in Values
  <2>1. \A i \in DOMAIN s : Piece(s[i]) \in Pieces
    BY PieceIsClean
  <2> QED BY <2>1 DEF Literally, Values
<1>3. CASE quoted("sq")
  <2>1. UnquoteValue(raw, vals) = Literally(inner)
    <3>1. ~quoted("dq")
      BY <1>3 DEF Quote
    <3> QED BY <1>3, <3>1 DEF UnquoteValue
  <2> QED BY <1>1, <1>2, <1>3, <2>1
<1>4. CASE ~quoted("sq") /\ quoted("dq")
  <2>1. UnquoteValue(raw, vals) = ExpandVars(inner, vals)
    BY <1>4 DEF UnquoteValue
  <2> QED BY <1>1, <1>4, <2>1, ExpandKeeps
<1>5. CASE ~quoted("sq") /\ ~quoted("dq")
  <2>1. UnquoteValue(raw, vals) = ExpandVars(TrimEnd(StripInlineComment(raw)), vals)
    BY <1>5 DEF UnquoteValue
  <2> QED BY <2>1, StripKeeps, ExpandKeeps
<1> QED BY <1>3, <1>4, <1>5

Pairs == [key : Names, value : Values]
FileLines == [pair : BOOLEAN, key : Keys, raw : Seq(Tokens)]

\* The pairs of a file have clean values if the layers before it have.
LEMMA ParseKeeps ==
  ASSUME NEW lines \in Seq(FileLines), NEW vals \in Maps
  PROVE  ParseEnvFile(lines, vals) \in Seq(Pairs)
<1> DEFINE Accs == [pairs : Seq(Pairs), vals : Maps]
           base == [pairs |-> <<>>, vals |-> vals]
<1>1. base \in Accs
  OBVIOUS
<1>2. ASSUME NEW acc \in Accs, NEW l \in FileLines PROVE LineParsed(acc, l) \in Accs
  <2>1. CASE ~l.pair
    BY <1>2, <2>1 DEF LineParsed
  <2>2. CASE l.pair
    <3> DEFINE v == UnquoteValue(l.raw, acc.vals)
               map == [k \in DOMAIN acc.vals \cup {l.key} |->
                         IF k = l.key THEN v ELSE acc.vals[k]]
    <3>1. l.raw \in Seq(Tokens) /\ l.key \in Names /\ acc.vals \in Maps
      BY DEF FileLines, Names
    <3>2. v \in Values
      BY <3>1, UnquoteKeeps
    <3> HIDE DEF v
    <3>3. [key |-> l.key, value |-> v] \in Pairs
      BY <3>1, <3>2 DEF Pairs
    <3>4. Append(acc.pairs, [key |-> l.key, value |-> v]) \in Seq(Pairs)
      BY <3>3
    <3>5. map \in Maps
      <4>1. PICK ks \in SUBSET Names : acc.vals \in [ks -> Values]
        BY <3>1 DEF Maps
      <4>2. ks \cup {l.key} \in SUBSET Names
        BY <3>1, <4>1
      <4>3. map \in [ks \cup {l.key} -> Values]
        BY <3>2, <4>1
      <4> HIDE DEF map
      <4> QED BY <4>2, <4>3 DEF Maps
    <3> HIDE DEF map
    <3>6. LineParsed(acc, l) = [pairs |-> Append(acc.pairs, [key |-> l.key, value |-> v]),
                                vals |-> map]
      BY <2>2 DEF LineParsed, v, map
    <3> QED BY <3>4, <3>5, <3>6
  <2>3. l.pair \in BOOLEAN
    BY DEF FileLines
  <2> QED BY <2>1, <2>2, <2>3
<1> HIDE DEF Accs, base
<1>3. Parsing!Fold(base, lines) \in Accs
  BY <1>1, <1>2, Parsing!FoldKeeps
<1>4. ParseEnvFile(lines, vals) = Parsing!Fold(base, lines).pairs
  BY DEF ParseEnvFile, base, FoldLeft, MapThenFoldSet, Max,
         Parsing!Fold, Parsing!FoldLeft, Parsing!MapThenFoldSet, Parsing!Max
<1> QED BY <1>3, <1>4 DEF Accs

-----------------------------------------------------------------------------
(* The resolver.                                                           *)

\* An upsert changes or adds one clean entry.
LEMMA UpsertKeeps ==
  ASSUME NEW entries \in Seq(CleanEntries), NEW k \in Names, NEW v \in Values,
         NEW source \in Sources
  PROVE  UpsertEntry(entries, k, v, source) \in Seq(CleanEntries)
<1> DEFINE at == {i \in DOMAIN entries : entries[i].key = k}
           e == Entry(k, v, source)
<1>1. e \in CleanEntries
  BY DEF Entry, CleanEntries
<1>2. at \in SUBSET Nat /\ at \subseteq DOMAIN entries
  OBVIOUS
<1>3. UpsertEntry(entries, k, v, source) =
        IF at = {} THEN Append(entries, e) ELSE [entries EXCEPT ![Min(at)] = e]
  BY DEF UpsertEntry
<1> HIDE DEF at, e
<1>4. CASE at = {}
  BY <1>1, <1>3, <1>4
<1>5. CASE at # {}
  <2>1. Min(at) \in DOMAIN entries
    BY <1>2, <1>5, Extremes
  <2> QED BY <1>1, <1>3, <1>5, <2>1
<1> QED BY <1>4, <1>5

\* As a map, clean entries are clean.
LEMMA MapKeeps ==
  ASSUME NEW entries \in Seq(CleanEntries)
  PROVE  EntriesToMap(entries) \in Maps
<1> DEFINE ks == {entries[i].key : i \in DOMAIN entries}
           at(k) == {i \in DOMAIN entries : entries[i].key = k}
<1>1. ASSUME NEW i \in DOMAIN entries
      PROVE  entries[i].key \in Names /\ entries[i].value \in Values
  <2>1. entries[i] \in CleanEntries
    OBVIOUS
  <2> QED BY <2>1 DEF CleanEntries
<1>2. ks \in SUBSET Names
  BY <1>1
<1>3. ASSUME NEW k \in ks PROVE entries[Max(at(k))].value \in Values
  <2>1. at(k) \in SUBSET Nat /\ at(k) # {} /\ at(k) \subseteq DOMAIN entries
    OBVIOUS
  <2>2. Len(entries) \in Nat /\ DOMAIN entries = 1 .. Len(entries)
    OBVIOUS
  <2> HIDE DEF at
  <2>3. \A i \in at(k) : i <= Len(entries)
    BY <2>1, <2>2
  <2>4. Max(at(k)) \in DOMAIN entries
    BY <2>1, <2>2, <2>3, Extremes
  <2> QED BY <1>1, <2>4
<1>4. EntriesToMap(entries) = [k \in ks |-> entries[Max(at(k))].value]
  BY DEF EntriesToMap
<1> HIDE DEF ks, at
<1>5. EntriesToMap(entries) \in [ks -> Values]
  BY <1>3, <1>4
<1> QED BY <1>2, <1>5 DEF Maps

\* A file's pairs leave the entries clean.
LEMMA FileKeeps ==
  ASSUME NEW entries \in Seq(CleanEntries), NEW pairs \in Seq(Pairs)
  PROVE  FoldLeft(LAMBDA es, p : UpsertEntry(es, p.key, p.value, "EnvFile"), entries, pairs)
           \in Seq(CleanEntries)
<1> DEFINE S == Seq(CleanEntries)
<1>1. ASSUME NEW es \in S, NEW p \in Pairs
      PROVE  UpsertEntry(es, p.key, p.value, "EnvFile") \in S
  <2>1. p.key \in Names /\ p.value \in Values /\ "EnvFile" \in Sources
    BY DEF Pairs, Sources
  <2> QED BY <2>1, UpsertKeeps
<1> HIDE DEF S
<1>2. FromFile!Fold(entries, pairs) \in S
  <2>1. entries \in S
    BY DEF S
  <2> QED BY <1>1, <2>1, FromFile!FoldKeeps
<1> QED BY <1>2 DEF S, FoldLeft, MapThenFoldSet, Max,
       FromFile!Fold, FromFile!FoldLeft, FromFile!MapThenFoldSet, FromFile!Max

\* The value of an override is text of its own.
LEMMA OverrideIsClean ==
  ASSUME NEW k \in Keys, NEW source \in {"ProviderConfig", "SessionOverride"}
  PROVE  /\ <<<<source, k>>>> \in Values /\ k \in Names /\ source \in Sources
<1>1. source \in Origins /\ source \in Sources /\ source # "daemon"
  BY DEF Origins, Sources
<1>2. k \in Names
  BY DEF Names
<1>3. <<source, k>> \in Pieces
  BY <1>1, <1>2 DEF Pieces
<1> QED BY <1>1, <1>2, <1>3 DEF Values

\* So do the overrides of the provider and of the session.
LEMMA OverridesKeep ==
  ASSUME NEW entries \in Seq(CleanEntries), NEW ks \in SUBSET Keys, IsFiniteSet(ks),
         NEW source \in {"ProviderConfig", "SessionOverride"}
  PROVE  ApplyOverrides(entries, ks, source) \in Seq(CleanEntries)
<1> DEFINE S == Seq(CleanEntries)
           list == SetToSeq(ks)
<1>1. list \in Seq(ks)
  BY ListOf
<1>2. ASSUME NEW es \in S, NEW k \in ks
      PROVE  UpsertEntry(es, k, <<<<source, k>>>>, source) \in S
  <2>1. k \in Keys
    OBVIOUS
  <2> QED BY <2>1, OverrideIsClean, UpsertKeeps
<1> HIDE DEF S, list
<1>3. entries \in S
  BY DEF S
<1>4. CASE source = "ProviderConfig"
  <2>1. FromProvider!Fold(entries, list) \in S
    BY <1>1, <1>2, <1>3, <1>4, FromProvider!FoldKeeps
  <2>2. ApplyOverrides(entries, ks, "ProviderConfig") = FromProvider!Fold(entries, list)
    BY DEF ApplyOverrides, list, FoldLeft, MapThenFoldSet, Max,
           FromProvider!Fold, FromProvider!FoldLeft, FromProvider!MapThenFoldSet,
           FromProvider!Max
  <2> QED BY <1>4, <2>1, <2>2 DEF S
<1>5. CASE source = "SessionOverride"
  <2>1. FromSession!Fold(entries, list) \in S
    BY <1>1, <1>2, <1>3, <1>5, FromSession!FoldKeeps
  <2>2. ApplyOverrides(entries, ks, "SessionOverride") = FromSession!Fold(entries, list)
    BY DEF ApplyOverrides, list, FoldLeft, MapThenFoldSet, Max,
           FromSession!Fold, FromSession!FoldLeft, FromSession!MapThenFoldSet,
           FromSession!Max
  <2> QED BY <1>5, <2>1, <2>2 DEF S
<1> QED BY <1>4, <1>5

-----------------------------------------------------------------------------
(* The invariant.                                                          *)

Paths == {"explicit", "envIn", "env"}
EnvFields == {"entries", "overrides", "mode", "file", "shell"}
CleanInv ==
  /\ config \in Configs
  /\ paths \in Seq({f \in Paths : config[f] # {}})
  /\ DOMAIN env = EnvFields
  /\ stage = "service" => env.mode # "Clean"
  /\ env.mode = "Clean" => env.entries \in Seq(CleanEntries)
  /\ stage = "done" /\ env.mode = "Clean" /\ config.handle = "posix" =>
       /\ \A k \in DOMAIN child.vals : child.vals[k] \in Values
       /\ child.lookup \subseteq Values

\* The PATH a clean session falls back to is its own.
LEMMA MinimalIsClean == MinimalPath \in Values
<1> DEFINE piece == <<"text", "minimal path">>
<1>1. piece \in Pieces
  BY DEF Pieces, Origins, Names
<1>2. MinimalPath = <<piece>>
  BY DEF MinimalPath
<1> HIDE DEF piece
<1> QED BY <1>1, <1>2 DEF Values

\* What a clean session starts with.
LEMMA CleanBaseIsClean == CleanBase.mode = "Clean" /\ CleanBase.entries \in Seq(CleanEntries)
<1>1. MinimalPath \in Values
  BY MinimalIsClean
<1>2. Entry("PATH", MinimalPath, "DaemonInherited") \in CleanEntries
  BY <1>1 DEF Entry, CleanEntries, Names, Sources
<1>3. ASSUME NEW k \in Passed PROVE IfSet(k) \in Seq(CleanEntries)
  <2>1. k \in Names
    BY DEF Names
  <2>2. <<"daemon", k>> \in Pieces
    BY <2>1 DEF Pieces, Origins
  <2>3. Inherited(k) \in Values
    BY <2>2 DEF Inherited, Values
  <2>4. Entry(k, Inherited(k), "DaemonInherited") \in CleanEntries
    BY <2>1, <2>3 DEF Entry, CleanEntries, Sources
  <2> QED BY <2>4 DEF IfSet
<1>4. IfSet("HOME") \in Seq(CleanEntries) /\ IfSet("USER") \in Seq(CleanEntries)
      /\ IfSet("TMPDIR") \in Seq(CleanEntries)
  BY <1>3 DEF Passed
<1> QED BY <1>2, <1>4 DEF CleanBase, NoEnv

\* The files to read are those that are there.
LEMMA PathsExist ==
  ASSUME config \in Configs
  PROVE  EnvFilePaths \in Seq({f \in Paths : config[f] # {}})
<1>1. CASE config.explicit # {}
  <2>1. "explicit" \in {f \in Paths : config[f] # {}}
    BY <1>1 DEF Paths
  <2> QED BY <1>1, <2>1 DEF EnvFilePaths
<1>2. CASE config.explicit = {}
  <2> DEFINE a == IF config.envIn # {} THEN <<"envIn">> ELSE <<>>
             b == IF config.env # {} THEN <<"env">> ELSE <<>>
             S == {f \in Paths : config[f] # {}}
  <2>1. a \in Seq(S) /\ b \in Seq(S)
    <3>1. config.envIn # {} => "envIn" \in S
      BY DEF Paths
    <3>2. config.env # {} => "env" \in S
      BY DEF Paths
    <3> HIDE DEF S
    <3> QED BY <3>1, <3>2
  <2>2. EnvFilePaths = a \o b
    BY <1>2 DEF EnvFilePaths
  <2> HIDE DEF a, b, S
  <2>3. a \o b \in Seq(S)
    BY <2>1
  <2> QED BY <2>2, <2>3 DEF S
<1> QED BY <1>1, <1>2

\* The invariant holds at the start.
LEMMA CleanInit == Init => CleanInv
BY DEF Init, CleanInv, NoEnv, NoChild, EnvFields

\* Nothing from outside comes in with any layer.
LEMMA CleanStep == CleanInv /\ [Next]_vars => CleanInv'
<1> SUFFICES ASSUME CleanInv, [Next]_vars PROVE CleanInv'
  OBVIOUS
<1>1. config \in Configs /\ DOMAIN env = EnvFields
  BY DEF CleanInv
<1>2. config \in ConfigType
  BY <1>1, ConfigsAssumption
<1>3. CASE Base
  <2>1. EnvFilePaths \in Seq({f \in Paths : config[f] # {}})
    BY <1>1, PathsExist
  <2>2. /\ config' = config /\ paths' = EnvFilePaths /\ stage' # "done"
        /\ stage' = IF config.mode = "BootstrapFromShell" THEN "service" ELSE "files"
    BY <1>3 DEF Base
  <2>3. DOMAIN env' = EnvFields /\ (env'.mode = "Clean" => env'.entries \in Seq(CleanEntries))
    <3>1. CASE config.mode = "Shell"
      BY <1>3, <3>1 DEF Base, ShellBase, NoEnv, EnvFields
    <3>2. CASE config.mode = "Clean"
      <4>1. env' = CleanBase
        BY <1>3, <3>2 DEF Base
      <4>2. DOMAIN CleanBase = EnvFields
        BY DEF CleanBase, NoEnv, EnvFields
      <4> QED BY <4>1, <4>2, CleanBaseIsClean
    <3>3. CASE config.mode \notin {"Shell", "Clean"}
      <4>1. env' = BootstrapBase
        BY <1>3, <3>3 DEF Base
      <4>2. DOMAIN BootstrapBase = EnvFields /\ BootstrapBase.mode = "BootstrapFromShell"
        BY DEF BootstrapBase, NoEnv, EnvFields
      <4> QED BY <4>1, <4>2
    <3> QED BY <3>1, <3>2, <3>3
  <2>4. stage' = "service" => env'.mode # "Clean"
    <3>1. stage' = "service" => config.mode = "BootstrapFromShell"
      BY <2>2
    <3>2. config.mode = "BootstrapFromShell" => env' = BootstrapBase
      BY <1>3 DEF Base
    <3>3. BootstrapBase.mode = "BootstrapFromShell"
      BY DEF BootstrapBase, NoEnv
    <3> QED BY <3>1, <3>2, <3>3
  <2> QED BY <1>1, <2>1, <2>2, <2>3, <2>4 DEF CleanInv
<1>4. CASE ImportServiceManager
  <2>1. /\ stage = "service" /\ stage' = "files" /\ config' = config /\ paths' = paths
        /\ DOMAIN env' = EnvFields /\ env'.mode = env.mode
    BY <1>1, <1>4 DEF ImportServiceManager, EnvFields
  <2> QED BY <2>1 DEF CleanInv
<1>5. CASE LoadEnvFile
  <2> DEFINE name == Head(paths)
             file == CHOOSE f \in config[name] : TRUE
             vals == EntriesToMap(env.entries)
             pairs == IF file.readable THEN ParseEnvFile(file.lines, vals) ELSE <<>>
             S == {f \in Paths : config[f] # {}}
  <2>1. /\ stage = "files" /\ stage' = stage /\ config' = config /\ paths' = Tail(paths)
        /\ paths # <<>> /\ paths \in Seq(S)
    BY <1>5 DEF LoadEnvFile, CleanInv
  <2>2. paths' \in Seq(S) /\ name \in S
    <3> HIDE DEF S
    <3> QED BY <2>1
  <2>3. env' = [env EXCEPT
          !.entries = FoldLeft(LAMBDA es, p : UpsertEntry(es, p.key, p.value, "EnvFile"),
                               @, pairs),
          !.file = {Head(paths)}]
    BY <1>5 DEF LoadEnvFile
  <2>4. file \in Files
    <3>1. config[name] # {} /\ config[name] \in SUBSET Files
      BY <1>2, <2>2 DEF ConfigType, Paths
    <3> HIDE DEF name
    <3> QED BY <3>1
  <2> HIDE DEF file
  <2>5. ASSUME env.mode = "Clean" PROVE pairs \in Seq(Pairs)
    <3>1. vals \in Maps
      BY <2>5, MapKeeps DEF CleanInv
    <3> HIDE DEF vals
    <3>2. file.lines \in Seq(FileLines) /\ file.readable \in BOOLEAN
      BY <2>4 DEF Files, FileLines
    <3>3. ParseEnvFile(file.lines, vals) \in Seq(Pairs)
      BY <3>1, <3>2, ParseKeeps
    <3> QED BY <3>2, <3>3
  <2> HIDE DEF pairs
  <2>6. /\ DOMAIN env' = EnvFields /\ env'.mode = env.mode
        /\ env'.entries = FoldLeft(LAMBDA es, p : UpsertEntry(es, p.key, p.value, "EnvFile"),
                                   env.entries, pairs)
    BY <1>1, <2>3 DEF EnvFields
  <2>7. env.mode = "Clean" => env'.entries \in Seq(CleanEntries)
    BY <2>5, <2>6, FileKeeps DEF CleanInv
  <2> QED BY <2>1, <2>2, <2>6, <2>7, <1>1 DEF CleanInv
<1>6. CASE ApplyProvider
  <2>1. config' = config /\ paths' = paths /\ stage' \notin {"done", "service"}
    BY <1>6 DEF ApplyProvider
  <2>2. env' = [env EXCEPT !.entries = ApplyOverrides(@, config.provider, "ProviderConfig")]
    BY <1>6 DEF ApplyProvider
  <2>3. DOMAIN env' = EnvFields /\ env'.mode = env.mode
        /\ env'.entries = ApplyOverrides(env.entries, config.provider, "ProviderConfig")
    BY <1>1, <2>2 DEF EnvFields
  <2>4. config.provider \in SUBSET Keys /\ IsFiniteSet(config.provider)
    BY <1>1, <1>2, ConfigsAssumption DEF ConfigType
  <2>5. env.mode = "Clean" => env'.entries \in Seq(CleanEntries)
    BY <2>3, <2>4, OverridesKeep DEF CleanInv
  <2> QED BY <2>1, <2>3, <2>5 DEF CleanInv
<1>7. CASE ApplySession
  <2>1. config' = config /\ paths' = paths /\ stage' \notin {"done", "service"}
    BY <1>7 DEF ApplySession
  <2>2. env' = [env EXCEPT !.entries = ApplyOverrides(@, config.overrides, "SessionOverride")]
    BY <1>7 DEF ApplySession
  <2>3. DOMAIN env' = EnvFields /\ env'.mode = env.mode
        /\ env'.entries = ApplyOverrides(env.entries, config.overrides, "SessionOverride")
    BY <1>1, <2>2 DEF EnvFields
  <2>4. config.overrides \in SUBSET Keys /\ IsFiniteSet(config.overrides)
    BY <1>1, <1>2, ConfigsAssumption DEF ConfigType
  <2>5. env.mode = "Clean" => env'.entries \in Seq(CleanEntries)
    BY <2>3, <2>4, OverridesKeep DEF CleanInv
  <2> QED BY <2>1, <2>3, <2>5 DEF CleanInv
<1>8. CASE HttpEnvironment
  BY <1>8 DEF HttpEnvironment, CleanInv, EnvFields
<1>9. CASE Launch
  <2>1. config' = config /\ paths' = paths /\ env' = env /\ stage' = "done"
    BY <1>9 DEF Launch
  <2>2. ASSUME env.mode = "Clean", config.handle = "posix"
        PROVE  /\ \A k \in DOMAIN child'.vals : child'.vals[k] \in Values
               /\ child'.lookup \subseteq Values
    <3> DEFINE vals == EntriesToMap(env.entries)
    <3>1. child' = [vals |-> vals,
                    lookup |-> {IF "PATH" \in DOMAIN vals THEN vals["PATH"] ELSE MinimalPath}]
      BY <1>9, <2>2 DEF Launch, PosixLaunch
    <3>2. vals \in Maps
      BY <2>2, MapKeeps DEF CleanInv
    <3> HIDE DEF vals
    <3>3. \A k \in DOMAIN vals : vals[k] \in Values
      BY <3>2 DEF Maps
    <3> QED BY <3>1, <3>3, MinimalIsClean
  <2> QED BY <2>1, <2>2 DEF CleanInv
<1>10. CASE UNCHANGED vars
  BY <1>10 DEF vars, CleanInv
<1> QED BY <1>3, <1>4, <1>5, <1>6, <1>7, <1>8, <1>9, <1>10 DEF Next

\* The entries of a clean session are clean after every layer.
THEOREM CleanInvariant == Spec => []CleanInv
BY CleanInit, CleanStep, PTL DEF Spec

\* On a POSIX handle no value of a clean session's process, and no path its
\* program is looked up in, has a piece of the daemon's environment but the
\* three variables. (The Windows handle does not look at the mode.)
THEOREM CleanStaysClosed == Spec => []CleanIsClosed
<1>1. CleanInv => CleanIsClosed
  <2> SUFFICES ASSUME CleanInv, stage = "done", env.mode = "Clean", config.handle = "posix",
                      NEW v \in {child.vals[k] : k \in DOMAIN child.vals} \cup child.lookup,
                      NEW i \in DOMAIN v, v[i][1] = "daemon"
               PROVE  v[i][2] \in {"HOME", "USER", "TMPDIR"}
    BY DEF CleanIsClosed
  <2>1. v \in Values
    BY DEF CleanInv
  <2>2. v[i] \in Pieces
    BY <2>1 DEF Values
  <2> QED BY <2>2 DEF Pieces, Passed
<1> QED BY <1>1, CleanInvariant, PTL

-----------------------------------------------------------------------------
(* Lists of assignments.                                                   *)

AllSources == {"DaemonInherited", "BootstrapShell", "ServiceManager", "EnvFile",
               "ProviderConfig", "SessionOverride"}
Assignment == [key : Names, source : AllSources, fixed : Seq(Origins \X Names), raw : Seq(Tokens)]
Lists == Seq(Assignment)

\* What the last assignment to k before the n-th is: one to k, with none to k
\* between; 0 if there is none.
LEMMA BeforeIs ==
  ASSUME NEW list \in Lists, NEW n \in 1 .. Len(list) + 1, NEW k
  PROVE  LET b == Before(list, k, n) IN
         /\ b \in 0 .. n - 1
         /\ b # 0 => list[b].key = k
         /\ \A i \in 1 .. n - 1 : list[i].key = k => i <= b
         /\ k \in KeysBefore(list, n) <=> b # 0
<1> DEFINE S == {0} \cup {i \in 1 .. n - 1 : list[i].key = k}
<1>1. n \in Nat /\ n - 1 \in Nat
  BY DEF Lists
<1>2. S \in SUBSET Nat /\ 0 \in S /\ \A i \in S : i <= n - 1
  BY <1>1
<1>3. Before(list, k, n) = Max(S)
  BY DEF Before
<1>4. \A i \in 1 .. n - 1 : list[i].key = k => i \in S
  OBVIOUS
<1>5. \A i \in S : i # 0 => i \in 1 .. n - 1 /\ list[i].key = k
  OBVIOUS
<1> HIDE DEF S
<1>6. Max(S) \in S /\ \A i \in S : i <= Max(S)
  BY <1>1, <1>2, Greatest
<1>7. k \in KeysBefore(list, n) <=> \E i \in 1 .. n - 1 : list[i].key = k
  BY DEF KeysBefore
<1>8. Max(S) \in 0 .. n - 1
  <2> DEFINE x == Max(S)
  <2>1. x \in S /\ x \in Nat /\ x <= n - 1
    BY <1>2, <1>6
  <2> HIDE DEF x
  <2>2. x \in 0 .. n - 1
    BY <1>1, <2>1
  <2> QED BY <2>2 DEF x
<1>9. Max(S) # 0 => Max(S) \in 1 .. n - 1 /\ list[Max(S)].key = k
  BY <1>5, <1>6
<1>10. \A i \in 1 .. n - 1 : list[i].key = k => i <= Max(S)
  BY <1>4, <1>6
<1>11. Max(S) = 0 => ~\E i \in 1 .. n - 1 : list[i].key = k
  BY <1>1, <1>10
<1> QED BY <1>3, <1>7, <1>8, <1>9, <1>10, <1>11

\* The last assignment to k depends on the list up to there.
LEMMA BeforeGrows ==
  ASSUME NEW list \in Lists, NEW a \in Assignment, NEW k, NEW n \in 1 .. Len(list) + 1
  PROVE  /\ Before(Append(list, a), k, n) = Before(list, k, n)
         /\ KeysBefore(Append(list, a), n) = KeysBefore(list, n)
<1>1. \A i \in 1 .. n - 1 : Append(list, a)[i] = list[i]
  BY DEF Lists
<1> QED BY <1>1 DEF Before, KeysBefore

\* f has what each of the first n assignments sets.
\* f is what the first n assignments set.
ValuesOf(f, list, n) == f = [m \in 0 .. n |-> IF m = 0 THEN <<>> ELSE SetBy(list, m, f)]

\* What an assignment sets depends on what the ones before it set.
LEMMA SetByEarlier ==
  ASSUME NEW list \in Lists, NEW m \in 1 .. Len(list), NEW f, NEW g,
         \A j \in 0 .. m - 1 : f[j] = g[j]
  PROVE  SetBy(list, m, f) = SetBy(list, m, g)
<1> DEFINE vals(h) == [k \in KeysBefore(list, m) |-> h[Before(list, k, m)]]
<1>1. m \in 1 .. Len(list) + 1
  BY DEF Lists
<1>2. \A k : Before(list, k, m) \in 0 .. m - 1
  BY <1>1, BeforeIs
<1>3. vals(f) = vals(g)
  BY <1>2
<1> QED BY <1>3 DEF SetBy, ValsBefore

\* There are values for any number of assignments: each is set by those before.
LEMMA ValuesExist ==
  ASSUME NEW list \in Lists
  PROVE  \A n \in Nat : n <= Len(list) => \E f : ValuesOf(f, list, n)
<1> DEFINE S == {n \in Nat : n <= Len(list) => \E f : ValuesOf(f, list, n)}
<1>1. 0 \in S
  <2>1. ValuesOf([m \in 0 .. 0 |-> <<>>], list, 0)
    BY DEF ValuesOf
  <2> QED BY <2>1
<1>2. ASSUME NEW n \in Nat, n \in S PROVE n + 1 \in S
  <2> SUFFICES ASSUME n + 1 <= Len(list) PROVE \E f : ValuesOf(f, list, n + 1)
    OBVIOUS
  <2>0. Len(list) \in Nat /\ n <= Len(list) /\ n + 1 \in 1 .. Len(list)
    BY DEF Lists
  <2>1. PICK f : ValuesOf(f, list, n)
    BY <1>2, <2>0
  <2> DEFINE g == [m \in 0 .. n + 1 |-> IF m = n + 1 THEN SetBy(list, m, f) ELSE f[m]]
  <2>2. \A j \in 0 .. n : f[j] = g[j]
    OBVIOUS
  <2>3. ASSUME NEW m \in 0 .. n + 1
        PROVE  g[m] = IF m = 0 THEN <<>> ELSE SetBy(list, m, g)
    <3>1. m # n + 1 => g[m] = IF m = 0 THEN <<>> ELSE SetBy(list, m, f)
      <4>1. m # n + 1 => m \in 0 .. n
        OBVIOUS
      <4> QED BY <2>1, <2>2, <4>1 DEF ValuesOf
    <3>2. m = n + 1 => g[m] = SetBy(list, m, f) /\ m # 0
      OBVIOUS
    <3> HIDE DEF g
    <3>3. m # 0 => SetBy(list, m, f) = SetBy(list, m, g)
      <4>1. m # 0 => m \in 1 .. Len(list) /\ \A j \in 0 .. m - 1 : j \in 0 .. n
        BY <2>0
      <4> QED BY <2>2, <4>1, SetByEarlier
    <3> QED BY <3>1, <3>2, <3>3
  <2>4. ValuesOf(g, list, n + 1)
    <3>1. g = [m \in 0 .. n + 1 |-> g[m]]
      OBVIOUS
    <3> HIDE DEF g
    <3> QED BY <2>3, <3>1 DEF ValuesOf
  <2> QED BY <2>4
<1>3. \A n \in Nat : n \in S
  <2> HIDE DEF S
  <2> QED BY <1>1, <1>2, Parsing!Induction
<1> QED BY <1>3

\* The recursion of ValueAt is one: its equation holds.
LEMMA ValueIs ==
  ASSUME NEW list \in Lists
  PROVE  /\ ValueAt(list)[0] = <<>>
         /\ \A n \in 1 .. Len(list) : ValueAt(list)[n] = SetBy(list, n, ValueAt(list))
<1>1. Len(list) \in Nat
  BY DEF Lists
<1>2. \E f : ValuesOf(f, list, Len(list))
  BY <1>1, ValuesExist
<1>3. ValueAt(list) = CHOOSE f : ValuesOf(f, list, Len(list))
  BY DEF ValueAt, ValuesOf
<1>4. ValuesOf(ValueAt(list), list, Len(list))
  BY <1>2, <1>3
<1> QED BY <1>1, <1>4 DEF ValuesOf

\* What assignments set does not depend on later ones.
LEMMA ValueGrows ==
  ASSUME NEW list \in Lists, NEW a \in Assignment
  PROVE  \A n \in 0 .. Len(list) : ValueAt(Append(list, a))[n] = ValueAt(list)[n]
<1> DEFINE longer == Append(list, a)
           f == ValueAt(longer)
           g == ValueAt(list)
           S == {n \in Nat : \A m \in 0 .. n : m <= Len(list) => f[m] = g[m]}
<1>0. longer \in Lists /\ Len(list) \in Nat /\ Len(longer) = Len(list) + 1
      /\ \A i \in 1 .. Len(list) : longer[i] = list[i]
  BY DEF Lists
<1>1. 0 \in S
  <2>1. f[0] = <<>> /\ g[0] = <<>>
    BY <1>0, ValueIs
  <2> QED BY <2>1
<1>2. ASSUME NEW n \in Nat, n \in S PROVE n + 1 \in S
  <2>1. \A m \in 0 .. n : m <= Len(list) => f[m] = g[m]
    BY <1>2
  <2> SUFFICES ASSUME n + 1 <= Len(list) PROVE f[n + 1] = g[n + 1]
    <3> HIDE DEF f, g
    <3> QED BY <2>1
  <2> DEFINE m == n + 1
  <2>2. m \in 1 .. Len(list) /\ m \in 1 .. Len(longer) /\ m \in 1 .. Len(list) + 1
        /\ \A j \in 0 .. m - 1 : j \in 0 .. n /\ j <= Len(list)
    BY <1>0
  <2> HIDE DEF m
  <2>3. f[m] = SetBy(longer, m, f) /\ g[m] = SetBy(list, m, g)
    <3> HIDE DEF longer
    <3> QED BY <1>0, <2>2, ValueIs
  <2>4. \A j \in 0 .. m - 1 : f[j] = g[j]
    BY <2>1, <2>2
  <2> HIDE DEF f, g
  <2>5. SetBy(longer, m, f) = SetBy(list, m, f)
    <3>1. longer[m] = list[m]
      BY <1>0, <2>2
    <3>2. KeysBefore(longer, m) = KeysBefore(list, m)
          /\ \A k : Before(longer, k, m) = Before(list, k, m)
      BY <2>2, BeforeGrows
    <3> HIDE DEF longer
    <3> QED BY <3>1, <3>2 DEF SetBy, ValsBefore
  <2>6. SetBy(list, m, f) = SetBy(list, m, g)
    BY <2>2, <2>4, SetByEarlier
  <2> QED BY <2>3, <2>5, <2>6 DEF m
<1>3. \A n \in Nat : n \in S
  <2> HIDE DEF S
  <2> QED BY <1>1, <1>2, Parsing!Induction
<1> QED BY <1>0, <1>3

-----------------------------------------------------------------------------
(* Entries and assignments.                                                *)

\* Entries of any values that resolve a list of assignments.
Resolved(entries, list) ==
  /\ \E V : entries \in Seq([key : Names, value : V, source : AllSources])
  /\ list \in Lists
  /\ Resolves(entries, list)

\* What references are looked up in after a list of assignments.
MapOf(list) ==
  [k \in KeysBefore(list, Len(list) + 1) |-> ValueAt(list)[Before(list, k, Len(list) + 1)]]

\* What an assignment sets after others.
NewValue(a, vals) == IF a.raw = <<>> THEN a.fixed ELSE Meaning(a.raw, vals)

\* A list with one more assignment.
LEMMA AppendList ==
  ASSUME NEW list \in Lists, NEW a \in Assignment
  PROVE  /\ Append(list, a) \in Lists
         /\ Len(Append(list, a)) = Len(list) + 1 /\ Len(list) \in Nat
         /\ Append(list, a)[Len(list) + 1] = a
         /\ \A i \in 1 .. Len(list) : Append(list, a)[i] = list[i]
BY DEF Lists

\* The last assignment of a list sets its text, or its right side expanded with
\* the map of the ones before it.
LEMMA NewValueIs ==
  ASSUME NEW list \in Lists, NEW a \in Assignment
  PROVE  ValueAt(Append(list, a))[Len(list) + 1] = NewValue(a, MapOf(list))
<1> DEFINE longer == Append(list, a)
           n == Len(list) + 1
           f == ValueAt(longer)
           g == ValueAt(list)
<1>1. longer \in Lists /\ Len(longer) = n /\ Len(list) \in Nat /\ longer[n] = a
  BY AppendList
<1>2. n \in 1 .. Len(longer) /\ n \in 1 .. Len(list) + 1 /\ n - 1 = Len(list)
  BY <1>1
<1>3. \A k : Before(list, k, n) \in 0 .. n - 1
  BY <1>2, BeforeIs
<1>4. \A m \in 0 .. Len(list) : f[m] = g[m]
  BY ValueGrows
<1>5. KeysBefore(longer, n) = KeysBefore(list, n)
      /\ \A k : Before(longer, k, n) = Before(list, k, n)
  BY <1>2, BeforeGrows
<1>6. f[n] = SetBy(longer, n, f)
  BY <1>1, <1>2, ValueIs
<1> HIDE DEF f, g, longer
<1>7. [k \in KeysBefore(longer, n) |-> f[Before(longer, k, n)]] = MapOf(list)
  <2>1. MapOf(list) = [k \in KeysBefore(list, n) |-> g[Before(list, k, n)]]
    BY DEF MapOf, g
  <2> HIDE DEF n
  <2> QED BY <1>2, <1>3, <1>4, <1>5, <2>1
<1> HIDE DEF n
<1>8. SetBy(longer, n, f) = NewValue(a, MapOf(list))
  BY <1>1, <1>7 DEF SetBy, ValsBefore, NewValue
<1> QED BY <1>6, <1>8 DEF f, n, longer

\* Resolved entries as a map.
LEMMA ResolvedMap ==
  ASSUME NEW entries, NEW list, Resolved(entries, list)
  PROVE  EntriesToMap(entries) = MapOf(list)
<1> DEFINE ks == {entries[i].key : i \in DOMAIN entries}
           at(k) == {i \in DOMAIN entries : entries[i].key = k}
           n == Len(list) + 1
<1>1. ks = KeysBefore(list, n)
  BY DEF Resolved, Resolves
<1>2. PICK V : entries \in Seq([key : Names, value : V, source : AllSources])
  BY DEF Resolved
<1>3. ASSUME NEW k \in ks
      PROVE  entries[Max(at(k))].value = ValueAt(list)[Before(list, k, n)]
  <2>1. at(k) \in SUBSET Nat /\ at(k) # {} /\ Len(entries) \in Nat
        /\ \A i \in at(k) : i <= Len(entries)
    BY <1>2
  <2>2. Max(at(k)) \in at(k)
    <3> HIDE DEF at
    <3> QED BY <2>1, Greatest
  <2>3. Max(at(k)) \in DOMAIN entries /\ entries[Max(at(k))].key = k
    BY <2>2
  <2> HIDE DEF at
  <2> QED BY <2>3 DEF Resolved, Resolves
<1>4. EntriesToMap(entries) = [k \in ks |-> entries[Max(at(k))].value]
  BY DEF EntriesToMap
<1>5. MapOf(list) = [k \in KeysBefore(list, n) |-> ValueAt(list)[Before(list, k, n)]]
  BY DEF MapOf
<1> HIDE DEF ks, at, n
<1> QED BY <1>1, <1>3, <1>4, <1>5

\* The last assignments after one more: its own, and those before to other keys.
LEMMA BeforeAppend ==
  ASSUME NEW list \in Lists, NEW a \in Assignment, NEW k
  PROVE  LET n == Len(list) + 1
             longer == Append(list, a) IN
         /\ Before(longer, a.key, n + 1) = n
         /\ k # a.key => Before(longer, k, n + 1) = Before(list, k, n)
         /\ KeysBefore(longer, n + 1) = KeysBefore(list, n) \cup {a.key}
<1> DEFINE n == Len(list) + 1
           longer == Append(list, a)
           m == n + 1
<1>1. longer \in Lists /\ Len(longer) = n /\ Len(list) \in Nat /\ longer[n] = a
      /\ \A i \in 1 .. n - 1 : longer[i] = list[i]
  BY AppendList
<1>2. n \in Nat /\ m \in 1 .. Len(longer) + 1 /\ n \in 1 .. Len(list) + 1 /\ m - 1 = n /\ n \in 1 .. m - 1
  BY <1>1
<1>3. \A i : i \in 1 .. m - 1 <=> i \in 1 .. n - 1 \/ i = n
  BY <1>2
<1> HIDE DEF longer, m
<1>4. Before(longer, a.key, m) = n
  <2> DEFINE b == Before(longer, a.key, m)
  <2>1. b \in 0 .. m - 1 /\ \A i \in 1 .. m - 1 : longer[i].key = a.key => i <= b
    BY <1>1, <1>2, BeforeIs
  <2>2. n <= b
    BY <1>1, <1>2, <2>1
  <2> HIDE DEF b, n
  <2>3. b = n
    BY <1>2, <2>1, <2>2
  <2> QED BY <2>3 DEF b
<1>5. k # a.key => Before(longer, k, m) = Before(list, k, n)
  <2> SUFFICES ASSUME k # a.key PROVE Before(longer, k, m) = Before(list, k, n)
    OBVIOUS
  <2> HIDE DEF n
  <2>1. \A i : i \in 1 .. m - 1 /\ longer[i].key = k <=> i \in 1 .. n - 1 /\ list[i].key = k
    BY <1>1, <1>3
  <2>2. {i \in 1 .. m - 1 : longer[i].key = k} = {i \in 1 .. n - 1 : list[i].key = k}
    BY <2>1
  <2> QED BY <2>2 DEF Before
<1>6. KeysBefore(longer, m) = KeysBefore(list, n) \cup {a.key}
  <2> HIDE DEF n
  <2>1. \A x : (\E i \in 1 .. m - 1 : longer[i].key = x)
               <=> (\E i \in 1 .. n - 1 : list[i].key = x) \/ x = a.key
    BY <1>1, <1>2, <1>3
  <2> QED BY <2>1 DEF KeysBefore
<1> QED BY <1>4, <1>5, <1>6 DEF m, longer

\* An assignment that is upserted with what it sets is resolved with the others.
LEMMA UpsertResolves ==
  ASSUME NEW entries, NEW list, Resolved(entries, list), NEW a \in Assignment,
         NEW v, v = NewValue(a, MapOf(list))
  PROVE  Resolved(UpsertEntry(entries, a.key, v, a.source), Append(list, a))
<1> DEFINE n == Len(list) + 1
           m == n + 1
           longer == Append(list, a)
           at == {i \in DOMAIN entries : entries[i].key = a.key}
           e == Entry(a.key, v, a.source)
           es == UpsertEntry(entries, a.key, v, a.source)
           f == ValueAt(list)
           g == ValueAt(longer)
<1>1. PICK V : entries \in Seq([key : Names, value : V, source : AllSources])
  BY DEF Resolved
<1>2. list \in Lists /\ Resolves(entries, list)
  BY DEF Resolved
<1>3. /\ longer \in Lists /\ Len(longer) = n /\ n \in Nat /\ longer[n] = a
      /\ \A i \in 1 .. n - 1 : longer[i] = list[i]
  BY <1>2, AppendList
<1>4. g[n] = v /\ \A i \in 0 .. n - 1 : g[i] = f[i]
  BY <1>2, <1>3, NewValueIs, ValueGrows
<1>5. /\ Before(longer, a.key, m) = n
      /\ \A k : k # a.key => Before(longer, k, m) = Before(list, k, n)
      /\ KeysBefore(longer, m) = KeysBefore(list, n) \cup {a.key}
  BY <1>2, BeforeAppend
<1>6. \A k : LET b == Before(list, k, n) IN
             b \in 0 .. n - 1 /\ (k \in KeysBefore(list, n) <=> b # 0)
  <2>1. n \in 1 .. Len(list) + 1
    BY <1>3
  <2> QED BY <1>2, <2>1, BeforeIs
<1>7. e.key = a.key /\ e.value = v /\ e.source = a.source
      /\ e \in [key : Names, value : V \cup {v}, source : AllSources]
  BY DEF Entry, Assignment
<1>8. /\ {entries[i].key : i \in DOMAIN entries} = KeysBefore(list, n)
      /\ \A i, j \in DOMAIN entries : entries[i].key = entries[j].key => i = j
      /\ \A i \in DOMAIN entries :
           LET b == Before(list, entries[i].key, n) IN
           entries[i].source = list[b].source /\ entries[i].value = f[b]
  BY <1>2 DEF Resolves
<1>9. es = IF at = {} THEN Append(entries, e) ELSE [entries EXCEPT ![Min(at)] = e]
  BY DEF UpsertEntry
<1> HIDE DEF es, e, f, g, longer, m
<1>10. entries \in Seq([key : Names, value : V \cup {v}, source : AllSources])
  <2> DEFINE Old == [key : Names, value : V, source : AllSources]
             New == [key : Names, value : V \cup {v}, source : AllSources]
  <2>1. Old \subseteq New
    OBVIOUS
  <2> HIDE DEF Old, New
  <2>2. entries \in Seq(Old)
    BY <1>1 DEF Old
  <2>3. entries \in Seq(New)
    BY <2>1, <2>2
  <2> QED BY <2>3 DEF New
\* The position that changes, and the entries there after.
<1>11. \E p \in 1 .. Len(entries) + 1 :
         /\ es \in Seq([key : Names, value : V \cup {v}, source : AllSources])
         /\ es[p] = e
         /\ \A i : i \in DOMAIN es <=> i = p \/ i \in DOMAIN entries
         /\ p \in DOMAIN entries => entries[p].key = a.key
         /\ \A i \in DOMAIN entries : i # p => es[i] = entries[i] /\ entries[i].key # a.key
  <2>1. CASE at = {}
    <3>1. es = Append(entries, e)
      BY <1>9, <2>1
    <3>2. \A i \in DOMAIN entries : entries[i].key # a.key
      BY <2>1
    <3> DEFINE p == Len(entries) + 1
    <3>3. /\ p \in 1 .. Len(entries) + 1 /\ Len(entries) \in Nat
          /\ DOMAIN entries = 1 .. Len(entries) /\ p \notin DOMAIN entries
      BY <1>1
    <3>4. es \in Seq([key : Names, value : V \cup {v}, source : AllSources])
      BY <1>7, <1>10, <3>1
    <3>5. es[p] = e /\ DOMAIN es = 1 .. p /\ \A i \in 1 .. Len(entries) : es[i] = entries[i]
      BY <1>10, <3>1
    <3>6. \A i : i \in 1 .. p <=> i = p \/ i \in 1 .. Len(entries)
      BY <3>3
    <3> HIDE DEF p, at
    <3> QED BY <3>2, <3>3, <3>4, <3>5, <3>6
  <2>2. CASE at # {}
    <3> DEFINE p == Min(at)
    <3>1. at \in SUBSET Nat /\ at \subseteq DOMAIN entries
      BY <1>1
    <3>2. p \in at
      <4> HIDE DEF at
      <4> QED BY <2>2, <3>1, Extremes
    <3>3. p \in DOMAIN entries /\ entries[p].key = a.key
      BY <3>2
    <3>4. es = [entries EXCEPT ![p] = e]
      BY <1>9, <2>2
    <3> HIDE DEF p, at
    <3>5. p \in 1 .. Len(entries) + 1
      BY <1>1, <3>3
    <3>6. es \in Seq([key : Names, value : V \cup {v}, source : AllSources])
      BY <1>7, <1>10, <3>3, <3>4
    <3>7. es[p] = e /\ DOMAIN es = DOMAIN entries
      BY <1>1, <3>3, <3>4
    <3>8. \A i \in DOMAIN entries : i # p => es[i] = entries[i] /\ entries[i].key # a.key
      BY <1>8, <3>3, <3>4
    <3> QED BY <3>3, <3>5, <3>6, <3>7, <3>8
  <2> QED BY <2>1, <2>2
<1>12. PICK p \in 1 .. Len(entries) + 1 :
         /\ es \in Seq([key : Names, value : V \cup {v}, source : AllSources])
         /\ es[p] = e
         /\ \A i : i \in DOMAIN es <=> i = p \/ i \in DOMAIN entries
         /\ p \in DOMAIN entries => entries[p].key = a.key
         /\ \A i \in DOMAIN entries : i # p => es[i] = entries[i] /\ entries[i].key # a.key
  BY <1>11
<1> HIDE DEF n, at
<1>13. {es[i].key : i \in DOMAIN es} = KeysBefore(longer, m)
  <2>1. \A x : (\E i \in DOMAIN es : es[i].key = x)
               <=> (\E i \in DOMAIN entries : entries[i].key = x) \/ x = a.key
    <3>1. \A i \in DOMAIN es : es[i].key = a.key \/ (i \in DOMAIN entries /\ es[i] = entries[i])
      BY <1>7, <1>12
    <3>2. p \in DOMAIN es /\ es[p].key = a.key
      BY <1>7, <1>12
    <3>3. ASSUME NEW i \in DOMAIN entries
          PROVE  i \in DOMAIN es /\ (es[i].key = entries[i].key \/ entries[i].key = a.key \/ i = p)
      BY <1>12
    <3>4. p \in DOMAIN entries => entries[p].key = a.key
      BY <1>12
    <3> QED BY ONLY <3>1, <3>2, <3>3, <3>4
  <2>2. \A x : (\E i \in DOMAIN entries : entries[i].key = x) <=> x \in KeysBefore(list, n)
    BY <1>8
  <2> QED BY <1>5, <2>1, <2>2
<1>14. \A i, j \in DOMAIN es : es[i].key = es[j].key => i = j
  BY <1>7, <1>8, <1>12
<1>15. ASSUME NEW i \in DOMAIN es
       PROVE  LET b == Before(longer, es[i].key, m) IN
              es[i].source = longer[b].source /\ es[i].value = g[b]
  <2>1. CASE i = p
    <3>1. es[i].key = a.key /\ es[i].source = a.source /\ es[i].value = v
      BY <1>7, <1>12, <2>1
    <3> QED BY <1>3, <1>4, <1>5, <3>1
  <2>2. CASE i # p
    <3>1. i \in DOMAIN entries /\ es[i] = entries[i] /\ entries[i].key # a.key
      BY <1>12, <2>2
    <3> DEFINE b == Before(list, entries[i].key, n)
    <3>2. entries[i].source = list[b].source /\ entries[i].value = f[b]
      BY <1>8, <3>1
    <3>3. Before(longer, es[i].key, m) = b
      BY <1>5, <3>1
    <3>4. b \in 0 .. n - 1 /\ b # 0
      BY <1>6, <1>8, <3>1
    <3> HIDE DEF b
    <3>5. b \in 1 .. n - 1
      BY <1>3, <3>4
    <3> QED BY <1>3, <1>4, <3>1, <3>2, <3>3, <3>4, <3>5
  <2> QED BY <2>1, <2>2
<1>16. Resolves(es, longer)
  <2>1. Len(longer) + 1 = m
    BY <1>3 DEF m
  <2> QED BY <1>13, <1>14, <1>15, <2>1 DEF Resolves, g
<1> QED BY <1>3, <1>12, <1>16 DEF Resolved, es, longer

-----------------------------------------------------------------------------
(* Layers of text.                                                         *)

FromManager == INSTANCE FoldTheorems
  WITH Op <- LAMBDA es, k : UpsertEntry(es, k, Inherited(k), "ServiceManager")

\* Assignments of texts of their own, in the order of a sequence of names.
TextOrigins == {"daemon", "ProviderConfig", "SessionOverride"}
Plains(ks, origin, source) == [i \in DOMAIN ks |-> Plain(ks[i], origin, source)]

\* An assignment of a text of its own.
LEMMA PlainIs ==
  ASSUME NEW k \in Names, NEW origin \in TextOrigins, NEW source \in AllSources, NEW vals
  PROVE  /\ Plain(k, origin, source) \in Assignment
         /\ Plain(k, origin, source).key = k
         /\ Plain(k, origin, source).source = source
         /\ NewValue(Plain(k, origin, source), vals) = <<<<origin, k>>>>
<1>1. <<origin, k>> \in Origins \X Names
  BY DEF TextOrigins, Origins
<1> DEFINE piece == <<origin, k>>
<1>2. <<piece>> \in Seq(Origins \X Names)
  <2> HIDE DEF piece
  <2> QED BY <1>1 DEF piece
<1>3. Plain(k, origin, source) = [key |-> k, source |-> source, fixed |-> <<piece>>, raw |-> <<>>]
  BY DEF Plain
<1> HIDE DEF piece
<1> QED BY <1>2, <1>3 DEF Assignment, NewValue, piece

\* Assignments of texts, one more.
LEMMA PlainsGrow ==
  ASSUME NEW list \in Lists, NEW ks \in Seq(Names), NEW k \in Names,
         NEW origin \in TextOrigins, NEW source \in AllSources
  PROVE  list \o Plains(Append(ks, k), origin, source)
           = Append(list \o Plains(ks, origin, source), Plain(k, origin, source))
<1> DEFINE a == Plain(k, origin, source)
           p == Plains(ks, origin, source)
           q == Plains(Append(ks, k), origin, source)
<1>1. \A i \in DOMAIN ks : Plain(ks[i], origin, source) \in Assignment
  BY PlainIs
<1>2. p \in Lists
  <2> DEFINE x(i) == Plain(ks[i], origin, source)
  <2>1. p = [i \in 1 .. Len(ks) |-> x(i)] /\ Len(ks) \in Nat
    BY DEF Plains
  <2>2. \A i \in 1 .. Len(ks) : x(i) \in Assignment
    <3>1. DOMAIN ks = 1 .. Len(ks)
      OBVIOUS
    <3> QED BY <1>1, <3>1
  <2> HIDE DEF x, p
  <2> QED BY <2>1, <2>2 DEF Lists
<1>3. a \in Assignment
  BY PlainIs
<1>4. q = Append(p, a)
  <2>1. DOMAIN Append(ks, k) = 1 .. Len(ks) + 1 /\ Len(ks) \in Nat
        /\ Append(ks, k)[Len(ks) + 1] = k
        /\ \A i \in 1 .. Len(ks) : Append(ks, k)[i] = ks[i]
    OBVIOUS
  <2> DEFINE x(i) == Plain(ks[i], origin, source)
             y(i) == Plain(Append(ks, k)[i], origin, source)
             n == Len(ks)
  <2>2. p = [i \in 1 .. n |-> x(i)]
    BY DEF Plains
  <2>3. q = [i \in 1 .. n + 1 |-> y(i)]
    BY <2>1 DEF Plains
  <2>4. y(n + 1) = a /\ \A i \in 1 .. n : y(i) = x(i)
    BY <2>1
  <2> HIDE DEF p, q, a, x, y
  <2>5. Append(p, a) = [i \in 1 .. n + 1 |-> IF i = n + 1 THEN a ELSE p[i]]
    BY <2>1, <2>2, <1>2 DEF Lists
  <2> HIDE DEF n
  <2>6. \A i \in 1 .. n + 1 : y(i) = IF i = n + 1 THEN a ELSE p[i]
    <3>1. \A i \in 1 .. n + 1 : i = n + 1 \/ i \in 1 .. n
      BY <2>1 DEF n
    <3> QED BY <2>2, <2>4, <3>1
  <2> QED BY <2>3, <2>5, <2>6
<1> HIDE DEF p, q, a
<1>5. list \o Append(p, a) = Append(list \o p, a)
  BY <1>2, <1>3 DEF Lists
<1> QED BY <1>4, <1>5 DEF p, q, a

\* No assignments add nothing.
LEMMA PlainsNone ==
  ASSUME NEW list \in Lists, NEW origin, NEW source
  PROVE  list \o Plains(<<>>, origin, source) = list
<1>1. Plains(<<>>, origin, source) = <<>>
  BY DEF Plains
<1> QED BY <1>1 DEF Lists

\* One more key of a layer of texts.
LEMMA PlainResolves ==
  ASSUME NEW es, NEW list \in Lists, NEW ks \in Seq(Names), NEW k \in Names,
         NEW origin \in TextOrigins, NEW source \in AllSources,
         Resolved(es, list \o Plains(ks, origin, source))
  PROVE  Resolved(UpsertEntry(es, k, <<<<origin, k>>>>, source),
                  list \o Plains(Append(ks, k), origin, source))
<1> DEFINE before == list \o Plains(ks, origin, source)
           a == Plain(k, origin, source)
           v == <<<<origin, k>>>>
<1>1. a \in Assignment /\ a.key = k /\ a.source = source /\ v = NewValue(a, MapOf(before))
  BY PlainIs
<1>2. list \o Plains(Append(ks, k), origin, source) = Append(before, a)
  BY PlainsGrow
<1>3. Resolved(es, before)
  OBVIOUS
<1> HIDE DEF before, a, v
<1>4. Resolved(UpsertEntry(es, a.key, v, a.source), Append(before, a))
  BY <1>1, <1>3, UpsertResolves
<1> QED BY <1>1, <1>2, <1>4 DEF v

\* The variables of the service manager.
LEMMA ManagerResolves ==
  ASSUME NEW entries, NEW list, Resolved(entries, list), NEW ks \in Seq(Names)
  PROVE  Resolved(FromManager!Fold(entries, ks), list \o Plains(ks, "daemon", "ServiceManager"))
<1> DEFINE K == {r \in Seq(Names) :
                   Resolved(FromManager!Fold(entries, r),
                            list \o Plains(r, "daemon", "ServiceManager"))}
<1>0. list \in Lists /\ "daemon" \in TextOrigins /\ "ServiceManager" \in AllSources
  <2>1. list \in Lists
    BY DEF Resolved
  <2>2. "daemon" \in TextOrigins
    BY DEF TextOrigins
  <2> QED BY <2>1, <2>2 DEF AllSources
<1>1. <<>> \in K
  <2>1. FromManager!Fold(entries, <<>>) = entries
    BY FromManager!FoldEmpty
  <2>2. list \o Plains(<<>>, "daemon", "ServiceManager") = list
    BY <1>0, PlainsNone
  <2>3. Resolved(FromManager!Fold(entries, <<>>), list \o Plains(<<>>, "daemon", "ServiceManager"))
    BY <2>1, <2>2
  <2>4. <<>> \in Seq(Names)
    OBVIOUS
  <2> QED BY <2>3, <2>4
<1>2. ASSUME NEW r \in Seq(Names), NEW k \in Names, r \in K PROVE Append(r, k) \in K
  <2>1. FromManager!Fold(entries, Append(r, k))
          = UpsertEntry(FromManager!Fold(entries, r), k, Inherited(k), "ServiceManager")
    BY ONLY r \in Seq(Names), k \in Names, FromManager!FoldAppend
  <2>2. Inherited(k) = <<<<"daemon", k>>>>
    BY DEF Inherited
  <2>3. Resolved(FromManager!Fold(entries, r), list \o Plains(r, "daemon", "ServiceManager"))
    BY <1>2
  <2>4. Resolved(UpsertEntry(FromManager!Fold(entries, r), k, <<<<"daemon", k>>>>, "ServiceManager"),
                 list \o Plains(Append(r, k), "daemon", "ServiceManager"))
    BY <1>0, <2>3, PlainResolves
  <2>5. Append(r, k) \in Seq(Names)
    OBVIOUS
  <2> QED BY <2>1, <2>2, <2>4, <2>5
<1>3. \A r \in Seq(Names) : r \in K
  <2> HIDE DEF K
  <2> QED BY <1>1, <1>2, Parsing!SequenceInduction
<1> QED BY <1>3

\* The provider's overrides.
LEMMA ProviderResolves ==
  ASSUME NEW entries, NEW list, Resolved(entries, list), NEW ks \in Seq(Names)
  PROVE  Resolved(FromProvider!Fold(entries, ks), list \o Plains(ks, "ProviderConfig", "ProviderConfig"))
<1> DEFINE K == {r \in Seq(Names) :
                   Resolved(FromProvider!Fold(entries, r), list \o Plains(r, "ProviderConfig", "ProviderConfig"))}
<1>0. list \in Lists /\ "ProviderConfig" \in TextOrigins /\ "ProviderConfig" \in AllSources
  <2>1. list \in Lists
    BY DEF Resolved
  <2>2. "ProviderConfig" \in TextOrigins
    BY DEF TextOrigins
  <2> QED BY <2>1, <2>2 DEF AllSources
<1>1. <<>> \in K
  <2>1. FromProvider!Fold(entries, <<>>) = entries
    BY FromProvider!FoldEmpty
  <2>2. list \o Plains(<<>>, "ProviderConfig", "ProviderConfig") = list
    BY <1>0, PlainsNone
  <2>3. Resolved(FromProvider!Fold(entries, <<>>), list \o Plains(<<>>, "ProviderConfig", "ProviderConfig"))
    BY <2>1, <2>2
  <2>4. <<>> \in Seq(Names)
    OBVIOUS
  <2> QED BY <2>3, <2>4
<1>2. ASSUME NEW r \in Seq(Names), NEW k \in Names, r \in K PROVE Append(r, k) \in K
  <2>1. FromProvider!Fold(entries, Append(r, k))
          = UpsertEntry(FromProvider!Fold(entries, r), k, <<<<"ProviderConfig", k>>>>, "ProviderConfig")
    BY ONLY r \in Seq(Names), k \in Names, FromProvider!FoldAppend
  <2>2. Resolved(FromProvider!Fold(entries, r), list \o Plains(r, "ProviderConfig", "ProviderConfig"))
    BY <1>2
  <2>3. Resolved(UpsertEntry(FromProvider!Fold(entries, r), k, <<<<"ProviderConfig", k>>>>, "ProviderConfig"),
                 list \o Plains(Append(r, k), "ProviderConfig", "ProviderConfig"))
    BY <1>0, <2>2, PlainResolves
  <2>4. Append(r, k) \in Seq(Names)
    OBVIOUS
  <2> QED BY <2>1, <2>3, <2>4
<1>3. \A r \in Seq(Names) : r \in K
  <2> HIDE DEF K
  <2> QED BY <1>1, <1>2, Parsing!SequenceInduction
<1> QED BY <1>3

\* The session's overrides.
LEMMA SessionResolves ==
  ASSUME NEW entries, NEW list, Resolved(entries, list), NEW ks \in Seq(Names)
  PROVE  Resolved(FromSession!Fold(entries, ks), list \o Plains(ks, "SessionOverride", "SessionOverride"))
<1> DEFINE K == {r \in Seq(Names) :
                   Resolved(FromSession!Fold(entries, r), list \o Plains(r, "SessionOverride", "SessionOverride"))}
<1>0. list \in Lists /\ "SessionOverride" \in TextOrigins /\ "SessionOverride" \in AllSources
  <2>1. list \in Lists
    BY DEF Resolved
  <2>2. "SessionOverride" \in TextOrigins
    BY DEF TextOrigins
  <2> QED BY <2>1, <2>2 DEF AllSources
<1>1. <<>> \in K
  <2>1. FromSession!Fold(entries, <<>>) = entries
    BY FromSession!FoldEmpty
  <2>2. list \o Plains(<<>>, "SessionOverride", "SessionOverride") = list
    BY <1>0, PlainsNone
  <2>3. Resolved(FromSession!Fold(entries, <<>>), list \o Plains(<<>>, "SessionOverride", "SessionOverride"))
    BY <2>1, <2>2
  <2>4. <<>> \in Seq(Names)
    OBVIOUS
  <2> QED BY <2>3, <2>4
<1>2. ASSUME NEW r \in Seq(Names), NEW k \in Names, r \in K PROVE Append(r, k) \in K
  <2>1. FromSession!Fold(entries, Append(r, k))
          = UpsertEntry(FromSession!Fold(entries, r), k, <<<<"SessionOverride", k>>>>, "SessionOverride")
    BY ONLY r \in Seq(Names), k \in Names, FromSession!FoldAppend
  <2>2. Resolved(FromSession!Fold(entries, r), list \o Plains(r, "SessionOverride", "SessionOverride"))
    BY <1>2
  <2>3. Resolved(UpsertEntry(FromSession!Fold(entries, r), k, <<<<"SessionOverride", k>>>>, "SessionOverride"),
                 list \o Plains(Append(r, k), "SessionOverride", "SessionOverride"))
    BY <1>0, <2>2, PlainResolves
  <2>4. Append(r, k) \in Seq(Names)
    OBVIOUS
  <2> QED BY <2>1, <2>3, <2>4
<1>3. \A r \in Seq(Names) : r \in K
  <2> HIDE DEF K
  <2> QED BY <1>1, <1>2, Parsing!SequenceInduction
<1> QED BY <1>3

-----------------------------------------------------------------------------
(* The lines of a file.                                                    *)

\* The parser's state after some lines, and the assignments these lines are.
Parsed(lines, vals) == Parsing!Fold([pairs |-> <<>>, vals |-> vals], lines)
OfLines(lines) == FlattenSeq([i \in DOMAIN lines |-> LineAssignments(lines[i])])

\* A line assigns at most one variable.
LEMMA LineIs ==
  ASSUME NEW l \in FileLines
  PROVE  /\ LineAssignments(l) \in Lists
         /\ ~l.pair => LineAssignments(l) = <<>>
         /\ l.pair => \E a \in Assignment :
              /\ LineAssignments(l) = <<a>> /\ a.key = l.key /\ a.source = "EnvFile"
              /\ a.fixed = <<>> /\ a.raw = l.raw
<1> DEFINE a == [key |-> l.key, source |-> "EnvFile", fixed |-> <<>>, raw |-> l.raw]
<1>1. l.key \in Names /\ l.raw \in Seq(Tokens) /\ l.pair \in BOOLEAN
  BY DEF FileLines, Names
<1>2. a \in Assignment /\ a.key = l.key /\ a.source = "EnvFile" /\ a.fixed = <<>> /\ a.raw = l.raw
  BY <1>1 DEF Assignment, AllSources
<1>3. LineAssignments(l) = IF l.pair THEN <<a>> ELSE <<>>
  BY DEF LineAssignments
<1> HIDE DEF a
<1>4. <<>> \in Lists /\ <<a>> \in Lists
  BY <1>2 DEF Lists
<1> QED BY <1>1, <1>2, <1>3, <1>4

\* One more line.
LEMMA LinesGrow ==
  ASSUME NEW lines \in Seq(FileLines), NEW l \in FileLines
  PROVE  /\ OfLines(lines) \in Lists
         /\ OfLines(Append(lines, l)) = OfLines(lines) \o LineAssignments(l)
<1> DEFINE parts == [i \in DOMAIN lines |-> LineAssignments(lines[i])]
           longer == [i \in DOMAIN Append(lines, l) |-> LineAssignments(Append(lines, l)[i])]
           n == Len(lines)
<1>1. \A i \in 1 .. n : LineAssignments(lines[i]) \in Lists
  BY LineIs
<1>2. LineAssignments(l) \in Lists
  BY LineIs
<1>3. n \in Nat /\ DOMAIN lines = 1 .. n /\ DOMAIN Append(lines, l) = 1 .. n + 1
      /\ Append(lines, l)[n + 1] = l /\ \A i \in 1 .. n : Append(lines, l)[i] = lines[i]
  OBVIOUS
<1>4. parts \in Seq(Lists) /\ Len(parts) = n /\ \A i \in 1 .. n : parts[i] = LineAssignments(lines[i])
  BY <1>1, <1>3
<1>5. \A i \in 1 .. n + 1 : LineAssignments(Append(lines, l)[i])
                              = IF i = n + 1 THEN LineAssignments(l) ELSE parts[i]
  <2>1. \A i \in 1 .. n + 1 : i = n + 1 \/ i \in 1 .. n
    BY <1>3
  <2> HIDE DEF parts, n
  <2> QED BY <1>3, <1>4, <2>1
<1>6. longer = [i \in 1 .. n + 1 |-> LineAssignments(Append(lines, l)[i])]
  BY <1>3
<1> HIDE DEF parts, longer, n
<1>7. Append(parts, LineAssignments(l))
        = [i \in 1 .. n + 1 |-> IF i = n + 1 THEN LineAssignments(l) ELSE parts[i]]
  <2> DEFINE t == LineAssignments(l)
  <2>1. t \in Lists /\ parts \in Seq(Lists) /\ Len(parts) = n
    BY <1>2, <1>4
  <2> HIDE DEF t
  <2>2. Append(parts, t) = [i \in 1 .. n + 1 |-> IF i = n + 1 THEN t ELSE parts[i]]
    <3> DEFINE q == Append(parts, t)
    <3>1. Len(q) = n + 1 /\ q \in Seq(Lists) /\ q[n + 1] = t /\ \A i \in 1 .. n : q[i] = parts[i]
      BY ONLY <2>1
    <3>2. \A i \in 1 .. n + 1 : i = n + 1 \/ i \in 1 .. n
      BY <1>3
    <3> HIDE DEF q
    <3>3. q = [i \in 1 .. n + 1 |-> q[i]]
      BY ONLY <3>1
    <3>4. \A i \in 1 .. n + 1 : q[i] = IF i = n + 1 THEN t ELSE parts[i]
      BY ONLY <3>1, <3>2
    <3> QED BY ONLY <3>3, <3>4 DEF q
  <2> QED BY <2>2 DEF t
<1>8. longer = Append(parts, LineAssignments(l))
  BY <1>5, <1>6, <1>7
<1>9. FlattenSeq(Append(parts, LineAssignments(l))) = FlattenSeq(parts) \o LineAssignments(l)
      /\ FlattenSeq(parts) \in Lists
  <2>1. parts \in Seq(Seq(Assignment)) /\ LineAssignments(l) \in Seq(Assignment)
    BY <1>2, <1>4 DEF Lists
  <2>2. Parsing!FlattenSeq(Append(parts, LineAssignments(l)))
          = Parsing!FlattenSeq(parts) \o LineAssignments(l)
    BY <2>1, Parsing!FlattenAppend
  <2>3. FlattenSeq(parts) \in Seq(Assignment)
    BY <2>1, FlattenKeeps
  <2> QED BY <2>2, <2>3 DEF Lists, FlattenSeq, Parsing!FlattenSeq
<1>10. OfLines(lines) = FlattenSeq(parts) /\ OfLines(Append(lines, l)) = FlattenSeq(longer)
  BY DEF OfLines, parts, longer
<1> QED BY <1>8, <1>9, <1>10

\* What a line is documented to say is what the code makes of it, but for a
\* comment after a quote.
LEMMA MeaningIs ==
  ASSUME NEW raw \in Seq(Tokens), NEW vals
  PROVE  Meaning(raw, vals) = UnquoteValue(raw, vals)
<1> DEFINE value == TrimEnd(StripInlineComment(raw))
<1>1. value \in Seq(Tokens) /\ (Len(value) > 0 => Len(raw) > 0 /\ value[1] = raw[1])
  BY StripKeeps
<1>2. CASE CommentAfterQuote(raw)
  BY <1>2 DEF Meaning
<1>3. CASE ~CommentAfterQuote(raw) /\ value = raw
  <2> HIDE DEF value
  <2>1. Meaning(raw, vals) = Documented(raw, vals)
    BY <1>3 DEF Meaning
  <2>2. Documented(raw, vals) =
          CASE InQuotes(raw, "sq") -> Literally(SubSeq(raw, 2, Len(raw) - 1))
            [] InQuotes(raw, "dq") -> ExpandVars(SubSeq(raw, 2, Len(raw) - 1), vals)
            [] OTHER               -> ExpandVars(raw, vals)
    BY <1>3 DEF Documented, value
  <2>3. UnquoteValue(raw, vals) =
          CASE InQuotes(raw, "sq") -> Literally(SubSeq(raw, 2, Len(raw) - 1))
            [] InQuotes(raw, "dq") -> ExpandVars(SubSeq(raw, 2, Len(raw) - 1), vals)
            [] OTHER               -> ExpandVars(raw, vals)
    BY <1>3 DEF UnquoteValue, InQuotes, value
  <2> QED BY <2>1, <2>2, <2>3
<1>4. CASE ~CommentAfterQuote(raw) /\ value # raw
  <2>1. ~Quote(1, raw, "sq") /\ ~Quote(1, raw, "dq")
    BY <1>4 DEF CommentAfterQuote
  <2> HIDE DEF value
  <2>2. ~InQuotes(value, "sq") /\ ~InQuotes(value, "dq")
    <3>1. \A q : Quote(1, value, q) => Quote(1, raw, q)
      BY <1>1 DEF Quote
    <3> QED BY <2>1, <3>1 DEF InQuotes
  <2>3. Documented(raw, vals) = ExpandVars(value, vals)
    BY <2>2 DEF Documented, value
  <2>4. UnquoteValue(raw, vals) = ExpandVars(value, vals)
    BY <2>1 DEF UnquoteValue, value
  <2>5. Meaning(raw, vals) = Documented(raw, vals)
    BY <1>4 DEF Meaning
  <2> QED BY <2>3, <2>4, <2>5
<1> QED BY <1>2, <1>3, <1>4

\* A value without tokens is empty.
LEMMA NothingUnquoted == ASSUME NEW vals PROVE UnquoteValue(<<>>, vals) = <<>>
<1>1. StripInlineComment(<<>>) = <<>>
  BY DEF StripInlineComment
<1>2. TrimEnd(<<>>) = <<>>
  <2> DEFINE ends == {0} \cup {i \in DOMAIN <<>> : <<>>[i].t # "sp"}
  <2>1. ends = {0}
    OBVIOUS
  <2>2. Max({0}) = 0
    <3>1. {0} \in SUBSET Nat /\ {0} # {} /\ 0 \in Nat /\ \A y \in {0} : y <= 0
      OBVIOUS
    <3>2. Max({0}) \in {0}
      BY ONLY <3>1, Greatest
    <3> QED BY <3>2
  <2>3. TrimEnd(<<>>) = SubSeq(<<>>, 1, Max(ends))
    BY DEF TrimEnd
  <2> HIDE DEF ends
  <2>4. TrimEnd(<<>>) = SubSeq(<<>>, 1, 0)
    BY <2>1, <2>2, <2>3
  <2> QED BY <2>4
<1>3. ExpandVars(<<>>, vals) = <<>>
  <2>1. FlattenSeq(<<>>) = <<>>
    BY Parsing!FlattenEmpty DEF FlattenSeq, Parsing!FlattenSeq
  <2> QED BY <2>1 DEF ExpandVars
<1>4. Len(<<>>) = 0
  OBVIOUS
<1>5. UnquoteValue(<<>>, vals) = ExpandVars(TrimEnd(StripInlineComment(<<>>)), vals)
  BY <1>4 DEF UnquoteValue
<1> QED BY <1>1, <1>2, <1>3, <1>5

\* The map after one more assignment.
LEMMA MapGrows ==
  ASSUME NEW list \in Lists, NEW a \in Assignment
  PROVE  MapOf(Append(list, a)) =
           [k \in DOMAIN MapOf(list) \cup {a.key} |->
              IF k = a.key THEN NewValue(a, MapOf(list)) ELSE MapOf(list)[k]]
<1> DEFINE n == Len(list) + 1
           m == n + 1
           longer == Append(list, a)
           f == ValueAt(list)
           g == ValueAt(longer)
<1>1. longer \in Lists /\ Len(longer) = n /\ n \in Nat /\ n \in 1 .. Len(list) + 1 /\ n - 1 = Len(list)
  BY AppendList
<1>2. g[n] = NewValue(a, MapOf(list)) /\ \A i \in 0 .. n - 1 : g[i] = f[i]
  BY <1>1, NewValueIs, ValueGrows
<1>3. /\ Before(longer, a.key, m) = n
      /\ \A k : k # a.key => Before(longer, k, m) = Before(list, k, n)
      /\ KeysBefore(longer, m) = KeysBefore(list, n) \cup {a.key}
  BY BeforeAppend
<1>4. \A k : Before(list, k, n) \in 0 .. n - 1
  BY <1>1, BeforeIs
<1>5. MapOf(longer) = [k \in KeysBefore(longer, m) |-> g[Before(longer, k, m)]]
  BY <1>1 DEF MapOf
<1>6. MapOf(list) = [k \in KeysBefore(list, n) |-> f[Before(list, k, n)]]
  BY DEF MapOf
<1> HIDE DEF f, g, longer, n, m
<1>7. DOMAIN MapOf(list) = KeysBefore(list, n)
      /\ \A k \in KeysBefore(list, n) : MapOf(list)[k] = f[Before(list, k, n)]
  BY <1>6
<1>8. \A k \in KeysBefore(list, n) \cup {a.key} :
        g[Before(longer, k, m)]
          = IF k = a.key THEN NewValue(a, MapOf(list)) ELSE MapOf(list)[k]
  BY <1>2, <1>3, <1>4, <1>7
<1> QED BY <1>3, <1>5, <1>7, <1>8 DEF longer

PairsOf(V) == [key : Names, value : V]

\* A file's pairs, upserted in their order, resolve its lines after the layers
\* before it.
LEMMA LinesResolve ==
  ASSUME NEW entries, NEW list, Resolved(entries, list), NEW lines \in Seq(FileLines)
  PROVE  LET acc == Parsed(lines, EntriesToMap(entries)) IN
         /\ \E V : acc.pairs \in Seq(PairsOf(V))
         /\ acc.vals = MapOf(list \o OfLines(lines))
         /\ Resolved(FromFile!Fold(entries, acc.pairs), list \o OfLines(lines))
<1> DEFINE acc(r) == Parsed(r, EntriesToMap(entries))
           Good(r) == /\ \E V : acc(r).pairs \in Seq(PairsOf(V))
                      /\ acc(r).vals = MapOf(list \o OfLines(r))
                      /\ Resolved(FromFile!Fold(entries, acc(r).pairs), list \o OfLines(r))
           K == {r \in Seq(FileLines) : Good(r)}
<1>0. list \in Lists
  BY DEF Resolved
<1>1. <<>> \in K
  <2>1. acc(<<>>) = [pairs |-> <<>>, vals |-> EntriesToMap(entries)]
    BY Parsing!FoldEmpty DEF Parsed
  <2>2. acc(<<>>).pairs = <<>> /\ acc(<<>>).vals = MapOf(list)
    BY <2>1, ResolvedMap
  <2>3. OfLines(<<>>) = <<>>
    BY Parsing!FlattenEmpty DEF OfLines, FlattenSeq, Parsing!FlattenSeq
  <2>4. list \o OfLines(<<>>) = list
    BY <1>0, <2>3 DEF Lists
  <2>5. FromFile!Fold(entries, <<>>) = entries
    BY FromFile!FoldEmpty
  <2>6. <<>> \in Seq(PairsOf({}))
    OBVIOUS
  <2> HIDE DEF acc
  <2>7. Good(<<>>)
    BY <2>2, <2>4, <2>5, <2>6
  <2> HIDE DEF Good
  <2> QED BY <2>7
<1>2. ASSUME NEW r \in Seq(FileLines), NEW l \in FileLines, r \in K PROVE Append(r, l) \in K
  <2> DEFINE before == list \o OfLines(r)
             after == list \o OfLines(Append(r, l))
             x == acc(r)
             y == acc(Append(r, l))
             es == FromFile!Fold(entries, x.pairs)
  <2>1. y = LineParsed(x, l)
    BY ONLY r \in Seq(FileLines), l \in FileLines, Parsing!FoldAppend DEF Parsed
  <2>2. Good(r)
    <3> HIDE DEF Good
    <3> QED BY <1>2
  <2>3. PICK V : x.pairs \in Seq(PairsOf(V))
    BY <2>2
  <2>4. x.vals = MapOf(before) /\ Resolved(es, before)
    BY <2>2
  <2>5. OfLines(r) \in Lists /\ OfLines(Append(r, l)) = OfLines(r) \o LineAssignments(l)
    BY LinesGrow
  <2>6. before \in Lists
    BY <1>0, <2>5 DEF Lists
  <2> DEFINE line == LineAssignments(l)
  <2>7. line \in Lists
    BY LineIs
  <2>8. after = before \o line
    <3> DEFINE o == OfLines(r)
    <3>1. o \in Seq(Assignment) /\ line \in Seq(Assignment) /\ list \in Seq(Assignment)
      BY <1>0, <2>5, <2>7 DEF Lists
    <3> HIDE DEF line, o
    <3>2. list \o (o \o line) = (list \o o) \o line
      BY <3>1, ConcatAssociative
    <3> QED BY <2>5, <3>2 DEF o, line
  <2>9. Append(r, l) \in Seq(FileLines)
    OBVIOUS
  <2>10. CASE ~l.pair
    <3>1. line = <<>>
      BY <2>10, LineIs
    <3> HIDE DEF line
    <3>2. after = before
      BY <2>6, <2>8, <3>1 DEF Lists
    <3>3. y = x
      BY <2>1, <2>10 DEF LineParsed
    <3>4. Good(Append(r, l))
      BY <2>3, <2>4, <3>2, <3>3
    <3> QED BY <2>9, <3>4
  <2>11. CASE l.pair
    <3>1. PICK a \in Assignment : /\ line = <<a>> /\ a.key = l.key /\ a.source = "EnvFile"
                                  /\ a.fixed = <<>> /\ a.raw = l.raw
      BY <2>11, LineIs
    <3> HIDE DEF line, acc
    <3>2. after = Append(before, a)
      <4> HIDE DEF before, after
      <4> QED BY <2>6, <2>8, <3>1 DEF Lists
    <3> DEFINE v == UnquoteValue(l.raw, x.vals)
               p == [key |-> l.key, value |-> v]
    <3>3. v = NewValue(a, MapOf(before))
      <4>1. CASE a.raw = <<>>
        BY <2>4, <3>1, <4>1, NothingUnquoted DEF NewValue
      <4>2. CASE a.raw # <<>>
        <5>1. a.raw \in Seq(Tokens)
          BY DEF Assignment
        <5> QED BY <2>4, <3>1, <4>2, <5>1, MeaningIs DEF NewValue
      <4> QED BY <4>1, <4>2
    <3> HIDE DEF v
    <3>4. /\ y.pairs = Append(x.pairs, p)
          /\ y.vals = [k \in DOMAIN x.vals \cup {l.key} |-> IF k = l.key THEN v ELSE x.vals[k]]
      <4> HIDE DEF x, y
      <4> QED BY <2>1, <2>11 DEF LineParsed, v
    <3>5. y.vals = MapOf(after)
      <4> HIDE DEF before, after, x, y
      <4>1. MapOf(Append(before, a)) =
              [k \in DOMAIN MapOf(before) \cup {a.key} |->
                 IF k = a.key THEN NewValue(a, MapOf(before)) ELSE MapOf(before)[k]]
        BY <2>6, MapGrows
      <4>2. MapOf(after) =
              [k \in DOMAIN x.vals \cup {l.key} |-> IF k = l.key THEN v ELSE x.vals[k]]
        BY ONLY <4>1, <2>4, <3>1, <3>2, <3>3
      <4> QED BY <3>4, <4>2
    <3>6. a.key \in Names
      BY DEF Assignment
    <3>7. p \in PairsOf(V \cup {v}) /\ p.key = a.key /\ p.value = v
      BY <3>1, <3>6 DEF PairsOf
    <3>8. x.pairs \in Seq(PairsOf(V \cup {v}))
      <4> DEFINE Old == PairsOf(V)
                 New == PairsOf(V \cup {v})
      <4>1. Old \subseteq New
        BY DEF PairsOf
      <4> HIDE DEF Old, New
      <4>2. x.pairs \in Seq(Old)
        BY <2>3 DEF Old
      <4>3. x.pairs \in Seq(New)
        BY <4>1, <4>2
      <4> QED BY <4>3 DEF New
    <3> HIDE DEF p
    <3>9. y.pairs \in Seq(PairsOf(V \cup {v}))
      <4> HIDE DEF x, y
      <4> QED BY <3>4, <3>7, <3>8
    <3>10. FromFile!Fold(entries, Append(x.pairs, p)) = UpsertEntry(es, p.key, p.value, "EnvFile")
      BY ONLY <3>7, <3>8, FromFile!FoldAppend
    <3>11. Resolved(UpsertEntry(es, a.key, v, a.source), Append(before, a))
      <4> HIDE DEF before, es
      <4> QED BY <2>4, <3>3, UpsertResolves
    <3>12. Resolved(FromFile!Fold(entries, y.pairs), after)
      <4> HIDE DEF before, after, es
      <4> QED BY <3>1, <3>2, <3>4, <3>7, <3>10, <3>11
    <3>13. Good(Append(r, l))
      BY <3>5, <3>9, <3>12
    <3> HIDE DEF Good
    <3> QED BY <2>9, <3>13
  <2>12. l.pair \in BOOLEAN
    BY DEF FileLines
  <2> QED BY <2>10, <2>11, <2>12
<1>3. \A r \in Seq(FileLines) : r \in K
  <2> HIDE DEF K
  <2> QED BY <1>1, <1>2, Parsing!SequenceInduction
<1>4. Good(lines)
  <2> HIDE DEF Good
  <2> QED BY <1>3
<1> QED BY <1>4

\* So do those of a file that is read.
LEMMA FileResolves ==
  ASSUME NEW entries, NEW list, Resolved(entries, list), NEW file \in Files,
         NEW pairs, pairs = IF file.readable THEN ParseEnvFile(file.lines, EntriesToMap(entries))
                            ELSE <<>>
  PROVE  /\ FileAssignments(file) \in Lists
         /\ Resolved(FoldLeft(LAMBDA es, p : UpsertEntry(es, p.key, p.value, "EnvFile"),
                              entries, pairs),
                     list \o FileAssignments(file))
<1> DEFINE es == FromFile!Fold(entries, pairs)
<1>1. es = FoldLeft(LAMBDA es0, p : UpsertEntry(es0, p.key, p.value, "EnvFile"), entries, pairs)
  BY DEF FoldLeft, MapThenFoldSet, Max,
         FromFile!Fold, FromFile!FoldLeft, FromFile!MapThenFoldSet, FromFile!Max
<1>2. file.lines \in Seq(FileLines) /\ file.readable \in BOOLEAN
  BY DEF Files, FileLines
<1>3. list \in Lists
  BY DEF Resolved
<1>4. CASE ~file.readable
  <2>1. pairs = <<>> /\ FileAssignments(file) = <<>>
    BY <1>4 DEF FileAssignments
  <2>2. es = entries
    BY <2>1, FromFile!FoldEmpty
  <2> HIDE DEF es
  <2>3. list \o <<>> = list /\ <<>> \in Lists
    BY <1>3 DEF Lists
  <2> QED BY <1>1, <2>1, <2>2, <2>3
<1>5. CASE file.readable
  <2> DEFINE acc == Parsed(file.lines, EntriesToMap(entries))
  <2>1. pairs = acc.pairs
    BY <1>5 DEF ParseEnvFile, Parsed, FoldLeft, MapThenFoldSet, Max,
           Parsing!Fold, Parsing!FoldLeft, Parsing!MapThenFoldSet, Parsing!Max
  <2>2. FileAssignments(file) = OfLines(file.lines)
    BY <1>5 DEF FileAssignments, OfLines
  <2>3. OfLines(file.lines) \in Lists
    <3> DEFINE parts == [i \in DOMAIN file.lines |-> LineAssignments(file.lines[i])]
    <3>1. \A i \in DOMAIN file.lines : LineAssignments(file.lines[i]) \in Lists
      BY <1>2, LineIs
    <3>2. parts \in Seq(Lists)
      BY <1>2, <3>1
    <3>3. OfLines(file.lines) = FlattenSeq(parts)
      BY DEF OfLines
    <3> HIDE DEF parts
    <3> QED BY <3>2, <3>3, FlattenKeeps DEF Lists
  <2>4. Resolved(FromFile!Fold(entries, acc.pairs), list \o OfLines(file.lines))
    BY <1>2, LinesResolve
  <2> HIDE DEF acc
  <2> QED BY <1>1, <2>1, <2>2, <2>3, <2>4
<1> QED BY <1>2, <1>4, <1>5

-----------------------------------------------------------------------------
(* The first layer.                                                        *)

\* SetToSeq of a finite set has each of its elements once.
LEMMA ListHasAll ==
  ASSUME NEW S, IsFiniteSet(S)
  PROVE  LET s == SetToSeq(S) IN
         /\ s \in Seq(S)
         /\ \A i, j \in DOMAIN s : s[i] = s[j] => i = j
         /\ \A x \in S : \E i \in DOMAIN s : s[i] = x
<1> DEFINE n == Cardinality(S)
           s == SetToSeq(S)
<1>1. n \in Nat /\ ExistsBijection(1 .. n, S)
  BY FS_CardinalityType
<1>2. \E f \in [1 .. n -> S] : IsInjective(f)
  BY <1>1 DEF ExistsBijection, Bijection, Injection, IsInjective
<1>3. s \in [1 .. n -> S] /\ IsInjective(s)
  BY <1>2 DEF SetToSeq
<1>4. s \in Injection(1 .. n, S)
  BY <1>3 DEF Injection
<1>5. IsFiniteSet(1 .. n) /\ Cardinality(1 .. n) = n
  <2>1. 1 \in Int /\ n \in Int
    BY <1>1
  <2>2. IsFiniteSet(1 .. n) /\ Cardinality(1 .. n) = IF 1 > n THEN 0 ELSE n - 1 + 1
    BY <2>1, FS_Interval
  <2> QED BY <1>1, <2>2
<1>6. s \in Surjection(1 .. n, S)
  <2> HIDE DEF s
  <2> QED BY <1>4, <1>5, FS_Injection
<1> HIDE DEF s, n
<1>7. s \in Seq(S) /\ DOMAIN s = 1 .. n
  BY <1>1, <1>3
<1> QED BY <1>3, <1>6, <1>7 DEF IsInjective, Surjection, s

\* Distinct variables with texts of their own are resolved as they are, in any
\* order.
LEMMA DistinctResolved ==
  ASSUME NEW list \in Lists,
         \A i \in DOMAIN list : list[i].raw = <<>>,
         \A i, j \in DOMAIN list : list[i].key = list[j].key => i = j,
         NEW V, NEW entries \in Seq([key : Names, value : V, source : AllSources]),
         \A i, j \in DOMAIN entries : entries[i].key = entries[j].key => i = j,
         \A i \in DOMAIN entries : \E j \in DOMAIN list :
           entries[i] = Entry(list[j].key, list[j].fixed, list[j].source),
         \A j \in DOMAIN list : \E i \in DOMAIN entries : entries[i].key = list[j].key
  PROVE  Resolved(entries, list)
<1> DEFINE n == Len(list) + 1
           f == ValueAt(list)
<1>1. n \in Nat /\ DOMAIN list = 1 .. n - 1 /\ n \in 1 .. Len(list) + 1 /\ Len(list) = n - 1
  BY DEF Lists
<1>2. \A i \in 1 .. n - 1 : f[i] = list[i].fixed
  <2>1. \A i \in 1 .. Len(list) : f[i] = SetBy(list, i, f)
    BY ValueIs
  <2> HIDE DEF f
  <2> QED BY <1>1, <2>1 DEF SetBy
<1> HIDE DEF f
<1>3. ASSUME NEW i \in DOMAIN entries
      PROVE  LET b == Before(list, entries[i].key, n) IN
             /\ b \in 1 .. n - 1 /\ list[b].key = entries[i].key
             /\ entries[i].source = list[b].source /\ entries[i].value = f[b]
  <2> DEFINE b == Before(list, entries[i].key, n)
  <2>1. PICK j \in DOMAIN list : entries[i] = Entry(list[j].key, list[j].fixed, list[j].source)
    OBVIOUS
  <2>2. entries[i].key = list[j].key /\ entries[i].value = list[j].fixed
        /\ entries[i].source = list[j].source
    BY <2>1 DEF Entry
  <2>3. /\ b \in 0 .. n - 1
        /\ b # 0 => list[b].key = entries[i].key
        /\ \A k \in 1 .. n - 1 : list[k].key = entries[i].key => k <= b
    <3> DEFINE x == entries[i].key
    <3> HIDE DEF x, n
    <3>1. /\ Before(list, x, n) \in 0 .. n - 1
          /\ Before(list, x, n) # 0 => list[Before(list, x, n)].key = x
          /\ \A k \in 1 .. n - 1 : list[k].key = x => k <= Before(list, x, n)
      BY ONLY list \in Lists, <1>1, BeforeIs
    <3> QED BY ONLY <3>1 DEF b, x
  <2> HIDE DEF b, n
  <2>4. j \in 1 .. n - 1 /\ j <= b
    <3>1. j \in 1 .. n - 1
      BY <1>1
    <3> QED BY <2>2, <2>3, <3>1
  <2>5. b \in 1 .. n - 1
    BY ONLY <1>1, <2>3, <2>4
  <2>6. list[b].key = list[j].key
    BY <2>2, <2>3, <2>5
  <2>7. b = j
    BY <1>1, <2>4, <2>5, <2>6
  <2> QED BY <1>2, <2>2, <2>5, <2>7 DEF b
<1>4. {entries[i].key : i \in DOMAIN entries} = KeysBefore(list, n)
  <2> HIDE DEF n
  <2>1. \A i \in DOMAIN entries : \E j \in 1 .. n - 1 : entries[i].key = list[j].key
    BY <1>3
  <2>2. \A j \in 1 .. n - 1 : \E i \in DOMAIN entries : entries[i].key = list[j].key
    BY <1>1
  <2> QED BY <2>1, <2>2 DEF KeysBefore
<1>5. Resolves(entries, list)
  BY <1>3, <1>4 DEF Resolves, f
<1> QED BY <1>5 DEF Resolved

\* The entries of a clean session at the start, for the variables S.
FirstValue(k) == IF k = "PATH" THEN MinimalPath ELSE Inherited(k)
Started(es, S) ==
  /\ es \in Seq([key : Names, value : Values, source : AllSources])
  /\ {es[i].key : i \in DOMAIN es} = S
  /\ \A i, j \in DOMAIN es : es[i].key = es[j].key => i = j
  /\ \A i \in DOMAIN es : es[i] = Entry(es[i].key, FirstValue(es[i].key), "DaemonInherited")

\* One more variable that is not there yet.
LEMMA StartedGrows ==
  ASSUME NEW es, NEW S, Started(es, S), NEW k \in Passed \cup {"PATH"}, k \notin S
  PROVE  Started(Append(es, Entry(k, FirstValue(k), "DaemonInherited")), S \cup {k})
<1> DEFINE e == Entry(k, FirstValue(k), "DaemonInherited")
           E == [key : Names, value : Values, source : AllSources]
           n == Len(es)
           q == Append(es, e)
<1>1. FirstValue(k) \in Values
  <2>1. CASE k = "PATH"
    BY <2>1, MinimalIsClean DEF FirstValue
  <2>2. CASE k # "PATH"
    <3>1. k \in Passed /\ k \in Names
      BY <2>2 DEF Names
    <3>2. <<"daemon", k>> \in Pieces
      BY <3>1 DEF Pieces, Origins
    <3> QED BY <2>2, <3>2 DEF FirstValue, Inherited, Values
  <2> QED BY <2>1, <2>2
<1>2. e \in E /\ e.key = k
  <2>1. k \in Names
    BY DEF Names
  <2> QED BY <1>1, <2>1 DEF Entry, AllSources
<1>3. e = Entry(e.key, FirstValue(e.key), "DaemonInherited")
  BY <1>2
<1> HIDE DEF e, E
<1>4. es \in Seq(E)
  BY DEF Started, E
<1>5. /\ q \in Seq(E) /\ n \in Nat /\ DOMAIN es = 1 .. n /\ DOMAIN q = 1 .. n + 1
      /\ q[n + 1] = e /\ \A i \in 1 .. n : q[i] = es[i]
  BY <1>2, <1>4
<1>6. \A i : i \in 1 .. n + 1 <=> i \in 1 .. n \/ i = n + 1
  BY <1>5
<1>7. \A i \in 1 .. n : es[i].key # k
  BY <1>5 DEF Started
<1> HIDE DEF q, n
<1>8. {q[i].key : i \in DOMAIN q} = S \cup {k}
  <2>1. S = {es[i].key : i \in 1 .. n}
    BY <1>5 DEF Started
  <2>2. {q[i].key : i \in 1 .. n + 1} = {es[i].key : i \in 1 .. n} \cup {k}
    BY <1>2, <1>5, <1>6
  <2> QED BY <1>5, <2>1, <2>2
<1>9. \A i, j \in DOMAIN q : q[i].key = q[j].key => i = j
  <2>1. \A i, j \in 1 .. n : es[i].key = es[j].key => i = j
    BY <1>5 DEF Started
  <2> QED BY <1>2, <1>5, <1>6, <1>7, <2>1
<1>10. \A i \in DOMAIN q : q[i] = Entry(q[i].key, FirstValue(q[i].key), "DaemonInherited")
  <2>1. \A i \in 1 .. n : es[i] = Entry(es[i].key, FirstValue(es[i].key), "DaemonInherited")
    BY <1>5 DEF Started
  <2> QED BY <1>3, <1>5, <1>6, <2>1
<1> QED BY <1>5, <1>8, <1>9, <1>10 DEF Started, E, q, e

\* A variable of the daemon's, if it is set.
LEMMA StartedIfSet ==
  ASSUME NEW es, NEW S, Started(es, S), NEW k \in Passed, k \notin S
  PROVE  Started(es \o IfSet(k), S \cup ({k} \cap config.daemon))
<1>1. es \in Seq([key : Names, value : Values, source : AllSources])
  BY DEF Started
<1> DEFINE e == Entry(k, FirstValue(k), "DaemonInherited")
<1>2. FirstValue(k) = Inherited(k)
  BY DEF FirstValue, Passed
<1>3. IfSet(k) = IF k \in config.daemon THEN <<e>> ELSE <<>>
  BY <1>2 DEF IfSet
<1>4. Started(Append(es, e), S \cup {k})
  BY StartedGrows
<1> HIDE DEF e
<1>5. Append(es, e) = es \o <<e>> /\ es \o <<>> = es
  BY <1>1
<1>6. CASE k \in config.daemon
  <2>1. S \cup ({k} \cap config.daemon) = S \cup {k}
    BY <1>6
  <2>2. es \o IfSet(k) = Append(es, e)
    BY <1>3, <1>5, <1>6
  <2> QED BY <1>4, <2>1, <2>2
<1>7. CASE k \notin config.daemon
  <2>1. S \cup ({k} \cap config.daemon) = S
    BY <1>7
  <2>2. es \o IfSet(k) = es
    BY <1>3, <1>5, <1>7
  <2> QED BY <2>1, <2>2
<1> QED BY <1>6, <1>7

\* A clean session starts with its own PATH, and the three variables that are set.
LEMMA CleanStarts == Started(CleanBase.entries, {"PATH"} \cup (Passed \cap config.daemon))
<1> DEFINE e == Entry("PATH", MinimalPath, "DaemonInherited")
           S0 == {} \cup {"PATH"}
           S1 == S0 \cup ({"HOME"} \cap config.daemon)
           S2 == S1 \cup ({"USER"} \cap config.daemon)
           S3 == S2 \cup ({"TMPDIR"} \cap config.daemon)
<1>1. Started(<<>>, {})
  BY DEF Started
<1>2. Started(<<e>>, S0)
  <2>1. "PATH" \in Passed \cup {"PATH"} /\ "PATH" \notin {} /\ FirstValue("PATH") = MinimalPath
    BY DEF FirstValue
  <2>2. Started(Append(<<>>, Entry("PATH", FirstValue("PATH"), "DaemonInherited")), S0)
    BY <1>1, <2>1, StartedGrows
  <2>3. Append(<<>>, e) = <<e>>
    OBVIOUS
  <2> QED BY <2>1, <2>2, <2>3
<1>3. "HOME" \in Passed /\ "USER" \in Passed /\ "TMPDIR" \in Passed
  BY DEF Passed
<1>4. "HOME" \notin S0 /\ "USER" \notin S1 /\ "TMPDIR" \notin S2
  OBVIOUS
<1> HIDE DEF S0, e
<1>5. Started(<<e>> \o IfSet("HOME"), S1)
  BY <1>2, <1>3, <1>4, StartedIfSet
<1> HIDE DEF S1
<1>6. Started((<<e>> \o IfSet("HOME")) \o IfSet("USER"), S2)
  BY <1>3, <1>4, <1>5, StartedIfSet
<1> HIDE DEF S2
<1>7. Started(((<<e>> \o IfSet("HOME")) \o IfSet("USER")) \o IfSet("TMPDIR"), S3)
  BY <1>3, <1>4, <1>6, StartedIfSet
<1>8. S3 = {"PATH"} \cup (Passed \cap config.daemon)
  BY DEF S0, S1, S2, Passed
<1>9. CleanBase.entries = ((<<e>> \o IfSet("HOME")) \o IfSet("USER")) \o IfSet("TMPDIR")
  BY DEF CleanBase, NoEnv, e
<1> QED BY <1>7, <1>8, <1>9

\* The keys and texts of assignments to the elements of a set.
LEMMA AssignedIs ==
  ASSUME NEW ks \in SUBSET Names, IsFiniteSet(ks), NEW origin \in TextOrigins,
         NEW source \in AllSources
  PROVE  LET list == Assigned(ks, origin, source) IN
         /\ SetToSeq(ks) \in Seq(Names)
         /\ list = Plains(SetToSeq(ks), origin, source) /\ list \in Lists
         /\ \A i, j \in DOMAIN list : list[i].key = list[j].key => i = j
         /\ \A i \in DOMAIN list : list[i].key \in ks /\ list[i] = Plain(list[i].key, origin, source)
         /\ \A k \in ks : \E i \in DOMAIN list : list[i].key = k
<1> DEFINE s == SetToSeq(ks)
           list == Assigned(ks, origin, source)
           x(i) == Plain(s[i], origin, source)
<1>1. /\ s \in Seq(ks)
      /\ \A i, j \in DOMAIN s : s[i] = s[j] => i = j
      /\ \A k \in ks : \E i \in DOMAIN s : s[i] = k
  BY ListHasAll
<1>2. list = [i \in DOMAIN s |-> x(i)] /\ list = Plains(s, origin, source)
  BY DEF Assigned, Plains
<1> HIDE DEF list, s
<1>3. s \in Seq(Names) /\ Len(s) \in Nat /\ DOMAIN s = 1 .. Len(s)
  BY <1>1
<1>4. \A i \in DOMAIN s : s[i] \in ks /\ s[i] \in Names
  BY <1>1, <1>3
<1>5. \A i \in DOMAIN s : x(i) \in Assignment /\ x(i).key = s[i]
  BY <1>4, PlainIs
<1>6. \A i \in DOMAIN s : x(i) = Plain(x(i).key, origin, source)
  BY <1>5
<1> HIDE DEF x
<1>7. list \in Lists
  BY <1>2, <1>3, <1>5 DEF Lists
<1>8. DOMAIN list = DOMAIN s /\ \A i \in DOMAIN s : list[i] = x(i)
  BY <1>2
<1>9. \A i, j \in DOMAIN list : list[i].key = list[j].key => i = j
  BY <1>1, <1>5, <1>8
<1>10. \A i \in DOMAIN list : list[i].key \in ks /\ list[i] = Plain(list[i].key, origin, source)
  BY <1>4, <1>5, <1>6, <1>8
<1>11. \A k \in ks : \E i \in DOMAIN list : list[i].key = k
  BY <1>1, <1>5, <1>8
<1>12. list = Plains(s, origin, source)
  BY <1>2
<1> QED BY <1>3, <1>7, <1>9, <1>10, <1>11, <1>12 DEF list, s

\* What a session starts with resolves the assignments of its first layer.
LEMMA CleanBaseResolves ==
  ASSUME config \in Configs, config.mode = "Clean"
  PROVE  Resolved(CleanBase.entries, BaseAssignments)
<1> DEFINE S == Passed \cap config.daemon
           p == [Plain("PATH", "text", "DaemonInherited") EXCEPT !.fixed = MinimalPath]
           rest == Assigned(S, "daemon", "DaemonInherited")
           list == <<p>> \o rest
           es == CleanBase.entries
           n == Len(rest)
<1>1. S \in SUBSET Names /\ IsFiniteSet(S)
  <2>1. IsFiniteSet(config.daemon)
    BY ConfigsAssumption
  <2>2. IsFiniteSet(S)
    BY <2>1, FS_Subset
  <2> QED BY <2>2 DEF Names
<1>2. BaseAssignments = list
  BY DEF BaseAssignments, Passed
<1>3. "daemon" \in TextOrigins /\ "DaemonInherited" \in AllSources
  BY DEF TextOrigins, AllSources
<1> HIDE DEF S
<1>4. /\ rest \in Lists
      /\ \A i, j \in DOMAIN rest : rest[i].key = rest[j].key => i = j
      /\ \A i \in DOMAIN rest :
           rest[i].key \in S /\ rest[i] = Plain(rest[i].key, "daemon", "DaemonInherited")
      /\ \A k \in S : \E i \in DOMAIN rest : rest[i].key = k
  BY <1>1, <1>3, AssignedIs
<1>5. p \in Assignment /\ p.key = "PATH" /\ p.fixed = MinimalPath /\ p.raw = <<>>
      /\ p.source = "DaemonInherited"
  <2> DEFINE piece == <<"text", "minimal path">>
  <2>1. piece \in Origins \X Names
    BY DEF Origins, Names
  <2>2. MinimalPath = <<piece>>
    BY DEF MinimalPath
  <2> HIDE DEF piece
  <2>3. MinimalPath \in Seq(Origins \X Names)
    BY <2>1, <2>2
  <2>4. p = [key |-> "PATH", source |-> "DaemonInherited", fixed |-> MinimalPath, raw |-> <<>>]
    BY DEF Plain
  <2>5. "PATH" \in Names /\ "DaemonInherited" \in AllSources
    BY DEF Names, AllSources
  <2> HIDE DEF p
  <2> QED BY <2>3, <2>4, <2>5 DEF Assignment
<1>6. "PATH" \notin S
  BY DEF S, Passed
<1>7. Started(es, {"PATH"} \cup S)
  BY CleanStarts DEF S
<1> HIDE DEF p, rest, es
<1>8. /\ list \in Lists /\ n \in Nat /\ DOMAIN rest = 1 .. n /\ DOMAIN list = 1 .. n + 1
      /\ list[1] = p /\ \A i \in 1 .. n : list[i + 1] = rest[i]
  BY <1>4, <1>5 DEF Lists
<1> HIDE DEF list, n
<1>9. \A i \in 1 .. n + 1 : i = 1 \/ \E j \in 1 .. n : i = j + 1
  <2>1. ASSUME NEW i \in 1 .. n + 1, i # 1 PROVE i - 1 \in 1 .. n /\ i = (i - 1) + 1
    BY <1>8, <2>1
  <2> QED BY <2>1
<1>10. ASSUME NEW j \in 1 .. n
       PROVE  rest[j].raw = <<>> /\ rest[j].key \in S
              /\ rest[j].fixed = Inherited(rest[j].key)
              /\ rest[j].source = "DaemonInherited"
  <2> DEFINE k == rest[j].key
  <2>1. k \in S /\ rest[j] = Plain(k, "daemon", "DaemonInherited")
    BY <1>4, <1>8
  <2> HIDE DEF k
  <2>2. rest[j].raw = <<>> /\ rest[j].fixed = Inherited(k) /\ rest[j].source = "DaemonInherited"
    BY ONLY <2>1 DEF Plain, Inherited
  <2> QED BY <2>1, <2>2 DEF k
<1>11. \A i \in DOMAIN list : list[i].raw = <<>>
  <2> SUFFICES ASSUME NEW i \in 1 .. n + 1 PROVE list[i].raw = <<>>
    BY <1>8
  <2>1. CASE i = 1
    BY <1>5, <1>8, <2>1
  <2>2. ASSUME NEW j \in 1 .. n, i = j + 1 PROVE list[i].raw = <<>>
    BY <1>8, <1>10, <2>2
  <2> QED BY <1>9, <2>1, <2>2
<1>18. \A j \in 1 .. n : list[j + 1].key = rest[j].key /\ list[j + 1].key # "PATH"
  BY <1>6, <1>8, <1>10
<1>12. \A i, j \in DOMAIN list : list[i].key = list[j].key => i = j
  <2> SUFFICES ASSUME NEW i \in 1 .. n + 1, NEW j \in 1 .. n + 1, list[i].key = list[j].key
               PROVE  i = j
    BY <1>8
  <2>0. list[1].key = "PATH"
    BY <1>5, <1>8
  <2>1. CASE i = 1
    BY <1>9, <1>18, <2>0, <2>1
  <2>2. CASE j = 1
    BY <1>9, <1>18, <2>0, <2>2
  <2>3. CASE i # 1 /\ j # 1
    <3>1. PICK i0 \in 1 .. n : i = i0 + 1
      BY <1>9, <2>3
    <3>2. PICK j0 \in 1 .. n : j = j0 + 1
      BY <1>9, <2>3
    <3>3. rest[i0].key = rest[j0].key
      BY <1>18, <3>1, <3>2
    <3>4. i0 = j0
      BY <1>4, <1>8, <3>3
    <3> QED BY <3>1, <3>2, <3>4
  <2> QED BY <2>1, <2>2, <2>3
<1>13. /\ es \in Seq([key : Names, value : Values, source : AllSources])
       /\ {es[i].key : i \in DOMAIN es} = {"PATH"} \cup S
       /\ \A i, j \in DOMAIN es : es[i].key = es[j].key => i = j
       /\ \A i \in DOMAIN es : es[i] = Entry(es[i].key, FirstValue(es[i].key), "DaemonInherited")
  BY <1>7 DEF Started
<1>14. \A j \in 1 .. n : j + 1 \in DOMAIN list
  BY <1>8
<1>15. 1 \in DOMAIN list
  BY <1>8
<1>16. ASSUME NEW i \in DOMAIN es
       PROVE  \E j \in DOMAIN list : es[i] = Entry(list[j].key, list[j].fixed, list[j].source)
  <2>1. es[i].key \in {"PATH"} \cup S
    BY <1>13
  <2>2. CASE es[i].key = "PATH"
    BY <1>5, <1>8, <1>13, <1>15, <2>2 DEF FirstValue
  <2>3. CASE es[i].key # "PATH"
    <3>1. PICK j \in DOMAIN rest : rest[j].key = es[i].key
      BY <1>4, <2>1, <2>3
    <3>2. list[j + 1] = rest[j] /\ j + 1 \in DOMAIN list
      BY <1>8, <1>14, <3>1
    <3>3. FirstValue(es[i].key) = Inherited(es[i].key)
      BY <2>3 DEF FirstValue
    <3>4. rest[j].fixed = Inherited(es[i].key) /\ rest[j].source = "DaemonInherited"
      BY <1>8, <1>10, <3>1
    <3> QED BY <1>13, <3>1, <3>2, <3>3, <3>4
  <2> QED BY <2>2, <2>3
<1>17. ASSUME NEW j \in DOMAIN list PROVE \E i \in DOMAIN es : es[i].key = list[j].key
  <2>1. list[j].key \in {"PATH"} \cup S
    <3>1. CASE j = 1
      BY <1>5, <1>8, <3>1
    <3>2. ASSUME NEW m \in 1 .. n, j = m + 1 PROVE list[j].key \in S
      BY <1>8, <1>10, <3>2
    <3> QED BY <1>8, <1>9, <3>1, <3>2
  <2> QED BY SMTT(30), <1>13, <2>1
<1>19. Resolved(es, list)
  BY ONLY <1>8, <1>11, <1>12, <1>13, <1>16, <1>17, DistinctResolved
<1> QED BY <1>2, <1>19 DEF es

\* So does what a bootstrapped session starts with.
LEMMA BootstrapBaseResolves ==
  ASSUME config \in Configs, config.mode \notin {"Shell", "Clean"}
  PROVE  Resolved(BootstrapBase.entries, BaseAssignments)
<1> DEFINE S == config.daemon
           all == SetToSeq(S)
           list == Assigned(S, "daemon", "BootstrapShell")
           es == BootstrapBase.entries
           V == {Inherited(k) : k \in S}
<1>1. S \in SUBSET Names /\ IsFiniteSet(S)
  BY ConfigsAssumption DEF ConfigType, Names
<1>2. BaseAssignments = list
  BY DEF BaseAssignments
<1>3. "daemon" \in TextOrigins /\ "BootstrapShell" \in AllSources
  BY DEF TextOrigins, AllSources
<1>4. es = [i \in DOMAIN all |-> Entry(all[i], Inherited(all[i]), "BootstrapShell")]
  BY DEF BootstrapBase, NoEnv
<1> HIDE DEF S, es, V
<1>5. /\ all \in Seq(S)
      /\ \A i, j \in DOMAIN all : all[i] = all[j] => i = j
      /\ \A x \in S : \E i \in DOMAIN all : all[i] = x
  BY <1>1, ListHasAll
<1>6. list = [i \in DOMAIN all |-> Plain(all[i], "daemon", "BootstrapShell")]
  BY DEF Assigned
<1>7. list \in Lists
  BY <1>1, <1>3, AssignedIs
<1> HIDE DEF list, all
<1>8. Len(all) \in Nat /\ DOMAIN all = 1 .. Len(all)
  BY <1>5
<1>9. DOMAIN list = DOMAIN all /\ DOMAIN es = DOMAIN all
  BY <1>4, <1>6
<1>10. ASSUME NEW i \in DOMAIN all
       PROVE  /\ list[i].key = all[i] /\ list[i].fixed = Inherited(all[i]) /\ list[i].raw = <<>>
              /\ list[i].source = "BootstrapShell"
              /\ es[i] = Entry(all[i], Inherited(all[i]), "BootstrapShell") /\ es[i].key = all[i]
              /\ es[i] \in [key : Names, value : V, source : AllSources]
  <2>1. all[i] \in S
    BY <1>5
  <2>2. all[i] \in Names /\ Inherited(all[i]) \in V
    BY <1>1, <2>1 DEF V
  <2>3. list[i] = Plain(all[i], "daemon", "BootstrapShell")
    BY <1>6
  <2> QED BY <1>3, <1>4, <2>2, <2>3 DEF Plain, Entry, Inherited
<1>11. es \in Seq([key : Names, value : V, source : AllSources])
  BY <1>4, <1>8, <1>10
<1>12. \A i, j \in DOMAIN list : list[i].key = list[j].key => i = j
  BY <1>5, <1>9, <1>10
<1>13. \A i, j \in DOMAIN es : es[i].key = es[j].key => i = j
  BY <1>5, <1>9, <1>10
<1>14. \A i \in DOMAIN es : \E j \in DOMAIN list :
         es[i] = Entry(list[j].key, list[j].fixed, list[j].source)
  BY <1>9, <1>10
<1>15. \A j \in DOMAIN list : \E i \in DOMAIN es : es[i].key = list[j].key
  BY <1>9, <1>10
<1>16. \A i \in DOMAIN list : list[i].raw = <<>>
  BY <1>9, <1>10
<1> QED BY <1>2, <1>7, <1>11, <1>12, <1>13, <1>14, <1>15, <1>16, DistinctResolved DEF es

\* A shell session starts with nothing, and nothing is assigned to it.
LEMMA NothingResolved == Resolved(<<>>, <<>>)
<1>1. <<>> \in Lists /\ <<>> \in Seq([key : Names, value : {}, source : AllSources])
  BY DEF Lists
<1>2. KeysBefore(<<>>, Len(<<>>) + 1) = {}
  BY DEF KeysBefore
<1>3. Resolves(<<>>, <<>>)
  BY <1>2 DEF Resolves
<1> QED BY <1>1, <1>3 DEF Resolved

-----------------------------------------------------------------------------
(* The files that are found.                                               *)

\* The files that are there, and the one that is read.
Found == {f \in Paths : config[f] # {}}
FileOf(f) == CHOOSE g \in config[f] : TRUE

\* A file that is there is one, and its lines are assignments.
LEMMA FileFound ==
  ASSUME config \in Configs, NEW f \in Found
  PROVE  FileOf(f) \in Files /\ FileAssignments(FileOf(f)) \in Lists
<1>1. config[f] # {} /\ config[f] \in SUBSET Files
  <2>1. config \in ConfigType /\ f \in {"explicit", "envIn", "env"} /\ config[f] # {}
    BY ConfigsAssumption DEF Found, Paths
  <2> QED BY <2>1 DEF ConfigType
<1>2. FileOf(f) \in Files
  BY <1>1 DEF FileOf
<1>3. FileAssignments(FileOf(f)) \in Lists
  BY <1>2, NothingResolved, FileResolves
<1> QED BY <1>2, <1>3

\* One more file.
LEMMA FilesGrow ==
  ASSUME config \in Configs, NEW names \in Seq(Found), NEW f \in Found
  PROVE  /\ FilesAssignments(names) \in Lists
         /\ FilesAssignments(Append(names, f))
              = FilesAssignments(names) \o FileAssignments(FileOf(f))
<1> DEFINE x(g) == FileAssignments(FileOf(g))
           parts == [i \in DOMAIN names |-> x(names[i])]
           longer == [i \in DOMAIN Append(names, f) |-> x(Append(names, f)[i])]
           n == Len(names)
           t == x(f)
           q == Append(parts, t)
<1>1. n \in Nat /\ DOMAIN names = 1 .. n /\ DOMAIN Append(names, f) = 1 .. n + 1
      /\ Append(names, f)[n + 1] = f /\ \A i \in 1 .. n : Append(names, f)[i] = names[i]
  OBVIOUS
<1>2. t \in Lists /\ \A i \in 1 .. n : x(names[i]) \in Lists
  <2>1. \A i \in 1 .. n : names[i] \in Found
    BY <1>1
  <2> QED BY <2>1, FileFound
<1>3. FilesAssignments(names) = FlattenSeq(parts)
      /\ FilesAssignments(Append(names, f)) = FlattenSeq(longer)
  BY DEF FilesAssignments, FileOf
<1> HIDE DEF x
<1>4. parts \in Seq(Lists) /\ Len(parts) = n /\ \A i \in 1 .. n : parts[i] = x(names[i])
  BY <1>1, <1>2
<1>5. longer = [i \in 1 .. n + 1 |-> x(Append(names, f)[i])]
  BY <1>1
<1> HIDE DEF parts, longer, n, t
<1>6. Len(q) = n + 1 /\ q \in Seq(Lists) /\ q[n + 1] = t /\ \A i \in 1 .. n : q[i] = parts[i]
  BY <1>2, <1>4
<1>7. \A i \in 1 .. n + 1 : i = n + 1 \/ i \in 1 .. n
  BY <1>1
<1> HIDE DEF q
<1>8. q = [i \in 1 .. n + 1 |-> q[i]]
  BY ONLY <1>6
<1>9. \A i \in 1 .. n + 1 : q[i] = x(Append(names, f)[i])
  BY <1>1, <1>4, <1>6, <1>7 DEF t
<1>10. longer = q
  BY ONLY <1>5, <1>8, <1>9
<1>11. FlattenSeq(q) = FlattenSeq(parts) \o t /\ FlattenSeq(parts) \in Lists
  <2>1. parts \in Seq(Seq(Assignment)) /\ t \in Seq(Assignment)
    BY <1>2, <1>4 DEF Lists
  <2>2. Parsing!FlattenSeq(q) = Parsing!FlattenSeq(parts) \o t
    BY <2>1, Parsing!FlattenAppend DEF q
  <2>3. FlattenSeq(parts) \in Seq(Assignment)
    BY <2>1, FlattenKeeps
  <2> QED BY <2>2, <2>3 DEF Lists, FlattenSeq, Parsing!FlattenSeq
<1> QED BY <1>3, <1>10, <1>11 DEF t, x

\* No files assign nothing.
LEMMA FilesNone == FilesAssignments(<<>>) = <<>>
BY Parsing!FlattenEmpty DEF FilesAssignments, FlattenSeq, Parsing!FlattenSeq

-----------------------------------------------------------------------------
(* The layers.                                                             *)

\* The assignments up to the files read, and up to the provider's.
ThroughFiles(names) == BaseAssignments \o ImportAssignments \o FilesAssignments(names)
ThroughProvider ==
  ThroughFiles(EnvFilePaths) \o Assigned(config.provider, "ProviderConfig", "ProviderConfig")

\* After every layer, the entries resolve the assignments up to that layer.
ResolvedInv ==
  config.by = "resolver" =>
    /\ stage \in {"base", "service", "files", "session", "launch", "done"}
    /\ stage = "service" =>
         /\ config.mode = "BootstrapFromShell" /\ paths = EnvFilePaths
         /\ Resolved(env.entries, BaseAssignments)
    /\ stage = "files" =>
         /\ BaseAssignments \o ImportAssignments \in Lists
         /\ \E read \in Seq(Found) :
              EnvFilePaths = read \o paths /\ Resolved(env.entries, ThroughFiles(read))
    /\ stage = "session" => Resolved(env.entries, ThroughProvider)
    /\ stage \in {"launch", "done"} => Resolved(env.entries, Assignments)

\* The import of the service manager's variables.
LEMMA ImportResolves ==
  ASSUME config \in Configs, config.mode = "BootstrapFromShell",
         NEW entries, NEW list, Resolved(entries, list)
  PROVE  Resolved(
           IF config.import
           THEN FoldLeft(LAMBDA es, k : UpsertEntry(es, k, Inherited(k), "ServiceManager"),
                         entries, SetToSeq(config.allowlist \cap config.daemon))
           ELSE entries,
           list \o ImportAssignments)
<1> DEFINE S == config.allowlist \cap config.daemon
           s == SetToSeq(S)
<1>1. S \in SUBSET Names /\ IsFiniteSet(S)
  <2>1. config.allowlist \in SUBSET Keys /\ IsFiniteSet(config.allowlist)
    BY ConfigsAssumption DEF ConfigType
  <2>2. IsFiniteSet(S)
    BY <2>1, FS_Subset
  <2> QED BY <2>1, <2>2 DEF Names
<1>2. list \in Lists
  BY DEF Resolved
<1>3. CASE ~config.import
  <2>1. ImportAssignments = <<>>
    BY <1>3 DEF ImportAssignments
  <2>2. list \o <<>> = list
    BY <1>2 DEF Lists
  <2>3. Resolved(entries, list \o ImportAssignments)
    BY <2>1, <2>2
  <2> QED BY <1>3, <2>3
<1>4. CASE config.import
  <2>1. ImportAssignments = Assigned(S, "daemon", "ServiceManager")
    BY <1>4 DEF ImportAssignments
  <2>3. FoldLeft(LAMBDA es, k : UpsertEntry(es, k, Inherited(k), "ServiceManager"), entries, s)
          = FromManager!Fold(entries, s)
    BY DEF FoldLeft, MapThenFoldSet, Max, FromManager!Fold, FromManager!FoldLeft,
              FromManager!MapThenFoldSet, FromManager!Max
  <2>4. "daemon" \in TextOrigins /\ "ServiceManager" \in AllSources
    BY DEF TextOrigins, AllSources
  <2>7. SUFFICES Resolved(FromManager!Fold(entries, s), list \o ImportAssignments)
    BY <1>4, <2>3
  <2> HIDE DEF S
  <2>5. s \in Seq(Names)
        /\ Assigned(S, "daemon", "ServiceManager") = Plains(s, "daemon", "ServiceManager")
    BY <1>1, <2>4, AssignedIs
  <2> HIDE DEF s
  <2>6. Resolved(FromManager!Fold(entries, s), list \o Plains(s, "daemon", "ServiceManager"))
    BY <2>5, ManagerResolves
  <2> QED BY <2>1, <2>5, <2>6
<1> QED BY <1>3, <1>4

\* The overrides of a provider or a session.
LEMMA OverridesResolve ==
  ASSUME NEW entries, NEW list, Resolved(entries, list), NEW ks \in SUBSET Keys, IsFiniteSet(ks),
         NEW source \in {"ProviderConfig", "SessionOverride"}
  PROVE  Resolved(ApplyOverrides(entries, ks, source), list \o Assigned(ks, source, source))
<1> DEFINE s == SetToSeq(ks)
<1>1. source \in TextOrigins /\ source \in AllSources /\ ks \in SUBSET Names
  BY DEF TextOrigins, AllSources, Names
<1>2. s \in Seq(Names) /\ Assigned(ks, source, source) = Plains(s, source, source)
  BY <1>1, AssignedIs
<1>3. CASE source = "ProviderConfig"
  <2>1. ApplyOverrides(entries, ks, "ProviderConfig") = FromProvider!Fold(entries, s)
    BY DEF ApplyOverrides, FoldLeft, MapThenFoldSet, Max,
           FromProvider!Fold, FromProvider!FoldLeft, FromProvider!MapThenFoldSet,
           FromProvider!Max
  <2> HIDE DEF s
  <2>2. Resolved(FromProvider!Fold(entries, s),
                 list \o Plains(s, "ProviderConfig", "ProviderConfig"))
    BY <1>2, ProviderResolves
  <2> QED BY <1>2, <1>3, <2>1, <2>2
<1>4. CASE source = "SessionOverride"
  <2>1. ApplyOverrides(entries, ks, "SessionOverride") = FromSession!Fold(entries, s)
    BY DEF ApplyOverrides, FoldLeft, MapThenFoldSet, Max,
           FromSession!Fold, FromSession!FoldLeft, FromSession!MapThenFoldSet,
           FromSession!Max
  <2> HIDE DEF s
  <2>2. Resolved(FromSession!Fold(entries, s),
                 list \o Plains(s, "SessionOverride", "SessionOverride"))
    BY <1>2, SessionResolves
  <2> QED BY <1>2, <1>4, <2>1, <2>2
<1> QED BY <1>3, <1>4

\* The assignments of a configuration stay what they are.
LEMMA SameAssignments ==
  ASSUME config' = config
  PROVE  /\ BaseAssignments' = BaseAssignments /\ ImportAssignments' = ImportAssignments
         /\ EnvFilePaths' = EnvFilePaths /\ Found' = Found
         /\ \A names : ThroughFiles(names)' = ThroughFiles(names)
         /\ ThroughProvider' = ThroughProvider /\ Assignments' = Assignments
<1>1. BaseAssignments' = BaseAssignments /\ ImportAssignments' = ImportAssignments
      /\ EnvFilePaths' = EnvFilePaths /\ Found' = Found
  BY DEF BaseAssignments, ImportAssignments, EnvFilePaths, Found
<1>2. \A names : FilesAssignments(names)' = FilesAssignments(names)
  BY DEF FilesAssignments
<1>3. \A names : ThroughFiles(names)' = ThroughFiles(names)
  BY <1>1, <1>2 DEF ThroughFiles
<1>4. ThroughProvider' = ThroughProvider
  BY <1>1, <1>3 DEF ThroughProvider
<1>5. Assignments = ThroughProvider
                    \o Assigned(config.overrides, "SessionOverride", "SessionOverride")
  BY DEF Assignments, ThroughProvider, ThroughFiles
<1>6. Assignments' = Assignments
  BY <1>1, <1>2 DEF Assignments
<1> QED BY <1>1, <1>3, <1>4, <1>6

\* Before the first layer nothing is claimed.
LEMMA ResolvedInit == Init => ResolvedInv
BY DEF Init, ResolvedInv

\* Every layer adds its assignments.
LEMMA ResolvedStep == CleanInv /\ ResolvedInv /\ [Next]_vars => ResolvedInv'
<1> SUFFICES ASSUME CleanInv, ResolvedInv, [Next]_vars PROVE ResolvedInv'
  OBVIOUS
<1>1. config \in Configs /\ DOMAIN env = EnvFields /\ config' = config
  BY DEF CleanInv, Next, vars, Base, ImportServiceManager, LoadEnvFile, ApplyProvider,
         ApplySession, HttpEnvironment, Launch
<1>2. CASE config.by # "resolver"
  BY <1>1, <1>2 DEF ResolvedInv
<1> SUFFICES ASSUME config.by = "resolver" PROVE ResolvedInv'
  BY <1>2
<1>3. config \in ConfigType /\ config.provider \in SUBSET Keys /\ IsFiniteSet(config.provider)
      /\ config.overrides \in SUBSET Keys /\ IsFiniteSet(config.overrides)
  <2>1. config \in ConfigType
    BY <1>1, ConfigsAssumption
  <2> QED BY <1>1, <2>1, ConfigsAssumption DEF ConfigType
<1>4. EnvFilePaths \in Seq(Found)
  BY <1>1, PathsExist DEF Found
<1>5. /\ BaseAssignments' = BaseAssignments /\ ImportAssignments' = ImportAssignments
      /\ EnvFilePaths' = EnvFilePaths /\ Found' = Found
      /\ \A names : ThroughFiles(names)' = ThroughFiles(names)
      /\ ThroughProvider' = ThroughProvider /\ Assignments' = Assignments
  BY <1>1, SameAssignments
<1>6. CASE Base
  <2>1. /\ stage = "base" /\ paths' = EnvFilePaths
        /\ stage' = IF config.mode = "BootstrapFromShell" THEN "service" ELSE "files"
        /\ env' = CASE config.mode = "Shell" -> ShellBase
                    [] config.mode = "Clean" -> CleanBase
                    [] OTHER                 -> BootstrapBase
    BY <1>6 DEF Base
  <2>2. config.mode \in {"Shell", "Clean", "BootstrapFromShell"}
    BY <1>3 DEF ConfigType
  <2>3. Resolved(env'.entries, BaseAssignments)
    <3>1. CASE config.mode = "Shell"
      <4>1. env'.entries = <<>>
        BY <2>1, <3>1 DEF ShellBase, NoEnv
      <4>2. BaseAssignments = <<>>
        BY <3>1 DEF BaseAssignments
      <4> QED BY <4>1, <4>2, NothingResolved
    <3>2. CASE config.mode = "Clean"
      <4>1. env' = CleanBase
        BY <2>1, <3>2
      <4> QED BY <1>1, <3>2, <4>1, CleanBaseResolves
    <3>3. CASE config.mode = "BootstrapFromShell"
      <4>1. env' = BootstrapBase
        BY <2>1, <3>3
      <4> QED BY <1>1, <3>3, <4>1, BootstrapBaseResolves
    <3> QED BY <2>2, <3>1, <3>2, <3>3
  <2>4. CASE config.mode = "BootstrapFromShell"
    <3>1. stage' = "service"
      BY <2>1, <2>4
    <3> QED BY <1>1, <1>5, <2>1, <2>3, <2>4, <3>1 DEF ResolvedInv
  <2>5. CASE config.mode # "BootstrapFromShell"
    <3>1. stage' = "files"
      BY <2>1, <2>5
    <3>2. ImportAssignments = <<>>
      BY <2>2, <2>5 DEF ImportAssignments
    <3>3. ThroughFiles(<<>>) = BaseAssignments /\ BaseAssignments \o ImportAssignments \in Lists
      <4>1. BaseAssignments \in Lists
        BY <2>3 DEF Resolved
      <4>2. BaseAssignments \o <<>> \o <<>> = BaseAssignments
            /\ BaseAssignments \o <<>> = BaseAssignments
        BY <4>1 DEF Lists
      <4> QED BY <3>2, <4>1, <4>2, FilesNone DEF ThroughFiles
    <3>4. <<>> \in Seq(Found) /\ EnvFilePaths = <<>> \o paths'
      BY <1>4, <2>1
    <3>5. \E read \in Seq(Found) :
            EnvFilePaths = read \o paths' /\ Resolved(env'.entries, ThroughFiles(read))
      BY <2>3, <3>3, <3>4
    <3> QED BY <1>1, <1>5, <3>1, <3>3, <3>5 DEF ResolvedInv
  <2> QED BY <2>4, <2>5
<1>7. CASE ImportServiceManager
  <2>1. /\ stage = "service" /\ stage' = "files" /\ paths' = paths
        /\ config.mode = "BootstrapFromShell" /\ paths = EnvFilePaths
        /\ Resolved(env.entries, BaseAssignments)
    BY <1>7 DEF ImportServiceManager, ResolvedInv
  <2>2. Resolved(env'.entries, BaseAssignments \o ImportAssignments)
    <3>1. Resolved(
            IF config.import
            THEN FoldLeft(LAMBDA es, k : UpsertEntry(es, k, Inherited(k), "ServiceManager"),
                          env.entries, SetToSeq(config.allowlist \cap config.daemon))
            ELSE env.entries,
            BaseAssignments \o ImportAssignments)
      BY <1>1, <2>1, ImportResolves
    <3>2. env' = [env EXCEPT !.entries =
             IF config.import
             THEN FoldLeft(LAMBDA es, k : UpsertEntry(es, k, Inherited(k), "ServiceManager"), @,
                           SetToSeq(config.allowlist \cap config.daemon))
             ELSE @]
      BY <1>7 DEF ImportServiceManager
    <3>3. env'.entries =
            IF config.import
            THEN FoldLeft(LAMBDA es, k : UpsertEntry(es, k, Inherited(k), "ServiceManager"),
                          env.entries, SetToSeq(config.allowlist \cap config.daemon))
            ELSE env.entries
      BY <1>1, <3>2 DEF EnvFields
    <3> QED BY <3>1, <3>3
  <2>3. ThroughFiles(<<>>) = BaseAssignments \o ImportAssignments
    <3>1. BaseAssignments \o ImportAssignments \in Lists
      BY <2>2 DEF Resolved
    <3>2. BaseAssignments \o ImportAssignments \o <<>> = BaseAssignments \o ImportAssignments
      BY <3>1 DEF Lists
    <3> QED BY <3>2, FilesNone DEF ThroughFiles
  <2>4. <<>> \in Seq(Found) /\ EnvFilePaths = <<>> \o paths'
    BY <1>4, <2>1
  <2>5. \E read \in Seq(Found) :
          EnvFilePaths = read \o paths' /\ Resolved(env'.entries, ThroughFiles(read))
    BY <2>2, <2>3, <2>4
  <2>6. BaseAssignments \o ImportAssignments \in Lists
    BY <2>2 DEF Resolved
  <2> QED BY <1>1, <1>5, <2>1, <2>5, <2>6 DEF ResolvedInv
<1>8. CASE LoadEnvFile
  <2> DEFINE f == Head(paths)
             file == FileOf(f)
             pairs == IF file.readable
                      THEN ParseEnvFile(file.lines, EntriesToMap(env.entries)) ELSE <<>>
  <2>1. stage = "files" /\ stage' = stage /\ paths' = Tail(paths) /\ paths # <<>>
    BY <1>8 DEF LoadEnvFile
  <2>2. PICK read \in Seq(Found) :
          EnvFilePaths = read \o paths /\ Resolved(env.entries, ThroughFiles(read))
    BY <2>1 DEF ResolvedInv
  <2>3. paths \in Seq(Found)
    BY DEF CleanInv, Found
  <2>4. f \in Found /\ paths' \in Seq(Found) /\ paths = <<f>> \o paths'
    BY <2>1, <2>3
  <2>5. file \in Files /\ FileAssignments(file) \in Lists
    BY <1>1, <2>4, FileFound
  <2>6. env'.entries = FoldLeft(LAMBDA es, p : UpsertEntry(es, p.key, p.value, "EnvFile"),
                                env.entries, pairs)
    BY <1>1, <1>8 DEF LoadEnvFile, FileOf, EnvFields
  <2>7. Resolved(env'.entries, ThroughFiles(read) \o FileAssignments(file))
    <3>1. Resolved(FoldLeft(LAMBDA es, p : UpsertEntry(es, p.key, p.value, "EnvFile"),
                            env.entries, pairs),
                   ThroughFiles(read) \o FileAssignments(file))
      BY ONLY <2>2, <2>5, FileResolves
    <3> QED BY <2>6, <3>1
  <2> HIDE DEF f, file, pairs
  <2>8. ThroughFiles(Append(read, f)) = ThroughFiles(read) \o FileAssignments(file)
    <3> DEFINE base == BaseAssignments \o ImportAssignments
               old == FilesAssignments(read)
               new == FileAssignments(file)
    <3>1. FilesAssignments(Append(read, f)) = old \o new /\ old \in Lists
      BY <1>1, <2>2, <2>4, FilesGrow DEF file
    <3>2. base \in Lists
      BY <2>1 DEF ResolvedInv
    <3> HIDE DEF base, old, new
    <3>3. base \o (old \o new) = (base \o old) \o new
      BY <2>5, <3>1, <3>2 DEF Lists, new
    <3> QED BY <3>1, <3>3 DEF ThroughFiles, base, old, new
  <2>9. Append(read, f) \in Seq(Found) /\ EnvFilePaths = Append(read, f) \o paths'
    <3> DEFINE rest == paths'
               F == Found
    <3>1. read \in Seq(F) /\ f \in F /\ rest \in Seq(F) /\ paths = <<f>> \o rest
      BY <2>2, <2>4
    <3> HIDE DEF rest, F
    <3>2. Append(read, f) \in Seq(F) /\ Append(read, f) = read \o <<f>>
      BY ONLY <3>1
    <3>3. <<f>> \in Seq(F)
      BY ONLY <3>1
    <3>4. (read \o <<f>>) \o rest = read \o (<<f>> \o rest)
      BY ONLY <3>1, <3>3, ConcatAssociative
    <3> QED BY <2>2, <3>1, <3>2, <3>4 DEF rest, F
  <2>10. \E r \in Seq(Found) :
           EnvFilePaths = r \o paths' /\ Resolved(env'.entries, ThroughFiles(r))
    BY <2>7, <2>8, <2>9
  <2>11. BaseAssignments \o ImportAssignments \in Lists
    BY <2>1 DEF ResolvedInv
  <2> QED BY <1>1, <1>5, <2>1, <2>10, <2>11 DEF ResolvedInv
<1>9. CASE ApplyProvider
  <2>1. stage = "files" /\ stage' = "session" /\ paths = <<>>
    BY <1>9 DEF ApplyProvider
  <2>2. PICK read \in Seq(Found) :
          EnvFilePaths = read \o paths /\ Resolved(env.entries, ThroughFiles(read))
    BY <2>1 DEF ResolvedInv
  <2>3. EnvFilePaths = read
    BY <2>1, <2>2
  <2>4. env'.entries = ApplyOverrides(env.entries, config.provider, "ProviderConfig")
    BY <1>1, <1>9 DEF ApplyProvider, EnvFields
  <2>5. Resolved(env'.entries, ThroughProvider)
    BY <1>3, <2>2, <2>3, <2>4, OverridesResolve DEF ThroughProvider
  <2> QED BY <1>1, <1>5, <2>1, <2>5 DEF ResolvedInv
<1>10. CASE ApplySession
  <2>1. stage = "session" /\ stage' = "launch" /\ Resolved(env.entries, ThroughProvider)
    BY <1>10 DEF ApplySession, ResolvedInv
  <2>2. env'.entries = ApplyOverrides(env.entries, config.overrides, "SessionOverride")
    BY <1>1, <1>10 DEF ApplySession, EnvFields
  <2>3. Assignments = ThroughProvider
                      \o Assigned(config.overrides, "SessionOverride", "SessionOverride")
    BY DEF Assignments, ThroughProvider, ThroughFiles
  <2>4. Resolved(env'.entries, Assignments)
    BY <1>3, <2>1, <2>2, <2>3, OverridesResolve
  <2> QED BY <1>1, <1>5, <2>1, <2>4 DEF ResolvedInv
<1>11. CASE HttpEnvironment
  BY <1>11 DEF HttpEnvironment, ResolvedInv
<1>12. CASE Launch
  <2>1. stage = "launch" /\ stage' = "done" /\ env' = env /\ Resolved(env.entries, Assignments)
    BY <1>12 DEF Launch, ResolvedInv
  <2> QED BY <1>1, <1>5, <2>1 DEF ResolvedInv
<1>13. CASE UNCHANGED vars
  <2>1. stage' = stage /\ paths' = paths /\ env' = env
    BY <1>13 DEF vars
  <2> QED BY <1>1, <1>5, <2>1 DEF ResolvedInv
<1> QED BY <1>6, <1>7, <1>8, <1>9, <1>10, <1>11, <1>12, <1>13 DEF Next

\* After every layer, the entries resolve the assignments up to that layer.
THEOREM LayersResolve == Spec => []ResolvedInv
<1>1. CleanInv /\ ResolvedInv /\ [Next]_vars => ResolvedInv'
  BY ResolvedStep
<1> QED BY <1>1, ResolvedInit, CleanInvariant, PTL DEF Spec

\* Whatever the sources set and refer to, the environment has each variable
\* once, as the last source in the order of precedence that has it says.
THEOREM LastLayerStands == Spec => []LastLayerWins
<1>1. ResolvedInv => LastLayerWins
  BY DEF ResolvedInv, LastLayerWins, Resolved
<1> QED BY <1>1, LayersResolve, PTL
=============================================================================
