---------------------------- MODULE Environment ----------------------------
(***************************************************************************)
(* From configuration to the environment of a session's process:           *)
(* resolve_environment of session/env_resolver.rs lays one source of       *)
(* variables over the other, session/env_file_parser.rs reads .env files   *)
(* and expands what they refer to, and the handles launch the program.     *)
(* One step per layer. Nothing runs concurrently; the order decides.       *)
(*                                                                         *)
(* A value is a sequence of pieces <<origin, name>> that say where its text *)
(* comes from. The right side of a line in a file is a sequence of tokens  *)
(* [t, v]: text "lit", a reference "ref" to the variable v, quotes "sq" and *)
(* "dq", a blank "sp", and "hash". Lines with a comment are ASCII.         *)
(***************************************************************************)
EXTENDS Integers, Sequences, SequencesExt, FiniteSetsExt

CONSTANTS
  Keys,      \* names of variables
  Configs    \* what a session may be launched with, see ConfigType

Tokens == [t : {"lit", "ref", "sq", "dq", "sp", "hash"}, v : STRING]
Files == [readable : BOOLEAN, lines : Seq([pair : BOOLEAN, key : Keys, raw : Seq(Tokens)])]
ConfigType ==
  [mode : {"Shell", "Clean", "BootstrapFromShell"},
   overrides : SUBSET Keys, provider : SUBSET Keys,       \* session's and provider's
   explicit : SUBSET Files, envIn : SUBSET Files, env : SUBSET Files,
   daemon : SUBSET Keys,                                  \* its own environment
   import : BOOLEAN, allowlist : SUBSET Keys, hostShell : SUBSET STRING,
   by : {"resolver", "http"}, client : SUBSET Keys, handle : {"posix", "conpty"}]
\* A client is served by the Windows handle only.
ASSUME ConfigsAssumption ==
  /\ Configs \subseteq ConfigType
  /\ \A c \in Configs : c.by = "http" => c.handle = "conpty"
  /\ \A c \in Configs :
       \A ks \in {c.overrides, c.provider, c.daemon, c.allowlist} : IsFiniteSet(ks)

VARIABLES
  config,    \* the configuration, the host's, the daemon's and the client's
  stage,     \* the layer that comes next
  paths,     \* .env files that are still to be read
  env,       \* EffectiveEnvironment: entries, overrides, env_file_path, shell
  child      \* what the process is launched with

vars == <<config, stage, paths, env, child>>

\* An Option is a set of at most one element.
MinimalPath == <<<<"text", "minimal path">>>>
DefaultShell == <<<<"text", "default shell">>>>
Inherited(k) == <<<<"daemon", k>>>>   \* std::env::var(k)

DaemonEnv == [k \in config.daemon |-> Inherited(k)]

-----------------------------------------------------------------------------
(* env_file_parser.rs                                                      *)

Quote(i, raw, q) == i \in DOMAIN raw /\ raw[i].t = q

\* Is position i inside quotes? A quote inside the other kind is text.
QuotedAt(raw, i) ==
  FoldLeft(LAMBDA open, x : IF x.t \in {"sq", "dq"} /\ open \in {"no", x.t}
                            THEN (IF open = "no" THEN x.t ELSE "no") ELSE open,
           "no", SubSeq(raw, 1, i - 1)) # "no"

\* A comment starts at a # outside of quotes after a blank.
StripInlineComment(raw) ==
  LET marks == {i \in DOMAIN raw : raw[i].t = "hash" /\ ~QuotedAt(raw, i)
                                   /\ Quote(i - 1, raw, "sp")} IN
  IF marks = {} THEN raw ELSE SubSeq(raw, 1, Min(marks) - 1)

TrimEnd(raw) ==
  SubSeq(raw, 1, Max({0} \cup {i \in DOMAIN raw : raw[i].t # "sp"}))

\* Text as it stands, and with references replaced: by nothing where the
\* variable is unknown.
Piece(x) == IF x.t = "lit" THEN <<"text", x.v>> ELSE <<x.t, x.v>>
Literally(raw) == [i \in DOMAIN raw |-> Piece(raw[i])]
\* (mutant) a variable the layers do not know is looked up in the daemon
ExpandVarsInherit(raw, vals) ==
  FlattenSeq([i \in DOMAIN raw |->
    IF raw[i].t # "ref" THEN <<Piece(raw[i])>>
    ELSE IF raw[i].v \in DOMAIN vals THEN vals[raw[i].v]
    ELSE IF raw[i].v \in config.daemon THEN Inherited(raw[i].v) ELSE <<>>])
ExpandVars(raw, vals) ==
  FlattenSeq([i \in DOMAIN raw |->
    IF raw[i].t # "ref" THEN <<Piece(raw[i])>>
    ELSE IF raw[i].v \in DOMAIN vals THEN vals[raw[i].v] ELSE <<>>])

\* (mutant) references are expanded between single quotes, too
UnquoteExpanding(raw, vals) ==
  LET n == Len(raw)
      quoted(q) == n >= 2 /\ Quote(1, raw, q) /\ Quote(n, raw, q) IN
  ExpandVars(IF quoted("sq") \/ quoted("dq") THEN SubSeq(raw, 2, n - 1)
             ELSE TrimEnd(StripInlineComment(raw)), vals)
\* A value is quoted if its first and last token are the same quote. With a
\* comment after it, it is not: quotes are kept and references expanded.
UnquoteValue(raw, vals) ==
  LET n == Len(raw)
      quoted(q) == n >= 2 /\ Quote(1, raw, q) /\ Quote(n, raw, q) IN
  CASE quoted("sq") -> Literally(SubSeq(raw, 2, n - 1))
    [] quoted("dq") -> ExpandVars(SubSeq(raw, 2, n - 1), vals)
    [] OTHER        -> ExpandVars(TrimEnd(StripInlineComment(raw)), vals)

\* The pairs of a file, each expanded with what the layers and lines before it
\* set. A line without "=" or with a bad key is skipped: it is no pair.
LineParsed(acc, l) ==
  IF ~l.pair THEN acc
  ELSE LET v == UnquoteValue(l.raw, acc.vals) IN
       [pairs |-> Append(acc.pairs, [key |-> l.key, value |-> v]),
        vals  |-> [k \in DOMAIN acc.vals \cup {l.key} |->
                     IF k = l.key THEN v ELSE acc.vals[k]]]
ParseEnvFile(lines, vals) ==
  FoldLeft(LineParsed, [pairs |-> <<>>, vals |-> vals], lines).pairs

-----------------------------------------------------------------------------
(* env_resolver.rs                                                         *)

Entry(k, v, source) == [key |-> k, value |-> v, source |-> source]
\* (mutant) an entry that is there already stays
UpsertMissing(entries, k, v, source) ==
  IF \E i \in DOMAIN entries : entries[i].key = k THEN entries
  ELSE Append(entries, Entry(k, v, source))
UpsertEntry(entries, k, v, source) ==
  LET at == {i \in DOMAIN entries : entries[i].key = k} IN
  IF at = {} THEN Append(entries, Entry(k, v, source))
  ELSE [entries EXCEPT ![Min(at)] = Entry(k, v, source)]

\* Overrides are a map from keys to text of their own.
ApplyOverrides(entries, overrides, source) ==
  FoldLeft(LAMBDA es, k : UpsertEntry(es, k, <<<<source, k>>>>, source), entries,
           SetToSeq(overrides))

EntriesToMap(entries) ==
  LET keys == {entries[i].key : i \in DOMAIN entries} IN
  [k \in keys |-> entries[Max({i \in DOMAIN entries : entries[i].key = k})].value]

\* resolve_env_file_paths: the file of the configuration alone, or those of
\* .env.in and .env that exist.
EnvFilePaths ==
  IF config.explicit # {} THEN <<"explicit">>
  ELSE (IF config.envIn # {} THEN <<"envIn">> ELSE <<>>)
       \o (IF config.env # {} THEN <<"env">> ELSE <<>>)

BootstrapShell(configured) ==
  IF configured # {} THEN <<<<"host", "shell">>>>
  ELSE IF "SHELL" \in config.daemon THEN Inherited("SHELL") ELSE DefaultShell

NoEnv == [entries |-> <<>>, overrides |-> {}, mode |-> "Shell", file |-> {}, shell |-> {}]
NoChild == [vals |-> << >>, lookup |-> {}]

Init ==
  /\ config \in Configs
  /\ stage = IF config.by = "http" THEN "http" ELSE "base"
  /\ paths = <<>> /\ env = NoEnv /\ child = NoChild

\* The first layer. A shell session starts from nothing, and ignores the shell
\* the host is configured with; a clean one has a few variables of the daemon's,
\* a bootstrapped one all of them.
ShellBase == [NoEnv EXCEPT !.mode = "Shell", !.shell = {BootstrapShell({})}]
IfSet(k) ==
  IF k \in config.daemon THEN <<Entry(k, Inherited(k), "DaemonInherited")>> ELSE <<>>
CleanBase ==
  [NoEnv EXCEPT !.mode = "Clean",
                !.entries = <<Entry("PATH", MinimalPath, "DaemonInherited")>>
                              \o IfSet("HOME") \o IfSet("USER") \o IfSet("TMPDIR")]
BootstrapBase ==
  LET all == SetToSeq(config.daemon) IN
  [NoEnv EXCEPT !.mode = "BootstrapFromShell",
                !.shell = {BootstrapShell(config.hostShell)},
                !.entries = [i \in DOMAIN all |->
                               Entry(all[i], Inherited(all[i]), "BootstrapShell")]]
Base ==
  /\ stage = "base"
  /\ env' = CASE config.mode = "Shell" -> ShellBase
              [] config.mode = "Clean" -> CleanBase
              [] OTHER                 -> BootstrapBase
  /\ stage' = IF config.mode = "BootstrapFromShell" THEN "service" ELSE "files"
  /\ paths' = EnvFilePaths
  /\ UNCHANGED <<config, child>>

\* Variables of the service manager: allowed ones that the daemon has.
ImportServiceManager ==
  /\ stage = "service"
  /\ env' = [env EXCEPT !.entries =
       IF config.import
       THEN FoldLeft(LAMBDA es, k : UpsertEntry(es, k, Inherited(k), "ServiceManager"), @,
                     SetToSeq(config.allowlist \cap config.daemon))
       ELSE @]
  /\ stage' = "files"
  /\ UNCHANGED <<config, paths, child>>

\* The next file; one that cannot be read counts as read.
LoadEnvFile ==
  /\ stage = "files" /\ paths # <<>>
  /\ LET file == CHOOSE f \in config[Head(paths)] : TRUE
         pairs == IF file.readable
                  THEN ParseEnvFile(file.lines, EntriesToMap(env.entries)) ELSE <<>> IN
     env' = [env EXCEPT
       !.entries = FoldLeft(LAMBDA es, p : UpsertEntry(es, p.key, p.value, "EnvFile"), @, pairs),
       !.file = {Head(paths)}]
  /\ paths' = Tail(paths)
  /\ UNCHANGED <<config, stage, child>>

ApplyProvider ==
  /\ stage = "files" /\ paths = <<>>
  /\ env' = [env EXCEPT !.entries = ApplyOverrides(@, config.provider, "ProviderConfig")]
  /\ stage' = "session"
  /\ UNCHANGED <<config, paths, child>>

ApplySession ==
  /\ stage = "session"
  /\ env' = [env EXCEPT !.entries = ApplyOverrides(@, config.overrides, "SessionOverride")]
  /\ stage' = "launch"
  /\ UNCHANGED <<config, paths, child>>

\* POST /sessions resolves nothing: the client's variables become overrides.
HttpEnvironment ==
  /\ stage = "http"
  /\ env' = [env EXCEPT !.overrides = config.client]
  /\ stage' = "launch"
  /\ UNCHANGED <<config, paths, child>>

-----------------------------------------------------------------------------
(* Launch                                                                  *)

\* posix_pty.rs: a shell session inherits the daemon's environment and nothing
\* of what was resolved; the others get the entries, and their program is
\* looked up in their own PATH.
PosixLaunch ==
  LET vals == EntriesToMap(env.entries) IN
  IF env.mode = "Shell"
  THEN [vals |-> DaemonEnv, lookup |-> {DaemonEnv[k] : k \in {"PATH"} \cap config.daemon}]
  ELSE [vals |-> vals, lookup |-> {IF "PATH" \in DOMAIN vals THEN vals["PATH"] ELSE MinimalPath}]

\* conpty.rs: the daemon's environment with HOME corrected, and overrides on
\* top; entries are not looked at.
ConPtyLaunch ==
  LET home == IF "USERPROFILE" \in config.daemon THEN "HOME" :> Inherited("USERPROFILE")
              ELSE << >>
      over == [k \in env.overrides |-> <<<<"client", k>>>>] IN
  [vals |-> over @@ home @@ DaemonEnv,
   lookup |-> {DaemonEnv[k] : k \in {"PATH"} \cap config.daemon}]

Launch ==
  /\ stage = "launch"
  /\ child' = IF config.handle = "posix" THEN PosixLaunch ELSE ConPtyLaunch
  /\ stage' = "done"
  /\ UNCHANGED <<config, paths, env>>

Next == Base \/ ImportServiceManager \/ LoadEnvFile \/ ApplyProvider \/ ApplySession
          \/ HttpEnvironment \/ Launch

Spec == Init /\ [][Next]_vars

-----------------------------------------------------------------------------
(* Properties                                                              *)

\* All assignments of a configuration as one list, in the order in which the
\* documentation ranks their sources. A value is fixed, or the right side of a
\* line in a file.
Plain(k, origin, source) ==
  [key |-> k, source |-> source, fixed |-> <<<<origin, k>>>>, raw |-> <<>>]
Assigned(ks, origin, source) ==
  LET s == SetToSeq(ks) IN [i \in DOMAIN s |-> Plain(s[i], origin, source)]
BaseAssignments ==
  CASE config.mode = "Shell" -> <<>>
    [] config.mode = "Clean" ->
         <<[Plain("PATH", "text", "DaemonInherited") EXCEPT !.fixed = MinimalPath]>>
         \o Assigned({"HOME", "USER", "TMPDIR"} \cap config.daemon, "daemon", "DaemonInherited")
    [] OTHER -> Assigned(config.daemon, "daemon", "BootstrapShell")
ImportAssignments ==
  IF config.mode \notin {"Shell", "Clean"} /\ config.import
  THEN Assigned(config.allowlist \cap config.daemon, "daemon", "ServiceManager") ELSE <<>>
LineAssignments(l) ==
  IF l.pair THEN <<[key |-> l.key, source |-> "EnvFile", fixed |-> <<>>, raw |-> l.raw]>>
  ELSE <<>>
FileAssignments(file) ==
  IF file.readable THEN FlattenSeq([i \in DOMAIN file.lines |-> LineAssignments(file.lines[i])])
  ELSE <<>>
FilesAssignments(names) ==
  FlattenSeq([i \in DOMAIN names |-> FileAssignments(CHOOSE f \in config[names[i]] : TRUE)])
Assignments ==
  BaseAssignments \o ImportAssignments \o FilesAssignments(EnvFilePaths)
  \o Assigned(config.provider, "ProviderConfig", "ProviderConfig")
  \o Assigned(config.overrides, "SessionOverride", "SessionOverride")

\* The last assignment to k before the n-th, or 0.
Before(list, k, n) == Max({0} \cup {i \in 1 .. n - 1 : list[i].key = k})
KeysBefore(list, n) == {list[i].key : i \in 1 .. n - 1}
\* What the head of env_file_parser.rs says of a value (lines 4 to 7): a comment
\* is no part of it, single quotes keep the text between them as it is, double
\* quotes and no quotes expand what it refers to.
InQuotes(value, q) == Len(value) >= 2 /\ Quote(1, value, q) /\ Quote(Len(value), value, q)
Documented(raw, vals) ==
  LET value == TrimEnd(StripInlineComment(raw))
      inner == SubSeq(value, 2, Len(value) - 1) IN
  CASE InQuotes(value, "sq") -> Literally(inner)
    [] InQuotes(value, "dq") -> ExpandVars(inner, vals)
    [] OTHER                 -> ExpandVars(value, vals)
\* The code does that but for a quoted value with a comment after it (see
\* QuotedAsDocumented): there what it says is what the code makes of it.
CommentAfterQuote(raw) ==
  (Quote(1, raw, "sq") \/ Quote(1, raw, "dq")) /\ TrimEnd(StripInlineComment(raw)) # raw
Meaning(raw, vals) ==
  IF CommentAfterQuote(raw) THEN UnquoteValue(raw, vals) ELSE Documented(raw, vals)

\* What the variables are before the n-th assignment, and what that sets, if
\* each reference is looked up where it stands.
ValsBefore(list, n, value) == [k \in KeysBefore(list, n) |-> value[Before(list, k, n)]]
SetBy(list, n, value) ==
  IF list[n].raw = <<>> THEN list[n].fixed
  ELSE Meaning(list[n].raw, ValsBefore(list, n, value))
ValueAt(list) ==
  LET value[n \in 0 .. Len(list)] == IF n = 0 THEN <<>> ELSE SetBy(list, n, value) IN value

\* The entries are the list's variables, each once, with source and value of the
\* last assignment to it.
Resolves(entries, list) ==
  LET value == ValueAt(list)
      n == Len(list) + 1 IN
  /\ {entries[i].key : i \in DOMAIN entries} = KeysBefore(list, n)
  /\ \A i, j \in DOMAIN entries : entries[i].key = entries[j].key => i = j
  /\ \A i \in DOMAIN entries :
       LET a == Before(list, entries[i].key, n) IN
       entries[i].source = list[a].source /\ entries[i].value = value[a]

\* However the sources overlap and refer to each other, every variable is set
\* once, by the last source in the order of precedence that has it, to what
\* that assignment is documented to say in terms of the ones before it
\* (env_resolver.rs, and env_file_parser.rs but for a comment after a quote).
LastLayerWins ==
  stage \in {"launch", "done"} /\ config.by = "resolver" => Resolves(env.entries, Assignments)

\* Claimed at the head of env_file_parser.rs, which lists comments, single-quoted
\* values without expansion and double-quoted ones: the variables a line of a
\* file was the last to set have the value that is documented, a comment after
\* a quoted value or not.
QuotedAsDocumented ==
  stage \in {"launch", "done"} /\ config.by = "resolver" =>
    LET list == Assignments
        value == ValueAt(list) IN
    \A i \in DOMAIN env.entries :
      LET a == Before(list, env.entries[i].key, Len(list) + 1) IN
      list[a].source = "EnvFile" /\ list[a].raw # <<>> =>
        env.entries[i].value = Documented(list[a].raw, ValsBefore(list, a, value))

\* In clean mode nothing of the daemon's environment reaches a process on
\* POSIX but HOME, USER and TMPDIR: not by itself, not through a reference in
\* a file, and not by way of the PATH its program is looked up in
\* (EnvMode::Clean of env.rs, and posix_pty.rs).
CleanIsClosed ==
  stage = "done" /\ env.mode = "Clean" /\ config.handle = "posix" =>
    \A v \in {child.vals[k] : k \in DOMAIN child.vals} \cup child.lookup :
      \A i \in DOMAIN v :
        v[i][1] = "daemon" => v[i][2] \in {"HOME", "USER", "TMPDIR"}
=============================================================================
