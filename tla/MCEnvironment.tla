--------------------------- MODULE MCEnvironment ---------------------------
(* Two files whose lines overlap with every other source and refer to each   *)
(* other, and every combination of modes, sources and handles.               *)
EXTENDS Environment

MCKeys == {"PATH", "HOME", "USER", "TMPDIR", "SHELL", "USERPROFILE", "A", "B"}
Lit(s) == [t |-> "lit", v |-> s]
Ref(k) == [t |-> "ref", v |-> k]
Mark(t) == [t |-> t, v |-> ""]
Pair(k, raw) == [pair |-> TRUE, key |-> k, raw |-> raw]
Skipped == [pair |-> FALSE, key |-> "A", raw |-> <<>>]

\* PATH=$PATH:x   A='$B'   B=${A}$HOME   B=$B$SHELL
First == [readable |-> TRUE, lines |->
  <<Pair("PATH", <<Ref("PATH"), Lit(":x")>>), Skipped,
    Pair("A", <<Mark("sq"), Ref("B"), Mark("sq")>>),
    Pair("B", <<Ref("A"), Ref("HOME")>>), Pair("B", <<Ref("B"), Ref("SHELL")>>)>>]
\* A="$B y"   HOME=$A # z   B='$A' # z   USER=
Second == [readable |-> TRUE, lines |->
  <<Pair("A", <<Mark("dq"), Ref("B"), Mark("sp"), Lit("y"), Mark("dq")>>),
    Pair("HOME", <<Ref("A"), Mark("sp"), Mark("hash"), Mark("sp"), Lit("z")>>),
    Pair("B", <<Mark("sq"), Ref("A"), Mark("sq"), Mark("sp"), Mark("hash"), Lit("z")>>),
    Pair("USER", <<>>)>>]
Missing == [readable |-> FALSE, lines |-> <<>>]

Resolved ==
  [mode : {"Shell", "Clean", "BootstrapFromShell"},
   overrides : {{}, {"A"}, {"PATH", "B"}}, provider : {{}, {"A", "HOME"}},
   explicit : {{}, {Second}, {Missing}}, envIn : {{}, {First}}, env : {{}, {Second}, {Missing}},
   daemon : {{"PATH"}, {"PATH", "HOME", "A"}, {"HOME", "USER", "TMPDIR", "SHELL", "B"}},
   import : BOOLEAN, allowlist : {{"A", "SHELL"}}, hostShell : {{}, {"sh"}},
   by : {"resolver"}, client : {{}}, handle : {"posix", "conpty"}]
Posted ==
  [mode : {"Shell"}, overrides : {{}}, provider : {{}}, explicit : {{}}, envIn : {{}}, env : {{}},
   daemon : {{"PATH"}, {"HOME", "USERPROFILE", "A"}}, import : {FALSE}, allowlist : {{}},
   hostShell : {{}}, by : {"http"}, client : {{}, {"A"}, {"HOME"}}, handle : {"conpty"}]
MCConfigs == Resolved \cup Posted
=============================================================================
