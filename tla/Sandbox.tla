------------------------------- MODULE Sandbox --------------------------------
(***************************************************************************)
(* Demo mode: calls of the built-in tools, judged by the reference policy, *)
(* converted by _execute_demo_tool (mcp/stdio_server.py) and carried out   *)
(* by the sandbox executor (executor/sandbox.py) on the file system.       *)
(*                                                                         *)
(* A resolved path is the sequence of its names from the root of the file  *)
(* system.  Resolve is Path.resolve() of a client's path against the       *)
(* sandbox: it follows the links that exist and takes "." and ".." out.    *)
(* A file is the sequence of the texts written to it.                      *)
(***************************************************************************)
EXTENDS ReferencePolicy, Naturals, Sequences

CONSTANTS
  Root,              \* sandbox_dir, resolved
  Paths,             \* paths a client may give
  Absolute,          \* those that are absolute
  Resolve,           \* what each path resolves to
  Links,             \* the links on the host, and what each resolves to
  Here, NonePath,    \* the paths "." and "None"
  Texts,             \* contents a client may give
  TooLong,           \* those above the limit of a write
  NoneText,          \* the text "None"
  Missing,           \* an argument that is not there, or null
  Commands,          \* command names a client may give
  Installed,         \* those the gateway finds on its host
  ExtraCommands,     \* sandbox.command_paths
  InitDirs, InitFiles,   \* the file system as the gateway finds it
  MaxChunks          \* bound: how long a file may grow in the model

Names == UNION {{s[i] : i \in DOMAIN s} : s \in {Root} \cup {Resolve[q] : q \in Paths}
           \cup DOMAIN Links \cup {Links[l] : l \in DOMAIN Links}}

Inside(p) == Len(p) >= Len(Root) /\ SubSeq(p, 1, Len(Root)) = Root

(* The directories above a path, without the root of the file system.      *)
Ancestors(p) == {SubSeq(p, 1, k) : k \in 1..(Len(p) - 1)}

(* A path is an entry of a directory.                                      *)
EntryOf(c, d) == Len(c) = Len(d) + 1 /\ SubSeq(c, 1, Len(d)) = d

ASSUME SandboxConstants ==
  /\ Root \in Seq(Names)
  /\ Resolve \in [Paths -> Seq(Names)]
  /\ \A l \in DOMAIN Links : l \in Seq(Names) \ InitDirs /\ Links[l] \in Seq(Names)
  /\ \A q \in Paths : (Ancestors(Resolve[q]) \cup {Resolve[q]}) \cap DOMAIN Links = {}
  /\ Absolute \subseteq Paths
  /\ {Here, NonePath} \subseteq Paths /\ Missing \notin Paths
  /\ TooLong \subseteq Texts /\ NoneText \in Texts /\ Missing \notin Texts
  /\ InitDirs \subseteq Seq(Names)
  /\ Ancestors(Root) \cup {Root} \subseteq InitDirs
  /\ \A p \in DOMAIN InitFiles : p \in Seq(Names) \ InitDirs /\ InitFiles[p] \in Seq(Texts)
  /\ MaxChunks \in Nat

VARIABLES
  dirs,       \* the directories
  files,      \* the files and what was written to them
  started,    \* the commands that were ever started
  last        \* the last call: its tool, arguments and outcome

vars == <<dirs, files, started, last>>

Tools == {"fs.list", "fs.read", "fs.write", "shell.exec", "unknown"}
Modes == {"overwrite", "append", "other"}
Outcomes == {"ok", "rejected", "failed", "blocked"}

(* What a call was given, what it came to, and of which files and          *)
(* directories its answer told the type and the size.                      *)
Told(tool, path, mode, outcome, approved) ==
  [tool |-> tool, path |-> path, mode |-> mode, outcome |-> outcome,
   approved |-> approved, shown |-> {}]

TypeOK ==
  /\ dirs \subseteq Seq(Names)
  /\ DOMAIN files \cap dirs = {}
  /\ \A p \in DOMAIN files : files[p] \in Seq(Texts) /\ p \in Seq(Names)
  /\ started \subseteq Commands
  /\ last \in [tool : Tools, path : Seq(Names), mode : Modes, outcome : Outcomes,
               approved : BOOLEAN, shown : SUBSET Seq(Names)]

Init ==
  /\ dirs = InitDirs
  /\ files = InitFiles
  /\ started = {}
  /\ last = Told("unknown", <<>>, "other", "blocked", FALSE)
------------------------------------------------------------------------------
(* str(args.get(...)): a missing argument becomes the text "None".         *)
PathArg(path) == IF path = Missing THEN NonePath ELSE path

(* A mutant of TextArg: no str(). *)
TextArgVerbatim(text) == text

TextArg(text) == IF text = Missing THEN NoneText ELSE text
ModeArg(mode) == IF mode = Missing THEN "overwrite" ELSE mode
ListArg(path) == IF path = Missing THEN Here ELSE path

(* A mutant of SafeJoin: only the path as it is written is looked at.      *)
SafeJoinUnresolved(rel) == rel \notin Absolute

SafeJoin(rel) == rel \notin Absolute /\ Inside(Resolve[rel])

(* Whether policy lets a call go on, with an approval or without.          *)
Passes(tool, cmd, approved) ==
  LET verdict == ReferenceVerdict(tool, cmd)
  IN  verdict = "allow" \/ (verdict = "require_approval" /\ approved)

(* fs_list asks of every entry its type and, of a file, its size; is_dir,  *)
(* is_file and stat follow a link, wherever it leads.                      *)
Follow(c) == IF c \in DOMAIN Links THEN Links[c] ELSE c

Shown(d) ==
  {Follow(c) : c \in {e \in dirs \cup DOMAIN files \cup DOMAIN Links : EntryOf(e, d)}}

(* fs.list looks at a directory and its entries, fs.read gives a file's    *)
(* contents; neither changes anything.  The host may refuse either.        *)
Inspect(tool, path) ==
  LET rel == IF tool = "fs.list" THEN ListArg(path) ELSE PathArg(path)
      p == Resolve[rel]
      found == IF tool = "fs.list" THEN p \in dirs ELSE p \in DOMAIN files
      told(outcome, shown) ==
        [tool |-> tool, path |-> p, mode |-> "other", outcome |-> outcome,
         approved |-> FALSE, shown |-> shown]
  IN  /\ Passes(tool, NoArgv, FALSE)
      /\ IF SafeJoin(rel) /\ found
         THEN \/ last' = told("ok", IF tool = "fs.list" THEN Shown(p) ELSE {})
              \/ last' = told("failed", {})
         ELSE last' = told("rejected", {})
      /\ UNCHANGED <<dirs, files, started>>
------------------------------------------------------------------------------
(* What a file holds after a write that succeeds.                          *)
Before(p) == IF p \in DOMAIN files THEN files[p] ELSE <<>>

Written(p, text, mode) ==
  IF mode = "append" THEN Append(Before(p), text) ELSE <<text>>

(* The file as a full disk may leave it: an overwrite empties it first.    *)
CutShort(p, mode) == IF mode = "append" THEN Before(p) ELSE <<>>

SetFile(p, s) == files' = [q \in DOMAIN files \cup {p} |-> IF q = p THEN s ELSE files[q]]

ComesTo(told, outcome) == last' = [told EXCEPT !.outcome = outcome]

(* A mutant of WriteChecked: the file is opened before the mode is looked  *)
(* at.                                                                     *)
OpenThenCheckMode(text, told) ==
  LET p == told.path
  IN  \/ p \in dirs' /\ ComesTo(told, "failed") /\ UNCHANGED files
      \/ /\ p \notin dirs'
         /\ IF told.mode = "other" THEN SetFile(p, <<>>) /\ ComesTo(told, "rejected")
            ELSE SetFile(p, Written(p, text, told.mode)) /\ ComesTo(told, "ok")

(* With the directories made, the mode is looked at and the file written.  *)
WriteChecked(text, told) ==
  LET p == told.path
  IN  \/ told.mode = "other" /\ ComesTo(told, "rejected") /\ UNCHANGED files
      \/ told.mode # "other" /\ p \in dirs' /\ ComesTo(told, "failed") /\ UNCHANGED files
      \/ /\ told.mode # "other" /\ p \notin dirs'
         /\ \/ SetFile(p, Written(p, text, told.mode)) /\ ComesTo(told, "ok")
            \/ SetFile(p, CutShort(p, told.mode)) /\ ComesTo(told, "failed")

(* fs.write.  The parent directories are made before the mode is looked    *)
(* at; making them fails when one of them is a file.                       *)
Write(path, text, mode, approved) ==
  LET rel == PathArg(path)
      body == TextArg(text)
      m == ModeArg(mode)
      p == Resolve[rel]
      told == Told("fs.write", p, m, "blocked", approved)
  IN  /\ Passes("fs.write", NoArgv, approved)
      /\ m = "append" => Len(Before(p)) < MaxChunks
      /\ \/ /\ body \in TooLong \/ ~SafeJoin(rel)
            /\ ComesTo(told, "rejected")
            /\ UNCHANGED <<dirs, files>>
         \/ /\ body \notin TooLong /\ SafeJoin(rel)
            /\ Ancestors(p) \cap DOMAIN files # {}
            /\ ComesTo(told, "failed")
            /\ UNCHANGED <<dirs, files>>
         \/ /\ body \notin TooLong /\ SafeJoin(rel)
            /\ Ancestors(p) \cap DOMAIN files = {}
            /\ dirs' = dirs \cup Ancestors(p)
            /\ WriteChecked(body, told)
      /\ UNCHANGED started
------------------------------------------------------------------------------
(* The commands main.py resolves, and those the configuration adds.        *)
CommandPaths == ((ShellAllow \cup ShellRequireApproval) \cap Installed) \cup ExtraCommands

(* shell.exec of a command whose other arguments are plain or are not:     *)
(* absolute, "~", "..", NUL or no strings.  A command that was started may *)
(* end or be killed by the timeout; starting it may fail, too.  What a     *)
(* command does once it runs is its own: the operator chose the list.      *)
ShellExec(cmd, plain, approved) ==
  LET told == Told("shell.exec", <<>>, "other", "blocked", approved)
  IN  /\ Passes("shell.exec", cmd, approved)
      /\ \/ /\ ~plain \/ cmd \notin CommandPaths
            /\ ComesTo(told, "rejected") /\ UNCHANGED started
         \/ /\ plain /\ cmd \in CommandPaths
            /\ \/ started' = started \cup {cmd} /\ (ComesTo(told, "ok") \/ ComesTo(told, "failed"))
               \/ UNCHANGED started /\ ComesTo(told, "failed")
      /\ UNCHANGED <<dirs, files>>

(* A call that policy denies, or nobody approves in time. *)
Block(tool, cmd) ==
  /\ ~Passes(tool, cmd, FALSE)
  /\ last' = Told(tool, <<>>, "other", "blocked", FALSE)
  /\ UNCHANGED <<dirs, files, started>>

Next ==
  \/ \E path \in Paths \cup {Missing} :
       \/ Inspect("fs.list", path) \/ Inspect("fs.read", path)
       \/ \E text \in Texts \cup {Missing}, mode \in Modes \cup {Missing}, a \in BOOLEAN :
            Write(path, text, mode, a)
  \/ \E cmd \in Commands \cup {NoArgv}, plain, a \in BOOLEAN : ShellExec(cmd, plain, a)
  \/ \E tool \in Tools, cmd \in Commands \cup {NoArgv} : Block(tool, cmd)

Spec == Init /\ [][Next]_vars
------------------------------------------------------------------------------
(* Nothing outside the sandbox is ever created or changed, and no contents *)
(* of it are read, whatever links the sandbox holds and whatever way a     *)
(* path takes.  What lies outside is not hidden altogether: the listing of *)
(* a directory tells the type and size of what a link in that very         *)
(* directory leads to, and of nothing else outside (fs_list,               *)
(* executor/sandbox.py).                                                   *)
Confined ==
  /\ \A d \in dirs : Inside(d) \/ d \in InitDirs
  /\ \A p \in DOMAIN files :
       Inside(p) \/ (p \in DOMAIN InitFiles /\ files[p] = InitFiles[p])
  /\ last.tool \in {"fs.list", "fs.read"} /\ last.outcome = "ok" => Inside(last.path)
  /\ \A q \in last.shown :
       Inside(q) \/ \E l \in DOMAIN Links : Links[l] = q /\ Inside(l) /\ EntryOf(l, last.path)

(* A file only ever grows, except by an overwrite of that very file that   *)
(* passed every check and was approved: a rejected, blocked or failed call *)
(* never costs another file anything, and an append never costs any.       *)
Grows(p) ==
  /\ p \in DOMAIN files'
  /\ Len(files'[p]) >= Len(files[p]) /\ SubSeq(files'[p], 1, Len(files[p])) = files[p]

Overwrites(p) ==
  /\ last'.tool = "fs.write" /\ last'.mode = "overwrite" /\ last'.path = p
  /\ last'.outcome \in {"ok", "failed"}
  /\ FsWriteRequiresApproval => last'.approved

NoSilentLoss == [][\A p \in DOMAIN files : Grows(p) \/ Overwrites(p)]_vars

(* No file appears or changes without an approval when policy asks for     *)
(* one, nor by a call that was rejected.                                   *)
WritesApproved ==
  [][files' # files => /\ FsWriteRequiresApproval => last'.approved
                       /\ last'.outcome \in {"ok", "failed"}]_vars

(* A command is started only if no list denies it, and without an approval *)
(* only if a list allows it, however the lists overlap and whatever paths  *)
(* the configuration adds for it.                                          *)
StartsPermitted ==
  [][\A cmd \in started' \ started :
       /\ cmd \in CommandPaths \ ShellDeny
       /\ cmd \in ShellAllow \/ (cmd \in ShellRequireApproval /\ last'.approved)]_vars
==============================================================================
