----------------------------- MODULE SandboxProofs ----------------------------
(***************************************************************************)
(* What demo mode guarantees, for any sandbox, paths, links, contents and  *)
(* lists of commands.                                                      *)
(***************************************************************************)
EXTENDS Sandbox, SequenceTheorems, TLAPS

IInv == TypeOK /\ Confined
------------------------------------------------------------------------------
(* Paths.                                                                  *)

(* The directories above a path inside are inside as well, or above the    *)
(* sandbox, where they exist.                                              *)
LEMMA AboveInside ==
  ASSUME NEW p \in Seq(Names), Inside(p), NEW d \in Ancestors(p)
  PROVE  d \in Seq(Names) /\ d # p /\ (Inside(d) \/ d \in InitDirs)
<1>1. PICK k \in 1..(Len(p) - 1) : d = SubSeq(p, 1, k)
  BY DEF Ancestors
<1>2. Len(p) \in Nat /\ Root \in Seq(Names) /\ Len(Root) \in Nat
  BY SandboxConstants
<1>3. \A i \in 1..k : p[i] \in Names
  BY <1>1, <1>2
<1>4. d \in Seq(Names) /\ Len(d) = k /\ \A i \in 1..k : d[i] = p[i]
  BY <1>1, <1>3, SubSeqProperties
<1>5. d # p
  BY <1>1, <1>2, <1>4
<1>6. Len(Root) <= Len(p) /\ \A i \in 1..Len(Root) : Root[i] = p[i]
  <2>1. Len(p) >= Len(Root) /\ SubSeq(p, 1, Len(Root)) = Root
    BY DEF Inside
  <2>2. \A i \in 1..Len(Root) : p[i] \in Names
    BY <1>2, <2>1
  <2>3. \A i \in 1..Len(Root) : SubSeq(p, 1, Len(Root))[i] = p[i]
    BY <1>2, <2>2, SubSeqProperties
  <2> QED
    BY <1>2, <2>1, <2>3
<1>7. CASE k >= Len(Root)
  <2>1. \A i \in 1..Len(Root) : d[i] \in Names /\ d[i] = Root[i]
    BY <1>1, <1>2, <1>3, <1>4, <1>6, <1>7
  <2> DEFINE u == SubSeq(d, 1, Len(Root))
  <2>2. u \in Seq(Names) /\ Len(u) = Len(Root) /\ \A i \in 1..Len(Root) : u[i] = d[i]
    BY <1>2, <2>1, SubSeqProperties
  <2> HIDE DEF u
  <2>3. u = Root
    BY <1>2, <2>1, <2>2, SeqEqual
  <2> QED
    BY <1>4, <1>5, <1>7, <2>3 DEF Inside, u
<1>8. CASE k < Len(Root)
  <2>1. k \in 1..(Len(Root) - 1) /\ \A i \in 1..k : Root[i] \in Names /\ Root[i] = d[i]
    BY <1>1, <1>2, <1>4, <1>6, <1>8
  <2> DEFINE u == SubSeq(Root, 1, k)
  <2>2. u \in Seq(Names) /\ Len(u) = k /\ \A i \in 1..k : u[i] = Root[i]
    BY <2>1, SubSeqProperties
  <2>3. u \in Ancestors(Root)
    BY <2>1 DEF Ancestors
  <2> HIDE DEF u
  <2>4. u = d
    BY <1>4, <2>1, <2>2, SeqEqual
  <2> QED
    BY <1>4, <1>5, <2>3, <2>4, SandboxConstants
<1> QED
  BY <1>1, <1>2, <1>7, <1>8

(* What is an entry of a directory inside lies inside. *)
LEMMA EntryInside ==
  ASSUME NEW p \in Seq(Names), Inside(p), NEW c \in Seq(Names), EntryOf(c, p)
  PROVE  Inside(c)
<1> DEFINE u == SubSeq(c, 1, Len(Root))
           v == SubSeq(c, 1, Len(p))
           w == SubSeq(p, 1, Len(Root))
<1>1. Len(p) \in Nat /\ Len(c) \in Nat /\ Root \in Seq(Names) /\ Len(Root) \in Nat
  BY SandboxConstants
<1>2. Len(c) = Len(p) + 1 /\ Len(Root) <= Len(p) /\ v = p /\ w = Root
  BY DEF Inside, EntryOf
<1>3. \A i \in 1..Len(c) : c[i] \in Names
  BY <1>1
<1>4. \A i \in 1..Len(p) : p[i] \in Names
  BY <1>1
<1>5. u \in Seq(Names) /\ Len(u) = Len(Root) /\ \A i \in 1..Len(Root) : u[i] = c[i]
  <2>1. \A i \in 1..Len(Root) : c[i] \in Names
    BY <1>1, <1>2, <1>3
  <2> QED
    BY <1>1, <2>1, SubSeqProperties
<1>6. \A i \in 1..Len(p) : v[i] = c[i]
  <2>1. \A i \in 1..Len(p) : c[i] \in Names
    BY <1>1, <1>2, <1>3
  <2> QED
    BY <1>1, <2>1, SubSeqProperties
<1>7. \A i \in 1..Len(Root) : w[i] = p[i]
  <2>1. \A i \in 1..Len(Root) : p[i] \in Names
    BY <1>1, <1>2, <1>4
  <2> QED
    BY <1>1, <2>1, SubSeqProperties
<1> HIDE DEF u, v, w
<1>8. \A i \in 1..Len(Root) : u[i] = Root[i]
  BY <1>1, <1>2, <1>5, <1>6, <1>7
<1>9. u = Root
  BY <1>1, <1>5, <1>8, SeqEqual
<1> QED
  BY <1>1, <1>2, <1>9 DEF Inside, u

(* A path that is joined safely lies inside. *)
LEMMA JoinedInside ==
  ASSUME NEW rel \in Paths PROVE Resolve[rel] \in Seq(Names) /\ (SafeJoin(rel) => Inside(Resolve[rel]))
BY SandboxConstants DEF SafeJoin

LEMMA Converted ==
  /\ \A path \in Paths \cup {Missing} : PathArg(path) \in Paths /\ ListArg(path) \in Paths
  /\ \A text \in Texts \cup {Missing} : TextArg(text) \in Texts
  /\ \A mode \in Modes \cup {Missing} : ModeArg(mode) \in Modes
BY SandboxConstants DEF PathArg, ListArg, TextArg, ModeArg, Modes
------------------------------------------------------------------------------
(* What a write does, whichever way it ends.                               *)

WroteAt(p, text, mode) ==
  files' = [q \in DOMAIN files \cup {p} |->
              IF q = p THEN (IF mode = "append" THEN Append(Before(p), text) ELSE <<text>>)
              ELSE files[q]]

CutAt(p, mode) ==
  files' = [q \in DOMAIN files \cup {p} |->
              IF q = p THEN (IF mode = "append" THEN Before(p) ELSE <<>>) ELSE files[q]]

(* Nothing; or the parent directories; or these and the file. *)
WriteEffect(p, m, o, text) ==
  \/ UNCHANGED <<dirs, files>>
  \/ /\ Inside(p) /\ Ancestors(p) \cap DOMAIN files = {}
     /\ dirs' = dirs \cup Ancestors(p)
     /\ \/ UNCHANGED files
        \/ /\ p \notin dirs' /\ m # "other" /\ o \in {"ok", "failed"}
           /\ WroteAt(p, text, m) \/ CutAt(p, m)

LEMMA WriteDoes ==
  ASSUME NEW path \in Paths \cup {Missing}, NEW text \in Texts \cup {Missing},
         NEW mode \in Modes \cup {Missing}, NEW a \in BOOLEAN, Write(path, text, mode, a)
  PROVE  \E p \in Seq(Names), m \in Modes, o \in Outcomes, b \in Texts :
           /\ last' = Told("fs.write", p, m, o, a)
           /\ FsWriteRequiresApproval => a
           /\ UNCHANGED started
           /\ WriteEffect(p, m, o, b)
<1> DEFINE rel == PathArg(path)
           b == TextArg(text)
           m == ModeArg(mode)
           p == Resolve[rel]
           told(o) == Told("fs.write", p, m, o, a)
<1>1. rel \in Paths /\ b \in Texts /\ m \in Modes
  BY Converted
<1>2. p \in Seq(Names) /\ (SafeJoin(rel) => Inside(p))
  BY <1>1, JoinedInside
<1>3. FsWriteRequiresApproval => a
  BY DEF Write, Passes, ReferenceVerdict, FsWriteVerdict
<1>4. \A o \in Outcomes : ComesTo(told("blocked"), o) => last' = told(o)
  BY DEF ComesTo, Told
<1>5. {"ok", "rejected", "failed"} \subseteq Outcomes
  BY DEF Outcomes
<1>6. UNCHANGED started
  BY DEF Write
<1>7. \E o \in Outcomes : last' = told(o) /\ WriteEffect(p, m, o, b)
  <2>1. CASE b \in TooLong \/ ~SafeJoin(rel) \/ Ancestors(p) \cap DOMAIN files # {}
    BY <1>4, <1>5, <2>1 DEF Write, WriteEffect
  <2>2. CASE b \notin TooLong /\ SafeJoin(rel) /\ Ancestors(p) \cap DOMAIN files = {}
    <3>1. dirs' = dirs \cup Ancestors(p) /\ WriteChecked(b, told("blocked"))
      BY <2>2 DEF Write
    <3>2. told("blocked").path = p /\ told("blocked").mode = m
      BY DEF Told
    <3>3. \E o \in Outcomes :
            /\ ComesTo(told("blocked"), o)
            /\ \/ UNCHANGED files
               \/ /\ p \notin dirs' /\ m # "other" /\ o \in {"ok", "failed"}
                  /\ WroteAt(p, b, m) \/ CutAt(p, m)
      <4> HIDE DEF told, p, m, b
      <4> QED
        BY <1>5, <3>1, <3>2 DEF WriteChecked, SetFile, Written, CutShort, WroteAt, CutAt
    <3> QED
      BY <1>2, <1>4, <2>2, <3>1, <3>3 DEF WriteEffect
  <2> QED
    BY <2>1, <2>2
<1> HIDE DEF p, m, b
<1> QED
  BY <1>1, <1>2, <1>3, <1>6, <1>7
------------------------------------------------------------------------------
(* The invariant.                                                          *)

LEMMA Start == Init => IInv
<1> SUFFICES ASSUME Init PROVE IInv
  OBVIOUS
<1>1. TypeOK
  <2>1. last \in [tool : Tools, path : Seq(Names), mode : Modes, outcome : Outcomes,
                  approved : BOOLEAN, shown : SUBSET Seq(Names)]
    BY DEF Init, Told, Tools, Modes, Outcomes
  <2> QED
    BY <2>1, SandboxConstants DEF Init, TypeOK
<1>2. Confined
  BY DEF Init, Told, Confined
<1> QED
  BY <1>1, <1>2 DEF IInv

(* What a file that was written holds afterwards.                          *)
LEMMA FileSet ==
  ASSUME TypeOK, NEW p \in Seq(Names), NEW b \in Texts, NEW m \in Modes,
         WroteAt(p, b, m) \/ CutAt(p, m)
  PROVE  /\ DOMAIN files' = DOMAIN files \cup {p}
         /\ files'[p] \in Seq(Texts)
         /\ \A q \in DOMAIN files : q # p => files'[q] = files[q]
<1>1. Before(p) \in Seq(Texts)
  BY DEF TypeOK, Before
<1>2. Append(Before(p), b) \in Seq(Texts) /\ <<b>> \in Seq(Texts) /\ <<>> \in Seq(Texts)
  BY <1>1
<1>3. CASE WroteAt(p, b, m)
  BY <1>2, <1>3 DEF WroteAt
<1>4. CASE CutAt(p, m)
  BY <1>1, <1>2, <1>4 DEF CutAt
<1> QED
  BY <1>3, <1>4

LEMMA WriteKeeps ==
  ASSUME IInv, NEW path \in Paths \cup {Missing}, NEW text \in Texts \cup {Missing},
         NEW mode \in Modes \cup {Missing}, NEW a \in BOOLEAN, Write(path, text, mode, a)
  PROVE  IInv'
<1>1. PICK p \in Seq(Names), m \in Modes, o \in Outcomes, b \in Texts :
        /\ last' = Told("fs.write", p, m, o, a)
        /\ FsWriteRequiresApproval => a
        /\ UNCHANGED started
        /\ WriteEffect(p, m, o, b)
  BY WriteDoes
<1>2. last' \in [tool : Tools, path : Seq(Names), mode : Modes, outcome : Outcomes,
                 approved : BOOLEAN, shown : SUBSET Seq(Names)]
  BY <1>1 DEF Told, Tools
<1>3. last'.tool = "fs.write" /\ last'.shown = {}
  BY <1>1 DEF Told
<1>4. CASE UNCHANGED <<dirs, files>>
  BY <1>1, <1>2, <1>3, <1>4 DEF IInv, TypeOK, Confined
<1>5. CASE /\ Inside(p) /\ Ancestors(p) \cap DOMAIN files = {}
           /\ dirs' = dirs \cup Ancestors(p)
  <2>1. /\ Ancestors(p) \subseteq Seq(Names) /\ p \notin Ancestors(p)
        /\ \A d \in Ancestors(p) : Inside(d) \/ d \in InitDirs
    BY <1>5, AboveInside
  <2>2. /\ dirs' \subseteq Seq(Names) /\ dirs' \cap DOMAIN files = {}
        /\ \A d \in dirs' : Inside(d) \/ d \in InitDirs
    BY <1>5, <2>1 DEF IInv, TypeOK, Confined
  <2>3. CASE UNCHANGED files
    BY <1>1, <1>2, <1>3, <2>2, <2>3 DEF IInv, TypeOK, Confined
  <2>4. CASE p \notin dirs' /\ (WroteAt(p, b, m) \/ CutAt(p, m))
    <3>1. /\ DOMAIN files' = DOMAIN files \cup {p}
          /\ files'[p] \in Seq(Texts)
          /\ \A q \in DOMAIN files : q # p => files'[q] = files[q]
      BY <2>4, FileSet DEF IInv
    <3>2. TypeOK'
      BY <1>1, <1>2, <2>2, <2>4, <3>1 DEF IInv, TypeOK
    <3>3. Confined'
      BY <1>3, <1>5, <2>2, <3>1 DEF IInv, Confined
    <3> QED
      BY <3>2, <3>3 DEF IInv
  <2> QED
    BY <1>1, <2>3, <2>4, <1>4 DEF WriteEffect
<1> QED
  BY <1>1, <1>4, <1>5 DEF WriteEffect

(* What a listing of a directory inside tells of: what is inside, and what *)
(* the links in the directory lead to.                                     *)
LEMMA ShownWithin ==
  ASSUME TypeOK, NEW p \in Seq(Names), Inside(p), NEW q \in Shown(p)
  PROVE  /\ q \in Seq(Names)
         /\ Inside(q) \/ \E l \in DOMAIN Links : Links[l] = q /\ Inside(l) /\ EntryOf(l, p)
<1>1. PICK c \in dirs \cup DOMAIN files \cup DOMAIN Links : EntryOf(c, p) /\ q = Follow(c)
  BY DEF Shown
<1>2. c \in Seq(Names)
  BY SandboxConstants DEF TypeOK
<1>3. Inside(c)
  BY <1>1, <1>2, EntryInside
<1>4. CASE c \in DOMAIN Links
  BY <1>1, <1>3, <1>4, SandboxConstants DEF Follow
<1>5. CASE c \notin DOMAIN Links
  BY <1>1, <1>2, <1>3, <1>5 DEF Follow
<1> QED
  BY <1>4, <1>5

LEMMA InspectKeeps ==
  ASSUME IInv, NEW tool \in {"fs.list", "fs.read"}, NEW path \in Paths \cup {Missing},
         Inspect(tool, path)
  PROVE  IInv'
<1> DEFINE rel == IF tool = "fs.list" THEN ListArg(path) ELSE PathArg(path)
           p == Resolve[rel]
<1>1. rel \in Paths /\ p \in Seq(Names) /\ (SafeJoin(rel) => Inside(p))
  BY Converted, JoinedInside
<1>2. PICK o \in {"ok", "rejected", "failed"}, S \in {{}, Shown(p)} :
        /\ last' = [tool |-> tool, path |-> p, mode |-> "other", outcome |-> o,
                    approved |-> FALSE, shown |-> S]
        /\ o = "ok" \/ S # {} => SafeJoin(rel)
  <2> DEFINE told(o, S) == [tool |-> tool, path |-> p, mode |-> "other", outcome |-> o,
                            approved |-> FALSE, shown |-> S]
  <2>1. \/ SafeJoin(rel) /\ (last' = told("ok", {}) \/ last' = told("ok", Shown(p)))
        \/ last' = told("failed", {})
        \/ last' = told("rejected", {})
    BY DEF Inspect, Told
  <2> HIDE DEF told, rel, p
  <2>2. \E o \in {"ok", "rejected", "failed"}, S \in {{}, Shown(p)} :
          last' = told(o, S) /\ (o = "ok" \/ S # {} => SafeJoin(rel))
    BY <2>1
  <2> QED
    BY <2>2 DEF told
<1>3. UNCHANGED <<dirs, files, started>>
  BY DEF Inspect
<1> HIDE DEF p, rel
<1>4. \A q \in S :
        /\ q \in Seq(Names)
        /\ Inside(q) \/ \E l \in DOMAIN Links : Links[l] = q /\ Inside(l) /\ EntryOf(l, p)
  BY <1>1, <1>2, ShownWithin DEF IInv
<1>5. last'.path = p /\ last'.outcome = o /\ last'.shown = S
  BY <1>2
<1>6. TypeOK'
  <2>1. last' \in [tool : Tools, path : Seq(Names), mode : Modes, outcome : Outcomes,
                   approved : BOOLEAN, shown : SUBSET Seq(Names)]
    BY <1>1, <1>2, <1>4 DEF Tools, Modes, Outcomes
  <2> QED
    BY <1>3, <2>1 DEF IInv, TypeOK
<1>7. Confined'
  BY <1>1, <1>2, <1>3, <1>4, <1>5 DEF IInv, Confined
<1> QED
  BY <1>6, <1>7 DEF IInv

LEMMA ShellExecKeeps ==
  ASSUME IInv, NEW cmd \in Commands \cup {NoArgv}, NEW plain \in BOOLEAN, NEW a \in BOOLEAN,
         ShellExec(cmd, plain, a)
  PROVE  IInv'
<1>1. UNCHANGED <<dirs, files>>
  BY DEF ShellExec
<1>2. \E o \in Outcomes : last' = Told("shell.exec", <<>>, "other", o, a)
  BY DEF ShellExec, ComesTo, Told, Outcomes
<1>3. started' = started \/ (started' = started \cup {cmd} /\ cmd \in CommandPaths)
  BY DEF ShellExec
<1>4. cmd \in ShellAllow \cup ShellRequireApproval
  BY DEF ShellExec, Passes, ReferenceVerdict, ShellVerdict
<1>5. cmd \in Commands
  BY <1>4, PolicyConstants
<1>6. TypeOK'
  BY <1>1, <1>2, <1>3, <1>5 DEF IInv, TypeOK, Told, Tools, Modes, Outcomes
<1>7. Confined'
  BY <1>1, <1>2 DEF IInv, Confined, Told
<1> QED
  BY <1>6, <1>7 DEF IInv

LEMMA BlockKeeps ==
  ASSUME IInv, NEW tool \in Tools, NEW cmd \in Commands \cup {NoArgv}, Block(tool, cmd)
  PROVE  IInv'
<1>1. last' = Told(tool, <<>>, "other", "blocked", FALSE)
  BY DEF Block
<1>2. UNCHANGED <<dirs, files, started>>
  BY DEF Block
<1> QED
  BY <1>1, <1>2
     DEF IInv, TypeOK, Confined, Told, Tools, Modes, Outcomes

THEOREM Inductive == IInv /\ [Next]_vars => IInv'
<1> SUFFICES ASSUME IInv, [Next]_vars PROVE IInv'
  OBVIOUS
<1>1. ASSUME NEW path \in Paths \cup {Missing}, Inspect("fs.list", path) \/ Inspect("fs.read", path)
      PROVE  IInv'
  BY <1>1, InspectKeeps
<1>2. ASSUME NEW path \in Paths \cup {Missing}, NEW text \in Texts \cup {Missing},
             NEW mode \in Modes \cup {Missing}, NEW a \in BOOLEAN, Write(path, text, mode, a)
      PROVE  IInv'
  BY <1>2, WriteKeeps
<1>3. ASSUME NEW cmd \in Commands \cup {NoArgv}, NEW plain \in BOOLEAN, NEW a \in BOOLEAN,
             ShellExec(cmd, plain, a)
      PROVE  IInv'
  BY <1>3, ShellExecKeeps
<1>4. ASSUME NEW tool \in Tools, NEW cmd \in Commands \cup {NoArgv}, Block(tool, cmd)
      PROVE  IInv'
  BY <1>4, BlockKeeps
<1>5. ASSUME UNCHANGED vars PROVE IInv'
  BY <1>5 DEF vars, IInv, TypeOK, Confined
<1> QED
  BY <1>1, <1>2, <1>3, <1>4, <1>5 DEF Next

LEMMA Always == Spec => []IInv
BY Start, Inductive, PTL DEF Spec

(* For any number of names, links, texts and commands, the state of demo   *)
(* mode keeps its type: no path is both a file and a directory             *)
(* (executor/sandbox.py).                                                  *)
THEOREM SandboxTyped == Spec => []TypeOK
BY Always, PTL DEF IInv

(* Whatever the sandbox links to and whatever path a client gives, nothing *)
(* outside the sandbox is created or changed by the file tools, and no     *)
(* contents of it are read; a listing tells the type and size of what the  *)
(* links in the listed directory lead to, and of nothing else outside      *)
(* (executor/sandbox.py, _safe_join and fs_list).                          *)
THEOREM StaysInside == Spec => []Confined
BY Always, PTL DEF IInv

(* ReferencePolicyPlugin.evaluate gives every call a verdict of the        *)
(* gateway's, so that it is a Policy as module Gateway assumes one.        *)
THEOREM ReferenceDecides ==
  \A tool, cmd : ReferenceVerdict(tool, cmd) \in {"allow", "deny", "require_approval"}
BY DEF ReferenceVerdict, FsWriteVerdict, ShellVerdict

(* However the lists of commands overlap, and whatever paths the           *)
(* configuration adds, no denied command is started, and one that no list  *)
(* allows only with an approval (policy/reference.py, main.py).            *)
THEOREM DenialWins == Spec => StartsPermitted
<1> DEFINE Permitted(cmd) ==
             /\ cmd \in CommandPaths \ ShellDeny
             /\ cmd \in ShellAllow \/ (cmd \in ShellRequireApproval /\ last'.approved)
<1>1. [Next]_vars => [\A cmd \in started' \ started : Permitted(cmd)]_vars
  <2> SUFFICES ASSUME [Next]_vars, NEW cmd \in started' \ started PROVE Permitted(cmd)
    OBVIOUS
  <2>1. PICK plain, a \in BOOLEAN : ShellExec(cmd, plain, a)
    BY DEF Next, vars, Inspect, Write, Block, ShellExec
  <2>2. cmd \in CommandPaths
    BY <2>1 DEF ShellExec
  <2>3. last'.approved = a
    BY <2>1 DEF ShellExec, ComesTo, Told
  <2>4. /\ cmd \notin ShellDeny
        /\ cmd \in ShellAllow \/ (cmd \in ShellRequireApproval /\ a)
    BY <2>1 DEF ShellExec, Passes, ReferenceVerdict, ShellVerdict
  <2> QED
    BY <2>2, <2>3, <2>4
<1> QED
  BY <1>1, PTL DEF Spec, StartsPermitted
------------------------------------------------------------------------------
(* What a step may do to the files.                                        *)

LEMMA Extends ==
  ASSUME NEW S, NEW s \in Seq(S), NEW t \in Seq(S), Len(s) <= Len(t),
         \A i \in 1..Len(s) : t[i] = s[i]
  PROVE  SubSeq(t, 1, Len(s)) = s
<1> DEFINE u == SubSeq(t, 1, Len(s))
<1>1. \A i \in 1..Len(s) : t[i] \in S
  BY LenProperties
<1>2. Len(s) \in Nat
  BY LenProperties
<1>3. u \in Seq(S) /\ Len(u) = Len(s) /\ \A i \in 1..Len(s) : u[i] = t[i]
  BY <1>1, <1>2, SubSeqProperties
<1> HIDE DEF u
<1>4. u = s
  BY <1>2, <1>3, SeqEqual
<1> QED
  BY <1>4 DEF u

(* A file that is left alone, or only added to, grows. *)
LEMMA Kept ==
  ASSUME TypeOK, NEW q \in DOMAIN files, q \in DOMAIN files',
         files'[q] = files[q] \/ \E b \in Texts : files'[q] = Append(files[q], b)
  PROVE  Grows(q)
<1>1. files[q] \in Seq(Texts)
  BY DEF TypeOK
<1>2. /\ files'[q] \in Seq(Texts) /\ Len(files[q]) <= Len(files'[q])
      /\ \A i \in 1..Len(files[q]) : files'[q][i] = files[q][i]
  <2>1. CASE files'[q] = files[q]
    BY <1>1, <2>1
  <2>2. ASSUME NEW b \in Texts, files'[q] = Append(files[q], b)
        PROVE  /\ files'[q] \in Seq(Texts) /\ Len(files[q]) <= Len(files'[q])
               /\ \A i \in 1..Len(files[q]) : files'[q][i] = files[q][i]
    BY <1>1, <2>2
  <2> QED
    BY <2>1, <2>2
<1>3. SubSeq(files'[q], 1, Len(files[q])) = files[q]
  BY <1>1, <1>2, Extends
<1> QED
  BY <1>1, <1>2, <1>3 DEF Grows

LEMMA WriteCosts ==
  ASSUME TypeOK, NEW path \in Paths \cup {Missing}, NEW text \in Texts \cup {Missing},
         NEW mode \in Modes \cup {Missing}, NEW a \in BOOLEAN, Write(path, text, mode, a)
  PROVE  /\ \A q \in DOMAIN files : Grows(q) \/ Overwrites(q)
         /\ files' # files => /\ FsWriteRequiresApproval => last'.approved
                             /\ last'.outcome \in {"ok", "failed"}
<1>1. PICK p \in Seq(Names), m \in Modes, o \in Outcomes, b \in Texts :
        /\ last' = Told("fs.write", p, m, o, a)
        /\ FsWriteRequiresApproval => a
        /\ UNCHANGED started
        /\ WriteEffect(p, m, o, b)
  BY WriteDoes
<1>2. /\ last'.tool = "fs.write" /\ last'.path = p /\ last'.mode = m
      /\ last'.outcome = o /\ last'.approved = a
  BY <1>1 DEF Told
<1>3. CASE UNCHANGED files
  BY <1>3, Kept
<1>4. CASE m # "other" /\ o \in {"ok", "failed"} /\ (WroteAt(p, b, m) \/ CutAt(p, m))
  <2>1. \A q \in DOMAIN files : q # p => Grows(q)
    <3>1. ASSUME NEW q \in DOMAIN files, q # p PROVE q \in DOMAIN files' /\ files'[q] = files[q]
      BY <1>4, <3>1, FileSet
    <3> QED
      BY <3>1, Kept
  <2>2. p \in DOMAIN files => Grows(p) \/ Overwrites(p)
    <3>1. CASE m = "overwrite"
      BY <1>1, <1>2, <1>4, <3>1 DEF Overwrites
    <3>2. CASE m = "append" /\ p \in DOMAIN files
      <4>1. p \in DOMAIN files'
        BY <1>4, <3>2, FileSet
      <4>2. files'[p] = files[p] \/ files'[p] = Append(files[p], b)
        BY <1>4, <3>2 DEF WroteAt, CutAt, Before
      <4> QED
        BY <3>2, <4>1, <4>2, Kept
    <3> QED
      BY <1>4, <3>1, <3>2 DEF Modes
  <2> QED
    BY <1>1, <1>2, <1>4, <2>1, <2>2
<1> QED
  BY <1>1, <1>3, <1>4 DEF WriteEffect

LEMMA OthersCostNothing ==
  ASSUME [Next]_vars,
         ~\E path \in Paths \cup {Missing}, text \in Texts \cup {Missing},
             mode \in Modes \cup {Missing}, a \in BOOLEAN : Write(path, text, mode, a)
  PROVE  UNCHANGED files
BY DEF Next, vars, Inspect, ShellExec, Block

(* A call that did not overwrite a file, with approval where that is       *)
(* asked for, costs it nothing, whichever step of fs_write failed          *)
(* (executor/sandbox.py).                                                  *)
THEOREM NothingLost == Spec => NoSilentLoss
<1>1. TypeOK /\ [Next]_vars => [\A p \in DOMAIN files : Grows(p) \/ Overwrites(p)]_vars
  <2> SUFFICES ASSUME TypeOK, [Next]_vars, NEW p \in DOMAIN files
               PROVE  Grows(p) \/ Overwrites(p)
    OBVIOUS
  <2> QED
    BY WriteCosts, OthersCostNothing, Kept
<1> QED
  BY <1>1, SandboxTyped, PTL DEF Spec, NoSilentLoss

(* No file is created or changed without the approval that policy asks     *)
(* for, nor by a rejected call (executor/sandbox.py, policy/reference.py). *)
THEOREM ChangesApproved == Spec => WritesApproved
<1>1. TypeOK /\ [Next]_vars =>
        [files' # files => /\ FsWriteRequiresApproval => last'.approved
                           /\ last'.outcome \in {"ok", "failed"}]_vars
  BY WriteCosts, OthersCostNothing
<1> QED
  BY <1>1, SandboxTyped, PTL DEF Spec, WritesApproved
==============================================================================
