--------------------------- MODULE ReferencePolicy ----------------------------
(***************************************************************************)
(* The policy of demo mode (policy/reference.py): fixed verdicts on the    *)
(* file tools, three lists for the commands of shell.exec, and a denial of *)
(* everything else.                                                        *)
(***************************************************************************)
CONSTANTS
  FsWriteRequiresApproval,   \* policy.fs_write_requires_approval
  ShellAllow, ShellRequireApproval, ShellDeny,   \* command names
  NoArgv                     \* an argv that is missing, empty or no list

ASSUME PolicyConstants ==
  /\ FsWriteRequiresApproval \in BOOLEAN
  /\ NoArgv \notin ShellAllow \cup ShellRequireApproval

(* A mutant of ShellVerdict: the allowlist is looked at first. *)
ShellAllowFirst(cmd) ==
  IF cmd \in ShellAllow THEN "allow"
  ELSE IF cmd \in ShellRequireApproval /\ cmd \notin ShellDeny THEN "require_approval"
  ELSE "deny"

(* A command may be on several lists: denial comes first. *)
ShellVerdict(cmd) ==
  IF cmd \in ShellDeny THEN "deny"
  ELSE IF cmd \in ShellAllow THEN "allow"
  ELSE IF cmd \in ShellRequireApproval THEN "require_approval"
  ELSE "deny"

(* A mutant of FsWriteVerdict: the switch is read the wrong way round. *)
FsWriteSwapped == IF FsWriteRequiresApproval THEN "allow" ELSE "require_approval"

FsWriteVerdict == IF FsWriteRequiresApproval THEN "require_approval" ELSE "allow"

ReferenceVerdict(tool, cmd) ==
  CASE tool = "fs.write" -> FsWriteVerdict
    [] tool \in {"fs.read", "fs.list"} -> "allow"
    [] tool = "shell.exec" -> ShellVerdict(cmd)
    [] OTHER -> "deny"
==============================================================================
