------------------------------ MODULE MCSandbox -------------------------------
(* Small instances of demo mode for TLC. *)
EXTENDS Sandbox, SequencesExt, TLC

CONSTANTS ls, cat, rm, awk, sudo, none_text, long_text

MCRoot == <<"sandbox">>

(* Paths as they are written: absolute, or a sequence of parts.            *)
MCHere == [abs |-> FALSE, parts |-> <<".">>]
MCNone == [abs |-> FALSE, parts |-> <<"None">>]
Rel(parts) == [abs |-> FALSE, parts |-> parts]

MCPaths == { MCHere, MCNone, [abs |-> TRUE, parts |-> <<"host", "f">>],
             Rel(<<"f">>), Rel(<<"d", "f">>), Rel(<<"d", "..", "f">>),
             Rel(<<"f", "g">>), Rel(<<"..", "host", "f">>),
             Rel(<<"peek">>), Rel(<<"link", "f">>), Rel(<<"link", "..", "f">>) }

MCAbsolute == {p \in MCPaths : p.abs}

(* Two links in the sandbox that lead out of it, to a directory and a file. *)
MCLinks == (<<"sandbox", "link">> :> <<"host", "dir">>)
             @@ (<<"sandbox", "peek">> :> <<"host", "f">>)

Up(p) == IF p = <<>> THEN p ELSE Front(p)

(* Path.resolve: part by part, following links as they are met.            *)
MCResolve ==
  [q \in MCPaths |->
     FoldLeft(LAMBDA at, part : CASE part = "." -> at
                                  [] part = ".." -> Up(at)
                                  [] OTHER -> IF Append(at, part) \in DOMAIN MCLinks
                                                THEN MCLinks[Append(at, part)]
                                                ELSE Append(at, part),
              IF q.abs THEN <<>> ELSE MCRoot, q.parts)]

MCDirs == {<<"sandbox">>, <<"host">>, <<"host", "dir">>}

MCFiles == (<<"host", "f">> :> <<none_text>>) @@ (<<"host", "dir", "f">> :> <<none_text>>)
==============================================================================
