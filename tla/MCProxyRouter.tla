---------------------------- MODULE MCProxyRouter -----------------------------
(* Small instances of proxy mode for TLC. *)
EXTENDS ProxyRouter, TLC

CONSTANTS a, b, x     \* words

(* All names of up to three words, and two patterns for each server.       *)
MCNames == UNION {[1..k -> {a, b, x}] : k \in 1..3}

Under(p) == {n \in MCNames : Len(n) > Len(p) /\ SubSeq(n, 1, Len(p)) = p}

MCGlob == ("a:*" :> Under(<<a>>)) @@ ("b:*" :> Under(<<b>>)) @@
          ("a:x" :> {<<a, x>>}) @@ ("*" :> MCNames)

MCLower == [w \in {"allow", "deny", "require_approval", "DENY", "block"} |->
              IF w = "DENY" THEN "deny" ELSE w]

Rule(p, w) == [match |-> p, action |-> w]

(* Server b is closed, in capitals, before everything is opened, by a word *)
(* that means nothing.                                                     *)
MCRules == << Rule(NoPattern, "deny"), Rule("a:x", "require_approval"),
              Rule("b:*", "DENY"), Rule("*", "block") >>

TwoServers == << <<a>>, <<b>> >>

(* One server's name is the other's and a word more. *)
Nested == << <<a>>, <<a, b>> >>

(* Tools whose own names have colons, or are a server's name. *)
MCTools == {<<x>>, <<b, x>>, <<b>>}

MCCalls == {<<a>>, <<a, x>>, <<a, b, x>>, <<b, x>>, <<b, b, x>>, <<a, b>>, <<x, x>>}
==============================================================================
