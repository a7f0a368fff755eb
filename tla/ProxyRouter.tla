----------------------------- MODULE ProxyRouter ------------------------------
(***************************************************************************)
(* Proxy mode: the router (proxy/router.py) between the rule policy and    *)
(* the downstream servers.  main starts and initializes every server, or   *)
(* gives up; then the gateway's thread serves listings, which rebuild the  *)
(* router's table server by server, and calls, which policy judges by      *)
(* their name and the table, or the name itself, routes.                   *)
(*                                                                         *)
(* A name is the sequence of its words, the parts between its colons; so   *)
(* joining with a colon is concatenation, and splitting at the first colon *)
(* is Head and Tail.  A request to a server either gets its answer or      *)
(* raises: module Rpc says what stands behind it.                          *)
(***************************************************************************)
EXTENDS RulePolicy

CONSTANTS
  Servers,     \* the names of downstream_servers, in order, each once
  ToolNames,   \* names the servers may give their tools
  CallNames    \* names the client may call

ServerNames == {Servers[i] : i \in DOMAIN Servers}

ASSUME RouterConstants ==
  /\ Servers \in Seq(Names)
  /\ \A i, j \in DOMAIN Servers : Servers[i] = Servers[j] => i = j
  /\ ToolNames \subseteq Names
  /\ CallNames \subseteq Names
  /\ \A n \in Names : n # <<>> /\ n \in Seq({n[i] : i \in DOMAIN n})

VARIABLES
  main,        \* what the gateway's thread does
  next,        \* the server its loop has come to
  tool_map,    \* the routes by name
  listing,     \* the tools gathered by the listing under way
  catalogue,   \* the tools of the last listing the client got
  sent         \* the calls forwarded: under which name, to which tool

vars == <<main, next, tool_map, listing, catalogue, sent>>

Routes == [server : ServerNames, tool : ToolNames \cup {Tail(n) : n \in CallNames}]

NoRoute == [server |-> <<>>, tool |-> <<>>]

TypeOK ==
  /\ main \in {"starting", "idle", "listing", "exited"}
  /\ next \in 1..(Len(Servers) + 1)
  /\ \A n \in DOMAIN tool_map : tool_map[n] \in Routes
  /\ listing \subseteq Routes
  /\ catalogue \subseteq Routes
  /\ sent \subseteq [name : CallNames, route : Routes]

Init ==
  /\ main = "starting"
  /\ next = 1
  /\ tool_map = <<>>
  /\ listing = {} /\ catalogue = {}
  /\ sent = {}
------------------------------------------------------------------------------
Last == next > Len(Servers)

(* initialize_all: each server is started and answers "initialize".        *)
StartServer ==
  /\ main = "starting" /\ ~Last
  /\ next' = next + 1
  /\ UNCHANGED <<main, tool_map, listing, catalogue, sent>>

(* An exception leaves main, and the process ends.                         *)
StartFails ==
  /\ main = "starting" /\ ~Last
  /\ main' = "exited"
  /\ UNCHANGED <<next, tool_map, listing, catalogue, sent>>

Serve ==
  /\ main = "starting" /\ Last
  /\ main' = "idle"
  /\ UNCHANGED <<next, tool_map, listing, catalogue, sent>>
------------------------------------------------------------------------------
Name(route) == route.server \o route.tool

(* The table with the tools ts of server s in it: a name that was there    *)
(* already, from another server, is replaced.                              *)
WithTools(s, ts) ==
  LET new == {[server |-> s, tool |-> t] : t \in ts}
  IN  [n \in DOMAIN tool_map \cup {Name(r) : r \in new} |->
         IF \E r \in new : Name(r) = n THEN CHOOSE r \in new : Name(r) = n
         ELSE tool_map[n]]

BeginListing ==
  /\ main = "idle"
  /\ main' = "listing" /\ next' = 1
  /\ tool_map' = <<>>
  /\ listing' = {}
  /\ UNCHANGED <<catalogue, sent>>

(* A server answers with its tools, whatever they are by now.              *)
ListServer(ts) ==
  /\ main = "listing" /\ ~Last
  /\ tool_map' = WithTools(Servers[next], ts)
  /\ listing' = listing \cup {[server |-> Servers[next], tool |-> t] : t \in ts}
  /\ next' = next + 1
  /\ UNCHANGED <<main, catalogue, sent>>

(* It raises, or its answer turns out not to be a list of tools halfway    *)
(* through: the client gets an error, the table stays half built.          *)
ListingFails(ts) ==
  /\ main = "listing" /\ ~Last
  /\ tool_map' = WithTools(Servers[next], ts)
  /\ main' = "idle"
  /\ UNCHANGED <<next, listing, catalogue, sent>>

EndListing ==
  /\ main = "listing" /\ Last
  /\ main' = "idle"
  /\ catalogue' = listing
  /\ UNCHANGED <<next, tool_map, listing, sent>>
------------------------------------------------------------------------------
(* Mutants of ParseName: the name is split at its last colon; names that   *)
(* are not in the table are refused.                                       *)
SplitLast(n) ==
  LET front == SubSeq(n, 1, Len(n) - 1)
  IN  IF Len(n) > 1 /\ front \in ServerNames
      THEN [server |-> front, tool |-> <<n[Len(n)]>>] ELSE NoRoute

ParseNothing(n) == NoRoute

ParseName(n) ==
  IF Len(n) > 1 /\ <<Head(n)>> \in ServerNames
  THEN [server |-> <<Head(n)>>, tool |-> Tail(n)]
  ELSE NoRoute

Route(n) == IF n \in DOMAIN tool_map THEN tool_map[n] ELSE ParseName(n)

(* A mutant of Call: nobody looks whether there is such a server.          *)
CallUnrouted(n) ==
  /\ main = "idle"
  /\ RuleVerdict(n) # "deny"
  /\ sent' = sent \cup {[name |-> n, route |-> Route(n)]}
  /\ UNCHANGED <<main, next, tool_map, listing, catalogue>>

(* A call that policy allows, or that was approved, is forwarded; one that *)
(* leads nowhere is an error.                                              *)
Call(n) ==
  /\ main = "idle"
  /\ RuleVerdict(n) # "deny"
  /\ Route(n) # NoRoute
  /\ sent' = sent \cup {[name |-> n, route |-> Route(n)]}
  /\ UNCHANGED <<main, next, tool_map, listing, catalogue>>
------------------------------------------------------------------------------
Next ==
  \/ StartServer \/ StartFails \/ Serve
  \/ BeginListing \/ EndListing
  \/ \E ts \in SUBSET ToolNames : ListServer(ts) \/ ListingFails(ts)
  \/ \E n \in CallNames : Call(n)

Spec == Init /\ [][Next]_vars
------------------------------------------------------------------------------
(* README.md:95: a call is routed to the correct downstream server.  The   *)
(* name under which a tool of a server was listed leads to that tool of    *)
(* that server, at any time after: the table may have been rebuilt, half   *)
(* rebuilt or cleared since, and the servers' tools may have changed.      *)
CorrectRoute == \A r \in catalogue : Route(Name(r)) = r

(* The table is no more than a cache: where a name leads never changes.    *)
RouteStable == [][\A n \in CallNames : Route(n)' = Route(n)]_vars

(* If the rules on every name of a server, down to one that covers the     *)
(* server as a whole, say deny in whatever case, no call ever reaches it,  *)
(* by whichever name and route.                                            *)
NamesOf(s) == {n \in Names : Len(n) > Len(s) /\ SubSeq(n, 1, Len(s)) = s}

Closed(s) ==
  \E i \in DOMAIN Rules :
    /\ Rules[i].match # NoPattern /\ NamesOf(s) \subseteq Glob[Rules[i].match]
    /\ \A j \in 1..i : Lower[Rules[j].action] = "deny"
         \/ Rules[j].match = NoPattern \/ Glob[Rules[j].match] \cap NamesOf(s) = {}

ClosedServersUntouched == \A c \in sent : ~Closed(c.route.server)
==============================================================================
