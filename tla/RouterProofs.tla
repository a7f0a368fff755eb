----------------------------- MODULE RouterProofs -----------------------------
(***************************************************************************)
(* What the router guarantees, for any servers, tools, names and rules;    *)
(* where it says so, for servers whose names have no colon.                *)
(***************************************************************************)
EXTENDS ProxyRouter, SequenceTheorems, FiniteSetTheorems, WellFoundedInduction, TLAPS

(* No colon in the name of a server: the name is one word.                 *)
ColonFree == \A s \in ServerNames : Len(s) = 1

(* What a listing can contain. *)
Listed == [server : ServerNames, tool : ToolNames]

(* The table has each route under its own name, and a call was forwarded   *)
(* to a server whose name its own begins with, after policy let it.        *)
TableSound == \A n \in DOMAIN tool_map : tool_map[n] \in Listed /\ Name(tool_map[n]) = n

SentSound ==
  \A c \in sent : RuleVerdict(c.name) # "deny" /\ c.name \in NamesOf(c.route.server)

IInv ==
  /\ TypeOK
  /\ TableSound
  /\ listing \subseteq Listed /\ catalogue \subseteq Listed
  /\ SentSound
------------------------------------------------------------------------------
(* Names.                                                                  *)

Words == UNION {{n[i] : i \in DOMAIN n} : n \in Names}

LEMMA NamesAreSequences == \A n \in Names : n \in Seq(Words) /\ n # <<>>
<1> TAKE n \in Names
<1>1. n \in Seq({n[i] : i \in DOMAIN n}) /\ n # <<>>
  BY RouterConstants
<1>2. {n[i] : i \in DOMAIN n} \subseteq Words
  BY DEF Words
<1> QED
  BY <1>1, <1>2, SeqMonotonic

LEMMA ServersAreNames == ServerNames \subseteq Names
BY RouterConstants DEF ServerNames

LEMMA Joined ==
  ASSUME NEW S, NEW s \in Seq(S), NEW t \in Seq(S), s # <<>>, t # <<>>
  PROVE  /\ s \o t \in Seq(S)
         /\ Len(s \o t) > Len(s)
         /\ SubSeq(s \o t, 1, Len(s)) = s
<1>1. s \o t \in Seq(S) /\ Len(s \o t) = Len(s) + Len(t)
  BY ConcatProperties
<1>2. Len(s) \in Nat /\ Len(s) > 0 /\ Len(t) \in Nat /\ Len(t) > 0
  BY EmptySeq
<1>3. SubSeq(s \o t, 1, Len(s)) = SubSeq(s, 1, Len(s))
  BY <1>2, SubSeqOfConcat1
<1>4. SubSeq(s, 1, Len(s)) = s
  BY SubSeqFull
<1>5. Len(s \o t) > Len(s)
  BY <1>1, <1>2
<1> QED
  BY <1>1, <1>3, <1>4, <1>5

LEMMA SplitAgain ==
  ASSUME NEW S, NEW s \in Seq(S), NEW t \in Seq(S), Len(s) = 1, t # <<>>
  PROVE  Len(s \o t) > 1 /\ Head(s \o t) = s[1] /\ Tail(s \o t) = t
<1> DEFINE n == s \o t
<1>1. n \in Seq(S) /\ Len(n) = 1 + Len(t)
      /\ \A i \in 1..Len(s) + Len(t) : n[i] = IF i <= Len(s) THEN s[i] ELSE t[i - Len(s)]
  BY ConcatProperties
<1>2. Len(t) \in Nat /\ Len(t) > 0
  BY EmptySeq
<1> HIDE DEF n
<1>3. Len(n) > 1 /\ n # <<>>
  BY <1>1, <1>2
<1>4. Head(n) = s[1]
  BY <1>1, <1>2, <1>3
<1>5. Tail(n) = t
  <2>1. Tail(n) \in Seq(S) /\ Len(Tail(n)) = Len(t)
        /\ \A i \in 1..Len(Tail(n)) : Tail(n)[i] = n[i + 1]
    BY <1>1, <1>2, <1>3, HeadTailProperties
  <2>2. ASSUME NEW i \in 1..Len(t) PROVE n[i + 1] = t[i]
    <3>1. i + 1 \in 1..Len(s) + Len(t) /\ ~(i + 1 <= Len(s)) /\ i + 1 - Len(s) = i
      BY <1>2
    <3> QED
      BY <1>1, <3>1
  <2> QED
    BY <2>1, <2>2, SeqEqual
<1> QED
  BY <1>3, <1>4, <1>5 DEF n

(* A tool's name begins with its server's. *)
LEMMA NameBegins ==
  ASSUME NEW r \in Listed
  PROVE  /\ Len(Name(r)) > Len(r.server)
         /\ SubSeq(Name(r), 1, Len(r.server)) = r.server
<1>1. r.server \in Seq(Words) /\ r.tool \in Seq(Words) /\ r.server # <<>> /\ r.tool # <<>>
  BY NamesAreSequences, ServersAreNames, RouterConstants DEF Listed
<1> QED
  BY <1>1, Joined DEF Name

(* With one word for the server, splitting a name takes joining back.      *)
LEMMA ParseInvertsName ==
  ASSUME ColonFree, NEW r \in Listed PROVE ParseName(Name(r)) = r
<1>1. r.server \in Seq(Words) /\ r.tool \in Seq(Words) /\ r.tool # <<>> /\ Len(r.server) = 1
  BY NamesAreSequences, ServersAreNames, RouterConstants DEF Listed, ColonFree
<1>2. Len(Name(r)) > 1 /\ <<Head(Name(r))>> = r.server /\ Tail(Name(r)) = r.tool
  <2>1. Len(Name(r)) > 1 /\ Head(Name(r)) = r.server[1] /\ Tail(Name(r)) = r.tool
    BY <1>1, SplitAgain DEF Name
  <2>2. r.server = <<r.server[1]>>
    BY <1>1
  <2> QED
    BY <2>1, <2>2
<1>3. r.server \in ServerNames /\ r = [server |-> r.server, tool |-> r.tool]
  BY DEF Listed
<1> DEFINE n == Name(r)
<1> HIDE DEF n
<1>4. ParseName(n) = [server |-> <<Head(n)>>, tool |-> Tail(n)]
  BY <1>2, <1>3 DEF ParseName, n
<1> QED
  BY <1>2, <1>3, <1>4 DEF n

(* So does a name that is split. *)
LEMMA ParsedBegins ==
  ASSUME NEW n \in Names, ParseName(n) # NoRoute
  PROVE  /\ ParseName(n) = [server |-> <<Head(n)>>, tool |-> Tail(n)]
         /\ <<Head(n)>> \in ServerNames
         /\ n \in NamesOf(<<Head(n)>>)
<1>1. n \in Seq(Words) /\ n # <<>>
  BY NamesAreSequences
<1>2. /\ ParseName(n) = [server |-> <<Head(n)>>, tool |-> Tail(n)]
      /\ <<Head(n)>> \in ServerNames /\ Len(n) > 1
  BY DEF ParseName
<1>3. SubSeq(n, 1, 1) = <<Head(n)>>
  <2>1. \A i \in 1..1 : n[i] \in Words
    BY <1>1, <1>2
  <2>2. /\ SubSeq(n, 1, 1) \in Seq(Words) /\ Len(SubSeq(n, 1, 1)) = 1
        /\ SubSeq(n, 1, 1)[1] = n[1]
    BY <2>1, SubSeqProperties
  <2>3. Head(n) = n[1] /\ <<Head(n)>> \in Seq(Words)
    BY <1>1, <2>1
  <2>4. Len(<<Head(n)>>) = 1 /\ <<Head(n)>>[1] = n[1]
    BY <2>3
  <2>5. \A i \in 1..1 : SubSeq(n, 1, 1)[i] = <<Head(n)>>[i]
    BY <2>2, <2>4
  <2> DEFINE u == SubSeq(n, 1, 1)
             v == <<Head(n)>>
  <2> HIDE DEF u, v
  <2>6. u \in Seq(Words) /\ v \in Seq(Words) /\ Len(u) = Len(v) /\ \A i \in 1..Len(u) : u[i] = v[i]
    BY <2>2, <2>3, <2>4, <2>5 DEF u, v
  <2>7. u = v
    BY <2>6, SeqEqual
  <2> QED
    BY <2>7 DEF u, v
<1>4. Len(<<Head(n)>>) = 1
  OBVIOUS
<1>5. n \in NamesOf(<<Head(n)>>)
  BY <1>2, <1>3, <1>4 DEF NamesOf
<1> QED
  BY <1>2, <1>5
------------------------------------------------------------------------------
(* The table.                                                              *)

LEMMA WithToolsSound ==
  ASSUME TableSound, NEW s \in ServerNames, NEW ts \in SUBSET ToolNames
  PROVE  \A n \in DOMAIN WithTools(s, ts) :
           WithTools(s, ts)[n] \in Listed /\ Name(WithTools(s, ts)[n]) = n
<1> DEFINE new == {[server |-> s, tool |-> t] : t \in ts}
           T == WithTools(s, ts)
<1>1. T = [n \in DOMAIN tool_map \cup {Name(r) : r \in new} |->
             IF \E r \in new : Name(r) = n THEN CHOOSE r \in new : Name(r) = n
             ELSE tool_map[n]]
  BY DEF WithTools
<1>2. new \subseteq Listed
  BY DEF Listed
<1>3. DOMAIN T = DOMAIN tool_map \cup {Name(r) : r \in new}
  BY <1>1
<1> HIDE DEF new, T
<1> SUFFICES ASSUME NEW n \in DOMAIN T PROVE T[n] \in Listed /\ Name(T[n]) = n
  BY DEF T
<1>4. CASE \E r \in new : Name(r) = n
  <2>1. T[n] = CHOOSE r \in new : Name(r) = n
    BY <1>1, <1>3, <1>4
  <2>2. T[n] \in new /\ Name(T[n]) = n
    BY <1>4, <2>1
  <2> QED
    BY <1>2, <2>2
<1>5. CASE ~\E r \in new : Name(r) = n
  <2>1. n \in DOMAIN tool_map /\ T[n] = tool_map[n]
    BY <1>1, <1>3, <1>5
  <2> QED
    BY <2>1 DEF TableSound
<1> QED
  BY <1>4, <1>5

(* Wherever a call is forwarded, its name begins with that server's name.  *)
LEMMA RouteBegins ==
  ASSUME TableSound, NEW n \in CallNames, Route(n) # NoRoute
  PROVE  Route(n) \in Routes /\ n \in NamesOf(Route(n).server)
<1>0. n \in Names
  BY RouterConstants
<1>1. CASE n \in DOMAIN tool_map
  <2>1. Route(n) = tool_map[n] /\ tool_map[n] \in Listed /\ Name(tool_map[n]) = n
    BY <1>1 DEF Route, TableSound
  <2>2. Len(n) > Len(Route(n).server) /\ SubSeq(n, 1, Len(Route(n).server)) = Route(n).server
    BY <2>1, NameBegins
  <2> QED
    BY <1>0, <2>1, <2>2 DEF NamesOf, Listed, Routes
<1>2. CASE n \notin DOMAIN tool_map
  <2>1. Route(n) = ParseName(n)
    BY <1>2 DEF Route
  <2>2. /\ Route(n) = [server |-> <<Head(n)>>, tool |-> Tail(n)]
        /\ <<Head(n)>> \in ServerNames /\ n \in NamesOf(<<Head(n)>>)
    BY <1>0, <2>1, ParsedBegins
  <2>3. Route(n).server = <<Head(n)>> /\ Route(n).tool = Tail(n)
    BY <2>2
  <2>4. Route(n) \in Routes
    BY <2>2 DEF Routes
  <2> QED
    BY <2>2, <2>3, <2>4
<1> QED
  BY <1>1, <1>2

(* The table says nothing that splitting the name does not say as well.    *)
LEMMA TableIsCache ==
  ASSUME ColonFree, TableSound, NEW n PROVE Route(n) = ParseName(n)
BY ParseInvertsName DEF Route, TableSound
------------------------------------------------------------------------------
(* Rules.                                                                  *)

LEMMA LeastNatural ==
  ASSUME NEW T \in SUBSET Nat, T # {} PROVE \E x \in T : \A y \in T : x <= y
<1> DEFINE I == {1..i : i \in T}
<1>1. I \subseteq FiniteSubsetsOf(Nat) /\ I # {}
  <2>1. ASSUME NEW i \in T PROVE 1..i \subseteq Nat /\ IsFiniteSet(1..i)
    <3>1. 1 \in Int /\ i \in Int
      OBVIOUS
    <3> QED
      BY <3>1, FS_Interval
  <2> QED
    BY <2>1 DEF FiniteSubsetsOf
<1>2. IsWellFoundedOn(StrictSubsetOrdering(Nat), FiniteSubsetsOf(Nat))
  BY FS_StrictSubsetOrderingWellFounded
<1> HIDE DEF I
<1>3. PICK X \in I : \A Y \in I : <<Y, X>> \notin StrictSubsetOrdering(Nat)
  BY <1>1, <1>2, WFMin
<1>4. PICK x \in T : X = 1..x
  BY <1>3 DEF I
<1>5. ASSUME NEW y \in T, y < x PROVE FALSE
  <2>1. 1..y \in I
    BY DEF I
  <2>2. 1..y \subseteq 1..x /\ x \in 1..x /\ x \notin 1..y /\ 1..x \subseteq Nat
    BY <1>5
  <2> QED
    BY <1>3, <1>4, <2>1, <2>2 DEF StrictSubsetOrdering
<1> QED
  BY <1>5

LEMMA FirstHit ==
  ASSUME NEW n, Hits(n) # {}
  PROVE  \E i \in Hits(n) : /\ \A j \in Hits(n) : i <= j
                            /\ RuleVerdict(n) = ActionOf(Rules[i].action)
<1>1. Hits(n) \in SUBSET Nat
  BY RuleConstants DEF Hits
<1> DEFINE First(i) == \A j \in Hits(n) : i <= j
<1>2. \E i \in Hits(n) : First(i)
  BY <1>1, LeastNatural
<1> HIDE DEF First
<1>3. (CHOOSE i \in Hits(n) : First(i)) \in Hits(n) /\ First(CHOOSE i \in Hits(n) : First(i))
  BY <1>2
<1>4. RuleVerdict(n) = ActionOf(Rules[CHOOSE i \in Hits(n) : First(i)].action)
  BY DEF RuleVerdict, First
<1> QED
  BY <1>3, <1>4 DEF First

(* RulePolicyPlugin.evaluate gives every tool a verdict of the gateway's,  *)
(* so that RuleVerdict is a Policy as module Gateway assumes one, and it   *)
(* is that of the first rule to match: the rules behind it are as if they  *)
(* were not there, and the default is only for a tool no rule matches.     *)
THEOREM FirstRuleDecides ==
  \A n : /\ RuleVerdict(n) \in Actions
         /\ \A i \in Hits(n) : (\A j \in 1..(i - 1) : j \notin Hits(n)) =>
              RuleVerdict(n) = ActionOf(Rules[i].action)
         /\ Hits(n) = {} => RuleVerdict(n) = ActionOf(DefaultAction)
<1> SUFFICES ASSUME NEW n
             PROVE  /\ RuleVerdict(n) \in Actions
                    /\ \A i \in Hits(n) : (\A j \in 1..(i - 1) : j \notin Hits(n)) =>
                         RuleVerdict(n) = ActionOf(Rules[i].action)
                    /\ Hits(n) = {} => RuleVerdict(n) = ActionOf(DefaultAction)
  OBVIOUS
<1>1. \A word : ActionOf(word) \in Actions
  BY DEF ActionOf, Actions
<1>2. CASE Hits(n) = {}
  BY <1>1, <1>2 DEF RuleVerdict
<1>3. CASE Hits(n) # {}
  <2>1. PICK m \in Hits(n) : /\ \A j \in Hits(n) : m <= j
                             /\ RuleVerdict(n) = ActionOf(Rules[m].action)
    BY <1>3, FirstHit
  <2>2. ASSUME NEW i \in Hits(n), \A j \in 1..(i - 1) : j \notin Hits(n)
        PROVE  i = m
    <3>1. /\ Hits(n) \subseteq 1..Len(Rules)
          /\ Len(Rules) \in Nat
      BY RuleConstants DEF Hits
    <3>2. m \notin 1..(i - 1) /\ m <= i
      BY <2>1, <2>2
    <3> QED
      BY <2>1, <3>1, <3>2
  <2> QED
    BY <1>1, <1>3, <2>1, <2>2
<1> QED
  BY <1>2, <1>3

(* A name of a closed server is denied: the first rule that matches it is  *)
(* one of those that close the server.                                     *)
LEMMA ClosedDenied ==
  ASSUME NEW s, Closed(s), NEW n \in NamesOf(s) PROVE RuleVerdict(n) = "deny"
<1>1. PICK i \in DOMAIN Rules :
        /\ Rules[i].match # NoPattern /\ NamesOf(s) \subseteq Glob[Rules[i].match]
        /\ \A j \in 1..i : Lower[Rules[j].action] = "deny"
             \/ Rules[j].match = NoPattern \/ Glob[Rules[j].match] \cap NamesOf(s) = {}
  BY DEF Closed
<1>2. i \in Hits(n)
  BY <1>1 DEF Hits, Matches
<1>3. PICK m \in Hits(n) : /\ \A j \in Hits(n) : m <= j
                          /\ RuleVerdict(n) = ActionOf(Rules[m].action)
  BY <1>2, FirstHit
<1>4. m \in 1..i
  BY <1>2, <1>3, RuleConstants DEF Hits
<1>5. Rules[m].match # NoPattern /\ n \in Glob[Rules[m].match]
  BY <1>3 DEF Hits, Matches
<1>6. Lower[Rules[m].action] = "deny"
  BY <1>1, <1>4, <1>5
<1> QED
  BY <1>3, <1>6 DEF ActionOf, Actions
------------------------------------------------------------------------------
(* The invariant.                                                          *)

LEMMA InitialState == Init => IInv
<1> SUFFICES ASSUME Init PROVE IInv
  OBVIOUS
<1>1. Len(Servers) \in Nat
  BY RouterConstants
<1>2. DOMAIN tool_map = {}
  BY DEF Init
<1> QED
  BY <1>1, <1>2 DEF Init, IInv, TypeOK, TableSound, SentSound

LEMMA InvariantStep ==
  ASSUME IInv, [Next]_vars PROVE IInv'
<1> USE DEF IInv
<1>0. Len(Servers) \in Nat /\ Listed \subseteq Routes
  BY RouterConstants DEF Listed, Routes
<1>1. ASSUME UNCHANGED <<tool_map, listing, catalogue, sent>>,
             main' \in {"idle", "exited", "starting"}, next' \in 1..(Len(Servers) + 1)
      PROVE  IInv'
  BY <1>1 DEF TypeOK, TableSound, SentSound
<1>2. CASE StartServer
  BY <1>0, <1>1, <1>2 DEF StartServer, Last, TypeOK
<1>3. CASE StartFails \/ Serve
  BY <1>1, <1>3 DEF StartFails, Serve, TypeOK
<1>4. CASE BeginListing
  <2>1. DOMAIN tool_map' = {}
    BY <1>4 DEF BeginListing
  <2> QED
    BY <1>0, <1>4, <2>1 DEF BeginListing, TypeOK, TableSound, SentSound
<1>5. ASSUME NEW ts \in SUBSET ToolNames, ListServer(ts) PROVE IInv'
  <2>1. Servers[next] \in ServerNames /\ next + 1 \in 1..(Len(Servers) + 1)
    BY <1>0, <1>5, RouterConstants DEF ListServer, Last, TypeOK, ServerNames
  <2>2. TableSound'
    BY <1>5, <2>1, WithToolsSound DEF ListServer, TableSound
  <2>3. listing' \subseteq Listed
    BY <1>5, <2>1 DEF ListServer, Listed
  <2> QED
    BY <1>0, <1>5, <2>1, <2>2, <2>3 DEF ListServer, TypeOK, TableSound, SentSound
<1>6. ASSUME NEW ts \in SUBSET ToolNames, ListingFails(ts) PROVE IInv'
  <2>1. Servers[next] \in ServerNames
    BY <1>0, <1>6, RouterConstants DEF ListingFails, Last, TypeOK, ServerNames
  <2>2. TableSound'
    BY <1>6, <2>1, WithToolsSound DEF ListingFails, TableSound
  <2> QED
    BY <1>0, <1>6, <2>2 DEF ListingFails, TypeOK, TableSound, SentSound
<1>7. CASE EndListing
  BY <1>7 DEF EndListing, TypeOK, TableSound, SentSound
<1>8. ASSUME NEW n \in CallNames, Call(n) PROVE IInv'
  <2>1. Route(n) \in Routes /\ n \in NamesOf(Route(n).server) /\ RuleVerdict(n) # "deny"
    BY <1>8, RouteBegins DEF Call
  <2>2. sent' = sent \cup {[name |-> n, route |-> Route(n)]}
        /\ UNCHANGED <<main, next, tool_map, listing, catalogue>>
    BY <1>8 DEF Call
  <2>3. SentSound'
    BY <2>1, <2>2 DEF SentSound
  <2> QED
    BY <2>1, <2>2, <2>3 DEF TypeOK, TableSound
<1>9. CASE UNCHANGED vars
  BY <1>9 DEF vars, TypeOK, TableSound, SentSound
<1> QED
  BY <1>2, <1>3, <1>4, <1>5, <1>6, <1>7, <1>8, <1>9 DEF Next

THEOREM Inductive == Spec => []IInv
BY InitialState, InvariantStep, PTL DEF Spec

(* Every reachable state of the router is well typed. *)
THEOREM RouterTyped == Spec => []TypeOK
<1>1. IInv => TypeOK
  BY DEF IInv
<1> QED
  BY <1>1, Inductive, PTL

(* A server all of whose names are denied is never called, whatever the    *)
(* servers are called: rules.py:33-38 before router.py:46-60.              *)
THEOREM ClosedStaysClosed == Spec => []ClosedServersUntouched
<1>1. IInv => ClosedServersUntouched
  BY ClosedDenied DEF IInv, SentSound, ClosedServersUntouched
<1> QED
  BY <1>1, Inductive, PTL

(* The name a tool was listed under leads to it for good, if no server's   *)
(* name has a colon (router.py:25-60; without that, see the run collision).*)
THEOREM RoutesCorrect == ASSUME ColonFree PROVE Spec => []CorrectRoute
<1>1. IInv => CorrectRoute
  BY TableIsCache, ParseInvertsName DEF IInv, CorrectRoute
<1> QED
  BY <1>1, Inductive, PTL

(* Rebuilding the table, or failing to, changes no route under the same    *)
(* condition.                                                              *)
THEOREM RoutesStable == ASSUME ColonFree PROVE Spec => RouteStable
<1>1. ASSUME IInv, IInv' PROVE \A n \in CallNames : Route(n)' = Route(n)
  <2>1. TableSound /\ TableSound'
    BY <1>1 DEF IInv
  <2>2. \A n : Route(n) = ParseName(n)
    BY <2>1, TableIsCache
  <2>3. \A n : Route(n)' = ParseName(n)
    BY <2>1, ParseInvertsName DEF Route, TableSound
  <2> QED
    BY <2>2, <2>3
<1> QED
  BY <1>1, Inductive, PTL DEF RouteStable
==============================================================================
