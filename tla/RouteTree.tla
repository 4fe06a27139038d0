------------------------------ MODULE RouteTree ------------------------------
(***************************************************************************)
(* http/httpserver.cpp, PrefixTree: the routes of one method, with route   *)
(* groups that put a prefix and middleware in front.                       *)
(*                                                                         *)
(* A segment is [k |-> "s", v |-> name] for a literal one, "p" for :name   *)
(* and "w" for *name.  A node of the tree is the sequence of edges from    *)
(* the root, an edge being the literal, or the only :, or the only * child *)
(* of a node.  splitPath() drops empty segments, so paths are sequences of *)
(* segments here and JoinPath() is concatenation.                          *)
(***************************************************************************)
EXTENDS Naturals, Sequences, FiniteSets, FiniteSetsExt, SequencesExt, TLC

CONSTANTS Group,      \* route groups: records with prefix and middleware
          Route,      \* patterns a program registers in them
          Path,       \* requested paths: sequences of literals
          MaxRoutes   \* bound: registrations

VARIABLES names,    \* node -> paramName or wildcardName ("" for literals)
          handles,  \* end nodes -> their handlers
          added     \* registrations so far, in order

treeVars == <<names, handles, added>>

Wild(seg) == seg.k = "w"
EdgeOf(seg) == IF seg.k = "s" THEN <<"s", seg.v>> ELSE <<seg.k>>

\* The pattern up to its first wildcard: __insert() stops there.
Cut(route) ==
  LET wilds == {i \in DOMAIN route : Wild(route[i])}
  IN  IF wilds = {} THEN route ELSE SubSeq(route, 1, Min(wilds))

NodeOf(route) == [i \in DOMAIN Cut(route) |-> EdgeOf(Cut(route)[i])]

Init == /\ names = (<<>> :> "")
        /\ handles = [n \in {} |-> <<>>]
        /\ added = <<>>

----------------------------------------------------------------------------
(* Registration *)

\* Bug: a pattern registered again replaces the handlers it had.
HandlesReplaced(node, chain) == (node :> chain) @@ handles

\* The handlers of a pattern registered again are appended.
HandlesWith(node, chain) ==
  (node :> (IF node \in DOMAIN handles THEN handles[node] ELSE <<>>) \o chain)
  @@ handles

\* __insert(): new nodes take the name of the pattern that creates them.
Insert(route, chain) ==
  LET node == NodeOf(route)
      new  == {i \in DOMAIN node : SubSeq(node, 1, i) \notin DOMAIN names}
  IN  /\ names' = [n \in {SubSeq(node, 1, i) : i \in new} |->
                     IF Cut(route)[Len(n)].k = "s" THEN "" ELSE Cut(route)[Len(n)].v]
                  @@ names
      /\ handles' = HandlesWith(node, chain)

\* Group::Register: the group's middleware, then the route's own handler.
Register(g, r) ==
  /\ Len(added) < MaxRoutes
  /\ LET full  == g.prefix \o r
         chain == Append(g.middleware, Len(added) + 1)
     IN  /\ Insert(full, chain)
         /\ added' = Append(added, [route |-> full, chain |-> chain])

Next == \E g \in Group, r \in Route : Register(g, r)

----------------------------------------------------------------------------
(* dfsMatch *)

Put(params, n, v) == {b \in params : b[1] # n} \union {<<n, v>>}
Erase(params, n) == {b \in params : b[1] # n}
NoMatch(params) == [ok |-> FALSE, node |-> <<>>, params |-> params]

\* Parameters bound so far: names with the segments they stand for.
Params == SUBSET (STRING \X Seq(STRING))

\* Literal child first, then the : child with backtracking, then the * child.
DfsMatch(path) ==
  LET dfs[node \in DOMAIN names, idx \in 1..Len(path) + 1, params \in Params] ==
        LET wild    == Append(node, <<"w">>)
            literal == Append(node, <<"s", path[idx]>>)
            param   == Append(node, <<"p">>)
            found(n, ps) == [ok |-> TRUE, node |-> n, params |-> ps]
            asWild(ps) == IF wild \in DOMAIN handles
                          THEN found(wild, Put(ps, names[wild],
                                               SubSeq(path, idx, Len(path))))
                          ELSE NoMatch(ps)
            asParam(ps) ==
              IF param \notin DOMAIN names THEN asWild(ps)
              ELSE LET m == dfs[param, idx + 1, Put(ps, names[param], <<path[idx]>>)]
                   IN  IF m.ok THEN m ELSE asWild(Erase(m.params, names[param]))
        IN  IF idx > Len(path)
            THEN IF node \in DOMAIN handles THEN found(node, params) ELSE asWild(params)
            ELSE IF literal \notin DOMAIN names THEN asParam(params)
            ELSE LET m == dfs[literal, idx + 1, params]
                 IN  IF m.ok THEN m ELSE asParam(m.params)
  IN  dfs

Match(path) == DfsMatch(path)[<<>>, 1, {}]

----------------------------------------------------------------------------
(* Reference: which registered pattern a path belongs to. *)

Fits(node, path) ==
  LET n == Len(node)
  IN  \/ /\ n = Len(path)
         /\ \A i \in 1..n : node[i] \in {<<"s", path[i]>>, <<"p">>}
      \/ /\ n > 0 /\ n <= Len(path) + 1
         /\ node[n] = <<"w">>
         /\ \A i \in 1..(n - 1) : node[i] \in {<<"s", path[i]>>, <<"p">>}

Rank(e) == CASE e[1] = "s" -> 1 [] e[1] = "p" -> 2 [] OTHER -> 3

\* a is preferred to b: the better edge where they first differ; a pattern
\* that ends at the path's end before one that goes on with *.
Preferred(a, b) ==
  \/ IsStrictPrefix(a, b)
  \/ \E i \in DOMAIN a \intersect DOMAIN b :
       /\ \A j \in 1..(i - 1) : a[j] = b[j]
       /\ Rank(a[i]) < Rank(b[i])

Registered == {NodeOf(added[k].route) : k \in DOMAIN added}
Candidates(path) == {n \in Registered : Fits(n, path)}

Bindings(node, path) ==
  {<<names[SubSeq(node, 1, i)],
     IF node[i] = <<"w">> THEN SubSeq(path, i, Len(path)) ELSE <<path[i]>>>> :
     i \in {j \in DOMAIN node : node[j] # <<"s", node[j][Len(node[j])]>>}}

Chains(node) == FlattenSeq([k \in DOMAIN SelectSeq(added, LAMBDA a : NodeOf(a.route) = node) |->
                  SelectSeq(added, LAMBDA a : NodeOf(a.route) = node)[k].chain])

\* The search with backtracking finds a route exactly when one fits, and then
\* the preferred one, with its own parameters and none left over from the
\* branches given up, and with the middleware and handlers in their order.
MatchIsBest ==
  \A path \in Path :
    LET m == Match(path)
    IN  /\ m.ok <=> Candidates(path) # {}
        /\ m.ok => /\ m.node \in Candidates(path)
                   /\ \A n \in Candidates(path) : n = m.node \/ Preferred(m.node, n)
                   /\ m.params = Bindings(m.node, path)
                   /\ handles[m.node] = Chains(m.node)
==============================================================================
