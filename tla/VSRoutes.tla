------------------------------ MODULE VSRoutes ------------------------------
(***************************************************************************)
(* How the routes of a VirtualServer, and the subroutes of the             *)
(* VirtualServerRoutes attached to it, become NGINX configuration:         *)
(* validation (pkg/apis/configuration/validation/virtualserver.go), the    *)
(* attachment of VirtualServerRoutes (configuration.go) and the two loops  *)
(* of GenerateVirtualServerConfig (internal/configs/virtualserver.go),     *)
(* one step per route.  Module VSServed compares what NGINX makes of the   *)
(* result with what the objects say.                                       *)
(*                                                                         *)
(* A generated name is a record of its kind and the parts of the name:     *)
(* Variable(<<"split", n>>) is $vs_..._splits_n, <<"cond", m, i, j>> and   *)
(* <<"main", m>> are the variables of matches route m, NamedLocation of    *)
(* <<"errorpage", n, i>> is @error_page_n_i and of <<"return", n>> is      *)
(* @return_n.  A path or URI is a sequence of chunks, so that one string   *)
(* being a prefix of another is IsPrefix.                                  *)
(***************************************************************************)
EXTENDS Integers, FiniteSets, Sequences, SequencesExt

CONSTANTS Inputs,       \* the [vs, vsrs] pairs the API server may hold
          Requests,     \* the requests a client may send
          SnippetDefault, \* the location-snippets of the ConfigMap
          EnableSnippets, \* -enable-snippets
          Nil           \* a pointer or slice that is not set

VARIABLES in,           \* the VirtualServer and the VirtualServerRoutes
          phase,        \* where GenerateVirtualServerConfig is
          attached,     \* vsEx.VirtualServerRoutes
          todo,         \* the (sub)routes the loops have not reached yet
          fromVS,       \* vsrErrorPagesFromVs, ...RouteIndex, vsrLocationSnippetsFromVs
          cfg,          \* the VirtualServerConfig so far
          matchesRoutes \* the number of routes with matches so far

vars == <<in, phase, attached, todo, fromVS, cfg, matchesRoutes>>

-----------------------------------------------------------------------------
(* Validation *)

UpstreamNames(o) == Range(o.upstreams)

\* A redirect or return code that is not set is 0.
ValidAction(a, ups) ==
  \/ a.kind \in {"pass", "proxy"} /\ a.to \in ups
  \/ a.kind = "redirect" /\ a.to # "" /\ a.code \in {0, 301, 302, 307, 308}
  \/ a.kind = "return" /\ a.to # "" /\ a.code \in {0} \cup (200..299) \cup (400..599)

ValidSplits(s, ups) ==
  /\ Len(s) >= 2
  /\ \A i \in DOMAIN s : s[i].weight \in 1..99 /\ ValidAction(s[i].action, ups)
  /\ FoldSeq(LAMBDA x, y : x.weight + y, 0, s) = 100

\* The sources (header, cookie, argument, variable) a condition names: one.
ValidCondition(c) == Cardinality(c.on) = 1

ExactlyOne(r) == (r.action # Nil) # (r.splits # <<>>)

ValidMatch(m, ups) ==
  /\ m.conditions # <<>>
  /\ \A j \in DOMAIN m.conditions : ValidCondition(m.conditions[j])
  /\ m.action # Nil => ValidAction(m.action, ups)
  /\ m.splits # <<>> => ValidSplits(m.splits, ups)
  /\ ExactlyOne(m)

ValidErrorPage(e) ==
  /\ e.codes # {} /\ e.codes \subseteq 300..599
  /\ ValidAction(e, {}) /\ e.kind \in {"redirect", "return"}

ErrorPagesOf(r) == IF r.pages = Nil THEN <<>> ELSE r.pages

\* validateRoute; a subroute may not reference a VirtualServerRoute.
ValidRoute(r, ups, forbidRef) ==
  /\ r.action # Nil => ValidAction(r.action, ups)
  /\ r.splits # <<>> => ValidSplits(r.splits, ups)
  /\ \A i \in DOMAIN r.matches : ValidMatch(r.matches[i], ups)
  /\ \A i \in DOMAIN ErrorPagesOf(r) : ValidErrorPage(ErrorPagesOf(r)[i])
  /\ r.ref # Nil => ~forbidRef
  /\ Cardinality({f \in 1..3 : <<r.action # Nil, r.splits # <<>>, r.ref # Nil>>[f]}) = 1

UniquePaths(routes) ==
  \A i, j \in DOMAIN routes : routes[i].path = routes[j].path => i = j

ValidateVirtualServer(vs) ==
  /\ IsInjective(vs.upstreams)
  /\ \A i \in DOMAIN vs.routes : ValidRoute(vs.routes[i], UpstreamNames(vs), FALSE)
  /\ UniquePaths(vs.routes)

IsRegexOrExactMatch(p) == p.kind \in {"regex", "exact"}

\* A prefix subroute must start with the path of the route; a regex or exact
\* route takes exactly one subroute, of the same path.
ValidateVirtualServerRouteForVirtualServer(vsr, vsPath) ==
  /\ IsInjective(vsr.upstreams)
  /\ \A i \in DOMAIN vsr.subroutes : ValidRoute(vsr.subroutes[i], UpstreamNames(vsr), TRUE)
  /\ UniquePaths(vsr.subroutes)
  /\ IF IsRegexOrExactMatch(vsPath)
       THEN Len(vsr.subroutes) = 1 /\ vsr.subroutes[1].path = vsPath
       ELSE \A i \in DOMAIN vsr.subroutes :
              \/ IsPrefix(vsPath.segs, vsr.subroutes[i].path.segs)
              \/ IsRegexOrExactMatch(vsr.subroutes[i].path)

\* buildVirtualServerRoutes: the referenced VirtualServerRoutes that exist and
\* fit, in the order of the routes that reference them.
BuildVirtualServerRoutes(vs, vsrs) ==
  LET Fits(r) == /\ r.ref \in DOMAIN vsrs
                 /\ ValidateVirtualServerRouteForVirtualServer(vsrs[r.ref], r.path)
      refs == SelectSeq(vs.routes, LAMBDA r : r.ref # Nil /\ Fits(r))
  IN [i \in DOMAIN refs |-> refs[i].ref]

-----------------------------------------------------------------------------
(* Generation *)

\* What a map, a split client or a redirect can yield: a variable, the name
\* of an internal or of a named location, a text.
Variable(name) == [kind |-> "variable", segs |-> name]
InternalPath(name) == [kind |-> "internal", segs |-> name]
NamedLocation(name) == [kind |-> "named", segs |-> name]
Text(t) == [kind |-> "text", segs |-> t]

\* The upstream namer: the owner ("vs" or the key of the VirtualServerRoute)
\* and the name of the upstream within it.
GetNameForUpstreamFromAction(owner, a) == <<owner, a.to>>

GenerateErrorPageLocations(n, pages) ==
  LET named == {i \in DOMAIN pages : pages[i].kind = "return"}
      order == SetToSortSeq(named, <)
  IN [k \in DOMAIN order |-> [name |-> NamedLocation(<<"errorpage", n, order[k]>>), body |-> pages[order[k]].to]]

GenerateErrorPages(n, pages) ==
  [i \in DOMAIN pages |->
     [codes |-> pages[i].codes,
      code  |-> IF pages[i].kind = "redirect" /\ pages[i].code = 0 THEN 301 ELSE pages[i].code,
      name  |-> IF pages[i].kind = "redirect" THEN Text(pages[i].to)
                ELSE NamedLocation(<<"errorpage", n, i>>)]]

\* A rewrite directive: the pattern is a path, Nil for ^.  Only the regex
\* markers are trimmed from the path, so the "=" of an exact one stays in the
\* pattern; `tail' says the pattern ends in (.*)$ and keeps the rest as $1.
GenerateRewrites(a, internal, originalPath) ==
  IF a.kind # "proxy" \/ a.rewrite = Nil THEN <<>>
  ELSE (IF internal THEN <<[pattern |-> Nil, to |-> Nil, tail |-> FALSE]>> ELSE <<>>) \o
       (IF originalPath.kind = "regex"
          THEN <<[pattern |-> originalPath, to |-> a.rewrite, tail |-> FALSE]>>
          ELSE IF internal
            THEN <<[pattern |-> originalPath, to |-> a.rewrite, tail |-> TRUE]>>
            ELSE <<>>)

GenerateProxyPassRewrite(path, a, internal) ==
  IF a.kind = "proxy" /\ ~internal /\ path.kind \in {"prefix", "exact"} THEN a.rewrite ELSE Nil

\* proxy_pass ends in $request_uri.
GenerateProxyPass(a, internal) == internal /\ (a.kind # "proxy" \/ a.rewrite = Nil)

GenerateSnippets(s) == IF ~EnableSnippets \/ s = "" THEN SnippetDefault ELSE s

\* generateLocation: the location and, for a return action, its named location.
\* ctx is [owner, path, pages, pagesIndex, snippet].
GenerateLocation(path, a, ctx, internal, retIndex) ==
  LET loc == [path |-> path, internal |-> internal, snippet |-> GenerateSnippets(ctx.snippet),
              upstream |-> Nil, requestURI |-> FALSE, passRewrite |-> Nil, rewrites |-> <<>>,
              pages |-> <<>>]
  IN CASE a.kind = "redirect" ->
            [loc |-> [loc EXCEPT !.internal = FALSE,
                        !.pages = <<[codes |-> {418}, name |-> Text(a.to),
                                     code |-> IF a.code = 0 THEN 301 ELSE a.code]>>],
             ret |-> <<>>]
       [] a.kind = "return" ->
            [loc |-> [loc EXCEPT !.internal = FALSE, !.snippet = SnippetDefault,
                        !.pages = <<[codes |-> {418}, name |-> NamedLocation(<<"return", retIndex>>),
                                     code |-> IF a.code = 0 THEN 200 ELSE a.code]>>],
             ret |-> <<[name |-> NamedLocation(<<"return", retIndex>>), body |-> a.to]>>]
       [] OTHER ->
            [loc |-> [loc EXCEPT !.upstream = GetNameForUpstreamFromAction(ctx.owner, a),
                        !.requestURI = GenerateProxyPass(a, internal),
                        !.passRewrite = GenerateProxyPassRewrite(path, a, internal),
                        !.rewrites = GenerateRewrites(a, internal, ctx.path),
                        !.pages = GenerateErrorPages(ctx.pagesIndex, ctx.pages)],
             ret |-> <<>>]

NoRouting == [maps |-> <<>>, mains |-> <<>>, splits |-> <<>>, locs |-> <<>>, rets |-> <<>>]

\* Mutant: the @return_ locations of the same route are not counted.
Bug_ReturnsNotCounted(cf, path, a, ctx, internal, retIndex) ==
  LET g == GenerateLocation(path, a, ctx, internal, retIndex)
  IN [cf EXCEPT !.locs = Append(@, g.loc), !.rets = @ \o g.ret]

\* Append one more location, numbering its @return_ after the ones before.
AddLocation(cf, path, a, ctx, internal, retIndex) ==
  LET g == GenerateLocation(path, a, ctx, internal, retIndex + Len(cf.rets))
  IN [cf EXCEPT !.locs = Append(@, g.loc), !.rets = @ \o g.ret]

\* generateSplits, appended to cf: split client n and one internal location
\* per split.
GenerateSplits(cf, splits, ctx, n, retIndex) ==
  LET Path(i) == InternalPath(<<"split", n, i>>)
      sc == [variable |-> Variable(<<"split", n>>),
             dist |-> [i \in DOMAIN splits |-> [weight |-> splits[i].weight, path |-> Path(i)]]]
      add[i \in 0..Len(splits)] ==
        IF i = 0 THEN [cf EXCEPT !.splits = Append(@, sc)]
        ELSE AddLocation(add[i - 1], Path(i), splits[i].action, ctx, TRUE, retIndex)
  IN add[Len(splits)]

GenerateDefaultSplitsConfig(r, ctx, scIndex, retIndex) ==
  [routing |-> GenerateSplits(NoRouting, r.splits, ctx, scIndex, retIndex),
   destination |-> Variable(<<"split", scIndex>>)]

\* generateParametersForMatchesRouteMap.  A value NGINX would take for a
\* keyword of map is escaped.
SpecialMapParameters == {"default", "hostnames", "include", "volatile"}

\* Mutant: the keywords of map are not escaped.
Bug_NotEscaped(text) == [escaped |-> FALSE, text |-> text]

MapValue(text) == [escaped |-> text \in SpecialMapParameters, text |-> text]
DefaultParam == [escaped |-> FALSE, text |-> "default"]

GenerateParameters(value, success) ==
  <<[value |-> MapValue(value.text), result |-> IF value.neg THEN Text("0") ELSE success],
    [value |-> DefaultParam,         result |-> IF value.neg THEN success ELSE Text("0")]>>

\* The maps of the conditions of match i, each chained to the next.
ConditionMaps(m, index, i) ==
  [j \in DOMAIN m.conditions |->
     [variable |-> Variable(<<"cond", index, i, j>>),
      source |-> CHOOSE s \in m.conditions[j].on : TRUE,
      params |-> GenerateParameters(m.conditions[j].value,
                   IF j < Len(m.conditions) THEN Variable(<<"cond", index, i, j + 1>>)
                                            ELSE Text("1"))]]

\* The number of split clients of the first k matches.
SplitsBefore(r, k) == Cardinality({i \in 1..k : r.matches[i].splits # <<>>})

\* Where match i, or the default when i is one past the matches, is served.
MatchResult(r, index, scIndex, i) ==
  LET n == Len(r.matches)
      splits == IF i <= n THEN r.matches[i].splits ELSE r.splits
  IN IF splits # <<>> THEN Variable(<<"split", scIndex + SplitsBefore(r, i - 1)>>)
     ELSE InternalPath(IF i <= n THEN <<"match", index, i>> ELSE <<"matchdefault", index>>)

\* The main map: its source concatenates the first conditions' variables, and
\* its i-th parameter is the regex of i - 1 zeros and a one.
MainMap(r, index, scIndex) ==
  [variable |-> Variable(<<"main", index>>),
   source   |-> [i \in DOMAIN r.matches |-> Variable(<<"cond", index, i, 1>>)],
   results  |-> [i \in DOMAIN r.matches |-> MatchResult(r, index, scIndex, i)],
   default  |-> MatchResult(r, index, scIndex, Len(r.matches) + 1)]

GenerateMatchesConfig(r, ctx, index, scIndex, retIndex) ==
  LET n == Len(r.matches)
      Part(i) == IF i <= n THEN r.matches[i] ELSE r
      add[i \in 0..(n + 1)] ==
        IF i = 0
        THEN [NoRouting EXCEPT
                !.maps = FlattenSeq([k \in 1..n |-> ConditionMaps(r.matches[k], index, k)]),
                !.mains = <<MainMap(r, index, scIndex)>>]
        ELSE IF Part(i).splits # <<>>
          THEN GenerateSplits(add[i - 1], Part(i).splits, ctx,
                              scIndex + SplitsBefore(r, i - 1), retIndex)
          ELSE AddLocation(add[i - 1], MatchResult(r, index, scIndex, i), Part(i).action,
                           ctx, TRUE, retIndex)
  IN [routing |-> add[n + 1], destination |-> Variable(<<"main", index>>)]

\* What one iteration of either loop adds to the configuration.
RouteConfig(r, ctx) ==
  LET sc == Len(cfg.splits)
      ret == Len(cfg.rets)
      gen == CASE r.matches # <<>> -> GenerateMatchesConfig(r, ctx, matchesRoutes, sc, ret)
               [] r.matches = <<>> /\ r.splits # <<>> -> GenerateDefaultSplitsConfig(r, ctx, sc, ret)
               [] OTHER -> [routing |-> AddLocation(NoRouting, r.path, r.action, ctx, FALSE, ret),
                            destination |-> Nil]
      irl == IF gen.destination = Nil THEN <<>>
             ELSE <<[path |-> r.path, destination |-> gen.destination]>>
  IN [cfg EXCEPT !.maps = @ \o gen.routing.maps, !.mains = @ \o gen.routing.mains,
                 !.splits = @ \o gen.routing.splits,
                 !.locs = @ \o gen.routing.locs, !.rets = @ \o gen.routing.rets,
                 !.irls = @ \o irl,
                 !.errorPages = @ \o GenerateErrorPageLocations(Len(@), ErrorPagesOf(r))]

-----------------------------------------------------------------------------
(* The state machine *)

NoConfig == [upstreams |-> <<>>, maps |-> <<>>, mains |-> <<>>, splits |-> <<>>,
             locs |-> <<>>, irls |-> <<>>, rets |-> <<>>, errorPages |-> <<>>]

Init ==
  /\ in \in Inputs
  /\ phase = "validate"
  /\ attached = <<>> /\ todo = <<>>
  /\ fromVS = [k \in DOMAIN in.vsrs |-> [pages |-> Nil, index |-> 0, snippet |-> ""]]
  /\ cfg = NoConfig
  /\ matchesRoutes = 0

Named(owner, o) == [i \in DOMAIN o.upstreams |-> <<owner, o.upstreams[i]>>]

\* The object is validated, its VirtualServerRoutes are attached, and the
\* upstreams of all of them are generated before the loop over the routes.
Start ==
  /\ phase = "validate"
  /\ IF ValidateVirtualServer(in.vs)
       THEN LET keys == BuildVirtualServerRoutes(in.vs, in.vsrs)
            IN /\ phase' = "routes"
               /\ attached' = keys
               /\ todo' = in.vs.routes
               /\ cfg' = [cfg EXCEPT !.upstreams = Named("vs", in.vs) \o
                    FlattenSeq([i \in DOMAIN keys |-> Named(keys[i], in.vsrs[keys[i]])])]
       ELSE phase' = "rejected" /\ UNCHANGED <<attached, todo, cfg>>
  /\ UNCHANGED <<in, fromVS, matchesRoutes>>

\* One iteration of the loop over the routes of the VirtualServer.
VSRoute ==
  /\ phase = "routes" /\ todo # <<>>
  /\ LET r == Head(todo)
         n == Len(cfg.errorPages)
         ctx == [owner |-> "vs", path |-> r.path, pages |-> ErrorPagesOf(r),
                 pagesIndex |-> n, snippet |-> r.snippet]
     IN IF r.ref # Nil
        THEN /\ fromVS' = IF r.ref \notin DOMAIN fromVS THEN fromVS
                ELSE [fromVS EXCEPT ![r.ref] =
                  [snippet |-> IF r.snippet # "" THEN r.snippet ELSE @.snippet,
                   pages |-> IF ErrorPagesOf(r) # <<>> THEN r.pages ELSE @.pages,
                   index |-> IF ErrorPagesOf(r) # <<>> THEN n ELSE @.index]]
             /\ cfg' = [cfg EXCEPT !.errorPages =
                          @ \o GenerateErrorPageLocations(n, ErrorPagesOf(r))]
             /\ UNCHANGED matchesRoutes
        ELSE /\ cfg' = RouteConfig(r, ctx)
             /\ matchesRoutes' = matchesRoutes + (IF r.matches # <<>> THEN 1 ELSE 0)
             /\ UNCHANGED fromVS
  /\ todo' = Tail(todo)
  /\ UNCHANGED <<in, phase, attached>>

\* The second loop runs over the subroutes of every attached VirtualServerRoute.
Subroutes ==
  /\ phase = "routes" /\ todo = <<>>
  /\ phase' = "subroutes"
  /\ todo' = FlattenSeq([i \in DOMAIN attached |->
               LET vsr == in.vsrs[attached[i]]
               IN [j \in DOMAIN vsr.subroutes |-> [key |-> attached[i], route |-> vsr.subroutes[j]]]])
  /\ UNCHANGED <<in, attached, fromVS, cfg, matchesRoutes>>

\* One iteration of it: error pages that are nil and snippets that are empty
\* come from the route that references the VirtualServerRoute.
VSRSubroute ==
  /\ phase = "subroutes" /\ todo # <<>>
  /\ LET r == Head(todo).route
         key == Head(todo).key
         inherit == r.pages = Nil /\ fromVS[key].pages # Nil
         ctx == [owner |-> key, path |-> r.path,
                 pages |-> IF inherit THEN fromVS[key].pages ELSE ErrorPagesOf(r),
                 pagesIndex |-> IF inherit THEN fromVS[key].index ELSE Len(cfg.errorPages),
                 snippet |-> IF r.snippet = "" THEN fromVS[key].snippet ELSE r.snippet]
     IN /\ cfg' = RouteConfig(r, ctx)
        /\ matchesRoutes' = matchesRoutes + (IF r.matches # <<>> THEN 1 ELSE 0)
  /\ todo' = Tail(todo)
  /\ UNCHANGED <<in, phase, attached, fromVS>>

Finish ==
  /\ phase = "subroutes" /\ todo = <<>>
  /\ phase' = "done"
  /\ UNCHANGED <<in, attached, todo, fromVS, cfg, matchesRoutes>>

Next == Start \/ VSRoute \/ Subroutes \/ VSRSubroute \/ Finish

Spec == Init /\ [][Next]_vars
=============================================================================
