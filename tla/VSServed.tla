------------------------------ MODULE VSServed ------------------------------
(***************************************************************************)
(* What a client gets from the configuration that VSRoutes generates: how  *)
(* NGINX reads locations, maps, split_clients, rewrites and error pages    *)
(* (external), what the VirtualServer and its VirtualServerRoutes say, and *)
(* the properties that compare the two.                                    *)
(***************************************************************************)
EXTENDS VSRoutes

-----------------------------------------------------------------------------
(* NGINX reading the configuration (external) *)

PathMatches(p, uri) ==
  IF p.kind = "exact" THEN p.segs = uri ELSE IsPrefix(p.segs, uri)

\* An exact location wins, then a regex, then the longest prefix.
Selected(paths, uri) ==
  LET Of(k) == {p \in paths : p.kind = k /\ PathMatches(p, uri)}
  IN IF Of("exact") # {} THEN Of("exact")
     ELSE IF Of("regex") # {} THEN Of("regex")
     ELSE {p \in Of("prefix") : \A q \in Of("prefix") : Len(q.segs) <= Len(p.segs)}

\* The bucket of split_clients a hash in 1..100 falls into, 0 if none.
Bucket(weights, hash) ==
  LET Sum(i) == FoldSeq(LAMBDA x, y : x + y, 0, SubSeq(weights, 1, i))
      above == {i \in DOMAIN weights : Sum(i) >= hash}
  IN IF above = {} THEN 0 ELSE Min(above)

IsKeyword(v) == ~v.escaped /\ v.text \in SpecialMapParameters

\* The value of one map: the parameter equal to the source, else the default.
MapResult(m, req) ==
  LET hit == {p \in Range(m.params) : ~IsKeyword(p.value) /\ p.value.text = req.vals[m.source]}
      dflt == {p \in Range(m.params) : p.value = DefaultParam}
  IN (CHOOSE p \in (IF hit # {} THEN hit ELSE dflt) : TRUE).result

\* Variables are evaluated until a text is reached.
ConditionResult(c, req, v) ==
  LET follow[n \in 0..Len(c.maps)] ==
        IF n = 0 THEN v
        ELSE IF follow[n - 1].kind # "variable" THEN follow[n - 1]
        ELSE MapResult(CHOOSE m \in Range(c.maps) : m.variable = follow[n - 1], req)
  IN follow[Len(c.maps)]

\* The location the destination of an internal redirect leads to.
Destination(c, req, v) ==
  LET main == {m \in Range(c.mains) : m.variable = v}
      m == CHOOSE x \in main : TRUE
      bits == [i \in DOMAIN m.source |-> ConditionResult(c, req, m.source[i])]
      ones == {i \in DOMAIN bits : bits[i] = Text("1")}
      to == IF main = {} THEN v ELSE IF ones = {} THEN m.default ELSE m.results[Min(ones)]
      sc == {s \in Range(c.splits) : s.variable = to}
      dist == (CHOOSE s \in sc : TRUE).dist
      b == Bucket([i \in DOMAIN dist |-> dist[i].weight], req.hash)
  IN IF sc = {} THEN to ELSE IF b = 0 THEN Nil ELSE dist[b].path

Tail0(p, uri) == SubSeq(uri, Len(p.segs) + 1, Len(uri))

\* The URI the upstream receives.  An exact path in the pattern of a rewrite
\* still has its "=", so the pattern matches no URI.
ProxiedURI(loc, req) ==
  LET Apply(uri, w) ==
        CASE w.pattern = Nil -> req.uri
          [] w.pattern # Nil /\ w.pattern.kind # "exact" /\ IsPrefix(w.pattern.segs, uri) ->
               w.to \o (IF w.tail THEN Tail0(w.pattern, uri) ELSE <<>>)
          [] OTHER -> uri
  IN CASE loc.requestURI -> req.uri
       [] ~loc.requestURI /\ loc.passRewrite # Nil ->
            loc.passRewrite \o (IF loc.path.kind = "prefix" THEN Tail0(loc.path, req.uri) ELSE <<>>)
       [] OTHER -> FoldLeft(Apply, IF loc.internal THEN loc.path.segs ELSE req.uri, loc.rewrites)

\* What the error_page directives of a location do, named locations resolved.
PagesServed(c, pages) ==
  [i \in DOMAIN pages |->
     [codes |-> pages[i].codes, code |-> pages[i].code,
      to |-> IF pages[i].name.kind = "text" THEN {pages[i].name.segs}
             ELSE {e.body : e \in {x \in Range(c.errorPages \o c.rets) : x.name = pages[i].name}}]]

NotFound == [upstream |-> Nil, uri |-> <<>>, snippet |-> "", pages |-> <<>>]

Serve(c, req) ==
  LET paths == {x.path : x \in Range(c.irls)} \cup
               {x.path : x \in {y \in Range(c.locs) : y.path.kind # "internal"}}
      sel == Selected(paths, req.uri)
      p == CHOOSE x \in sel : TRUE
      irl == {x \in Range(c.irls) : x.path = p}
      target == IF irl = {} THEN p ELSE Destination(c, req, (CHOOSE x \in irl : TRUE).destination)
      locs == IF sel = {} THEN {} ELSE {x \in Range(c.locs) : x.path = target}
      loc == CHOOSE x \in locs : TRUE
  IN IF locs = {} THEN NotFound
     ELSE [upstream |-> loc.upstream, snippet |-> loc.snippet, pages |-> PagesServed(c, loc.pages),
           uri |-> IF loc.upstream = Nil THEN <<>> ELSE ProxiedURI(loc, req)]

-----------------------------------------------------------------------------
(* What the objects say *)

\* The routes that are served: the ones of the VirtualServer, and the subroutes
\* of the attached VirtualServerRoutes with the route that references them.
ServedRoutes ==
  {[owner |-> "vs", route |-> r, parent |-> r] : r \in {x \in Range(in.vs.routes) : x.ref = Nil}} \cup
  UNION {{[owner |-> k, route |-> r,
           parent |-> CHOOSE x \in Range(in.vs.routes) : x.ref = k] :
            r \in Range(in.vsrs[k].subroutes)} : k \in Range(attached)}

ConditionHolds(c, req) ==
  (req.vals[CHOOSE s \in c.on : TRUE] = c.value.text) # c.value.neg

MatchHolds(m, req) == \A j \in DOMAIN m.conditions : ConditionHolds(m.conditions[j], req)

\* The action for a request: of the first match that holds, else the route's.
ActionFor(r, req) ==
  LET holds == {i \in DOMAIN r.matches : MatchHolds(r.matches[i], req)}
      part == IF holds = {} THEN r ELSE r.matches[Min(holds)]
  IN IF part.splits = <<>> THEN part.action
     ELSE part.splits[Bucket([i \in DOMAIN part.splits |-> part.splits[i].weight], req.hash)].action

ServedRoute(req) ==
  LET sel == Selected({s.route.path : s \in ServedRoutes}, req.uri)
  IN {s \in ServedRoutes : s.route.path \in sel}

RewrittenURI(path, a, req) ==
  IF a.kind # "proxy" \/ a.rewrite = Nil THEN req.uri
  ELSE a.rewrite \o (IF path.kind = "prefix" THEN Tail0(path, req.uri) ELSE <<>>)

EffectivePages(s) ==
  IF s.route.pages = Nil THEN ErrorPagesOf(s.parent) ELSE s.route.pages

EffectiveSnippet(s) ==
  IF ~EnableSnippets THEN SnippetDefault
  ELSE IF s.route.snippet # "" THEN s.route.snippet
  ELSE IF s.parent.snippet # "" THEN s.parent.snippet ELSE SnippetDefault

Default(code, d) == IF code = 0 THEN d ELSE code

PageWritten(e) ==
  [codes |-> e.codes, code |-> IF e.kind = "redirect" THEN Default(e.code, 301) ELSE e.code,
   to |-> {e.to}]

Written(s, req) ==
  LET a == ActionFor(s.route, req)
      proxied == a.kind \in {"pass", "proxy"}
      pages == EffectivePages(s)
  IN [upstream |-> IF proxied THEN <<s.owner, a.to>> ELSE Nil,
      snippet |-> EffectiveSnippet(s),
      pages |-> IF proxied THEN [i \in DOMAIN pages |-> PageWritten(pages[i])]
                ELSE <<[codes |-> {418}, to |-> {a.to},
                        code |-> Default(a.code, IF a.kind = "redirect" THEN 301 ELSE 200)]>>,
      uri |-> IF proxied THEN RewrittenURI(s.route.path, a, req) ELSE <<>>]

-----------------------------------------------------------------------------
(* Properties *)

IsOnce(f) == \A i, j \in DOMAIN f : f[i] = f[j] => i = j

Paths(c) == [i \in DOMAIN c.irls |-> c.irls[i].path] \o [i \in DOMAIN c.locs |-> c.locs[i].path]

\* NGINX refuses a configuration with two equal locations or upstreams.
Loads(c) == IsOnce(Paths(c)) /\ IsOnce(c.upstreams)

\* A rewrite inside a split or match of an exact path.
ExactRewrite(s, req) ==
  LET a == ActionFor(s.route, req)
  IN /\ s.route.path.kind = "exact" /\ a.kind = "proxy" /\ a.rewrite # Nil
     /\ s.route.splits # <<>> \/ s.route.matches # <<>>

\* Every request is served as the objects say: by the action of the first
\* match whose conditions hold, or the default, in the proportions of its
\* splits, with the error pages and the snippet of the subroute or, if it has
\* none, of the route that references its VirtualServerRoute; the upstream
\* gets the rewritten URI.  Two cases the code treats differently are left
\* out: the rewrite of an exact path in a split or match (RewriteAsWritten),
\* and the snippet of a return action, which is always the ConfigMap's
\* (generateMatchesConfig, generateSplits, generateLocation).
RoutedAsWritten ==
  phase = "done" /\ Loads(cfg) =>
    \A req \in Requests :
      LET got == Serve(cfg, req)
          by == ServedRoute(req)
          s == CHOOSE x \in by : TRUE
          want == Written(s, req)
      IN IF by = {} THEN got = NotFound
         ELSE /\ got.upstream = want.upstream /\ got.pages = want.pages
              /\ got.uri = want.uri \/ ExactRewrite(s, req)
              /\ got.snippet = want.snippet \/ ActionFor(s.route, req).kind = "return"

\* The names a configuration uses are defined by it, at every iteration of the
\* loops, and no generated name is defined twice: variables of maps and split
\* clients, internal locations, @return_ and @error_page_ locations (the
\* indices passed to generateSplits, generateMatchesConfig and
\* generateErrorPageLocations).
NamesDefinedOnce ==
  LET defs == [i \in DOMAIN cfg.maps |-> cfg.maps[i].variable] \o
              [i \in DOMAIN cfg.mains |-> cfg.mains[i].variable] \o
              [i \in DOMAIN cfg.splits |-> cfg.splits[i].variable] \o
              SelectSeq(Paths(cfg), LAMBDA p : p.kind = "internal") \o
              [i \in DOMAIN cfg.rets |-> cfg.rets[i].name] \o
              [i \in DOMAIN cfg.errorPages |-> cfg.errorPages[i].name]
      uses == UNION {{p.result : p \in Range(m.params)} : m \in Range(cfg.maps)} \cup
              UNION {Range(m.source) \cup Range(m.results) \cup {m.default} : m \in Range(cfg.mains)} \cup
              UNION {{d.path : d \in Range(s.dist)} : s \in Range(cfg.splits)} \cup
              {x.destination : x \in Range(cfg.irls)} \cup
              UNION {{p.name : p \in Range(l.pages)} : l \in Range(cfg.locs)}
  IN /\ IsOnce(defs)
     /\ {u \in uses : u.kind # "text"} \subseteq Range(defs)
     /\ \A l \in Range(cfg.locs) : l.upstream \in Range(cfg.upstreams) \cup {Nil}

\* The doc of rewritePath: "The rewritten URI."  The upstream of a proxy action
\* gets the URI with the path of the route replaced by rewritePath, in splits
\* and matches as well (generateRewrites).  It does not hold of the code: an exact
\* path in a split or match is never rewritten; no run checks it.
RewriteAsWritten ==
  phase = "done" /\ Loads(cfg) =>
    \A req \in Requests : \A s \in ServedRoute(req) :
      Serve(cfg, req).uri = Written(s, req).uri
=============================================================================
