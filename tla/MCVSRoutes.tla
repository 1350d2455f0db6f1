----------------------------- MODULE MCVSRoutes -----------------------------
(* Small VirtualServers for VSServed. *)
EXTENDS VSServed

Prefix(s) == [kind |-> "prefix", segs |-> s]
Exact(s) == [kind |-> "exact", segs |-> s]
Regex(s) == [kind |-> "regex", segs |-> s]

Pass(u) == [kind |-> "pass", to |-> u, rewrite |-> Nil, code |-> 0]
Proxy(u, w) == [kind |-> "proxy", to |-> u, rewrite |-> w, code |-> 0]
Redirect(c) == [kind |-> "redirect", to |-> "url", rewrite |-> Nil, code |-> c]
Return(b, c) == [kind |-> "return", to |-> b, rewrite |-> Nil, code |-> c]

Split(w, a) == [weight |-> w, action |-> a]
Cond(name, text, neg) == [on |-> {<<"header", name>>}, value |-> [text |-> text, neg |-> neg]]

Body(a, s, m) == [action |-> a, splits |-> s, matches |-> m]
Match(cs, a, s) == [conditions |-> cs, action |-> a, splits |-> s]

HalfHalf == <<Split(50, Pass("u1")), Split(50, Return("b1", 0))>>
Rewriting == <<Split(1, Proxy("u1", <<"/w">>)), Split(99, Proxy("u2", Nil))>>

Bodies ==
  {Body(a, <<>>, <<>>) : a \in {Pass("u1"), Proxy("u2", <<"/w">>), Redirect(0), Return("b2", 404)}} \cup
  {Body(Nil, s, <<>>) : s \in {HalfHalf, Rewriting}} \cup
  {Body(Pass("u1"), <<>>, <<Match(<<Cond("x", "default", FALSE), Cond("y", "1", TRUE)>>, Nil, HalfHalf),
                            Match(<<Cond("y", "1", FALSE)>>, Return("b3", 0), <<>>)>>),
   Body(Nil, Rewriting, <<Match(<<Cond("y", "", TRUE)>>, Proxy("u2", <<"/w">>), <<>>),
                          Match(<<Cond("x", "default", TRUE)>>, Nil, HalfHalf)>>)}

\* Bodies that validation refuses.
BadBodies ==
  {Body(Pass("u3"), <<>>, <<>>),
   Body(Nil, <<Split(50, Pass("u1")), Split(49, Pass("u2"))>>, <<>>),
   Body(Pass("u1"), HalfHalf, <<>>),
   Body(Pass("u1"), <<>>, <<Match(<<>>, Pass("u2"), <<>>)>>)}

Page(k, t) == [kind |-> k, to |-> t, code |-> 0, codes |-> {502}]
SomePages == {Nil, <<>>, <<Page("redirect", "url"), Page("return", "p1")>>,
              <<Page("return", "p2"), Page("return", "p3")>>}

Route(p, b, pages, snip, ref) == b @@ [path |-> p, pages |-> pages, snippet |-> snip, ref |-> ref]
NoBody == Body(Nil, <<>>, <<>>)

VS(rs) == [upstreams |-> <<"u1", "u2">>, routes |-> rs]
VSR(rs) == [upstreams |-> <<"u1", "u2">>, subroutes |-> rs]
NoVSRs == [k \in {} |-> Nil]

A == <<"/a">>
AB == <<"/a", "b">>

\* Two routes of the VirtualServer itself.
TwoRoutes ==
  {[vs |-> VS(<<Route(p, b1, pages, "", Nil), Route(Prefix(A), b2, <<Page("return", "p4")>>, "s", Nil)>>),
    vsrs |-> NoVSRs] :
     p \in {Prefix(AB), Exact(AB), Regex(<<"/r">>), Prefix(A)},
     b1 \in Bodies \cup BadBodies, b2 \in Bodies, pages \in SomePages}

\* A route that references a VirtualServerRoute with two subroutes, after a
\* route of the VirtualServer with error pages of its own.
WithVSR ==
  {[vs |-> VS(<<Route(Exact(<<"/o">>), b0, <<Page("return", "p4")>>, "", Nil),
                Route(Prefix(A), NoBody, pages, snip, "v")>>),
    vsrs |-> [k \in {"v"} |-> VSR(<<Route(Prefix(AB), b1, own, "t", Nil), Route(q, b2, Nil, "", Nil)>>)]] :
     b0 \in {Body(Nil, HalfHalf, <<>>), Body(Return("b2", 0), <<>>, <<>>)},
     b1 \in Bodies, b2 \in Bodies, q \in {Prefix(A), Prefix(<<"/o">>)},
     pages \in SomePages, own \in SomePages, snip \in {"", "s"}}

\* Two routes reference the same VirtualServerRoute, or two whose subroutes
\* have the same path.
Twice ==
  {[vs |-> VS(<<Route(Prefix(A), NoBody, pages, "", "v"), Route(Prefix(AB), NoBody, Nil, "s", k)>>),
    vsrs |-> [x \in {"v", "w"} |-> VSR(<<Route(Prefix(AB), b, Nil, "", Nil)>>)]] :
     b \in Bodies, k \in {"v", "w"}, pages \in SomePages}

MCInputs == TwoRoutes \cup WithVSR \cup Twice

MCRequests ==
  {[uri |-> u, hash |-> h, vals |-> [n \in {<<"header", "x">>, <<"header", "y">>} |->
                                       IF n[2] = "x" THEN x ELSE y]] :
     u \in {A, AB, <<"/a", "b", "c">>, <<"/r", "c">>, <<"/o">>}, h \in {1, 50, 51},
     x \in {"", "default"}, y \in {"", "1"}}
=============================================================================
