------------------------------ MODULE MCNameEdge ------------------------------
(* NameEdge for TLC: the suffix is internal, two servers are managed, and  *)
(* the streams hold every way of naming a host twice, late or wrongly that *)
(* the readers tell apart.                                                 *)
EXTENDS NameEdge

suffix == <<"internal">>
validLabels == {"internal", "s1", "s2", "s3", "app", "example"}
app == <<"app", "s1", "internal">>

Host(labels, form, port) == [labels |-> labels, form |-> form, port |-> port, dot |-> FALSE, upper |-> FALSE]
name1 == Host(app, "name", "none")
hosts ==
  {name1, [name1 EXCEPT !.upper = TRUE], [name1 EXCEPT !.dot = TRUE], Host(app, "name", "junk"),
   Host(<<"s2", "internal">>, "name", "none"), Host(<<"internal", "example">>, "name", "none"),
   Host(<<"internal">>, "name", "digits"), Host(<< >>, "name", "none"),
   Host(<< >>, "address", "digits"), Host(<< >>, "bracketed", "none"), Host(app, "credentials", "none")}
\* A second server that is managed too, and what stands for no name in a greeting.
name2 == Host(<<"s3", "internal">>, "name", "none")
blank == Host(<< >>, "name", "none")
tlsHosts == hosts \cup {name2, Host(<< >>, "name", "digits"), [blank EXCEPT !.dot = TRUE]}
written == {[labels |-> << >>, form |-> "name", port |-> p, dot |-> d, upper |-> u] :
              p \in {"none", "digits"}, d \in BOOLEAN, u \in BOOLEAN}

Line(is, h) == [is |-> is, host |-> h]
Http(lines) == [kind |-> "http", lines |-> lines]
Other == Line("other", None)
End == Line("end", None)
httpStreams ==
  {Http(<<Line("target", t)>> \o rest) :
     t \in {None, name1, [name1 EXCEPT !.upper = TRUE], name2},
     rest \in {<<End>>, <<Line("host", name1), End, Line("host", name2)>>}
              \cup {<<Line("host", h), End>> : h \in hosts}}
  \cup {Http(<<Line("target", None), Line("host", name1), Line("host", h), End>>) : h \in hosts \cup {name2}}
  \cup {Http(<<Line("target", None)>> \o rest) :
          rest \in {<<Other, Other, Other, Line("host", name1), End>>,
                    <<Other, Other, Other, Other, Other, Line("host", name1), End>>,
                    <<Other, Other, Other, Other, Line("host", name1), Other>>,
                    <<Line("broken", None), Line("host", name1), End>>}}
  \cup {Http(<<End>>), Http(<<Line("broken", None), Line("host", name1), End>>)}

Rec(type, size) == [type |-> type, size |-> size]
Tls(records, hello, extensions) ==
  [kind |-> "https", tls |-> [records |-> records, want |-> 2, hello |-> hello, extensions |-> extensions]]
Sni(names) == [is |-> "serverName", names |-> names]
Broken == [is |-> "broken", names |-> << >>]
Shapes ==
  {<<Rec("handshake", 2)>>, <<Rec("handshake", 1), Rec("handshake", 1)>>, <<Rec("handshake", 1), Rec("alert", 1)>>,
   <<Rec("handshake", 2), Rec("alert", 1)>>, <<Rec("alert", 2)>>, <<Rec("handshake", 0), Rec("handshake", 2)>>,
   <<Rec("handshake", 1), Rec("handshake", 7)>>, <<Rec("handshake", 1), Rec("handshake", 6)>>}
tlsStreams ==
  {Tls(<<Rec("handshake", 1), Rec("handshake", 1)>>, "client", e) :
     e \in {<<Sni(<<h>>)>> : h \in tlsHosts} \cup {<<Sni(<<g, h>>)>> : g, h \in tlsHosts}
          \cup {<<Sni(<<g>>), Sni(<<h>>)>> : g, h \in tlsHosts}
          \cup {<<Sni(<<blank, blank, name1>>)>>, <<Sni(<<blank, name1, name2>>)>>, <<Sni(<< >>), Sni(<<name1>>)>>,
                <<Sni(<<name1>>), Broken>>, <<Broken, Sni(<<name1>>)>>}}
  \cup {Tls(r, hello, e) : r \in Shapes, hello \in {"client", "other", "short"},
                           e \in {<<>>, <<Sni(<<name1>>)>>, <<Sni(<<name1, name2>>)>>, <<Sni(<<name1>>), Sni(<<name2>>)>>}}

\* No ClientHello, and still arriving when the limit is reached.
long == [kind |-> "https",
         tls |-> [records |-> <<Rec("handshake", 1), Rec("handshake", 3), Rec("handshake", 2)>>,
                  want |-> 6, hello |-> "other", extensions |-> <<>>]]

streams == httpStreams \cup tlsStreams \cup {long}

Query(kind, qs) == [kind |-> kind, questions |-> qs]
Q(n, t) == [name |-> n, type |-> t]
lookups ==
  {Query("query", <<Q(n, "A")>>) :
     n \in {app, <<"s1", "internal">>, <<"s2", "internal">>, <<"internal">>, <<"internal", "example">>, Discovery,
            <<"x_y", "s1", "internal">>, <<"other", "_probe", "internal">>, <<"a", "b", "_probe", "internal">>}}
  \cup {Query("query", <<Q(app, "AAAA")>>), Query("query", << >>), Query("query", <<Q(app, "A"), Q(app, "A")>>),
        Query("response", <<Q(app, "A")>>), Query("junk", << >>)}
===============================================================================
