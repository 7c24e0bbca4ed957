--------------------------- MODULE MCLanguageStages ---------------------------
(***************************************************************************)
(* A network of tunnels over devices with ports.  Twelve questions about it *)
(* are left to the model, whose answers are all combinations of the parts  *)
(* that it may get right or wrong; the questions after them combine the    *)
(* parts that the deterministic assembler reads.                           *)
(***************************************************************************)
EXTENDS LanguageStages

MCIdProperty == [v \in {"Tunnel", "Device", "Port"} |-> "id"]
MCEnds == [PATH |-> [from |-> "Tunnel", to |-> "Device"], HAS |-> [from |-> "Device", to |-> "Port"],
           USES |-> [from |-> "Port", to |-> "Device"]]
MCTypes == [Tunnel |-> [id |-> "string", name |-> "string"],
            Device |-> [id |-> "string", role |-> "string", since |-> "datetime"],
            Port |-> [id |-> "string", speed |-> "int"], PATH |-> << >>, HAS |-> << >>, USES |-> << >>]
MCSnake == [Tunnel |-> "tunnel", Device |-> "device", Port |-> "port"]
MCMetrics == [ports |-> [aliases |-> <<<<"d", "Device">>, <<"p", "Port">>>>, dims |-> {<<"d", "role">>, <<"d", "id">>}]]
MCPathPatterns ==
  [route |-> [params |-> <<[name |-> <<"tunnel", "id">>, type |-> "string"]>>, outputs |-> <<<<"route">>>>]]

role == <<"Device", "role">>
name == <<"Tunnel", "name">>
id == <<"Tunnel", "id">>
MCValidValues == role :> <<"firewall", "router">>
MCSynonyms == [firewall |-> {"fw"}, router |-> {"gateway"}]
MCIndexed == <<"Tunnel", "id">> :> {"T1"} @@ <<"Tunnel", "name">> :> {"gold", "golden"}
MCSimilarity == <<"T9", "T1">> :> 96 @@ <<"golde", "golden">> :> 96 @@ <<"golde", "gold">> :> 80
                @@ <<"firewalls", "firewall">> :> 96
MCIncludes == {<<"fw role", "fw">>, <<"long tunnel", "tunnel">>, <<"tunnel end", "tunnel">>, <<"device end", "device">>}
MCParses == {"integer", "number"} \X {"100", "last 7 days"} \cup {<<"time", "last 7 days">>}
MCVertexWords == [Tunnel |-> {"tunnel"}, Device |-> {"device"}, Port |-> {"port"}]
MCPropertyWords == <<"Tunnel", "id">> :> {"number"} @@ <<"Tunnel", "name">> :> {"name"} @@ <<"Device", "id">> :> {"number"}
                   @@ role :> {"role"} @@ <<"Device", "since">> :> {"since"} @@ <<"Port", "id">> :> {"number"}
                   @@ <<"Port", "speed">> :> {"speed"}
MCOperatorWords == "over" :> "gt"
MCIdLike == {"T1", "T9"}
MCIdWords == {"number"}
MCIdPrefixes == [t \in {"T1", "T9", "fw", "gold", "golde", "100", "last 7 days", "core", "fw role", "firewalls"} |-> IF t \in {"T1", "T9"} THEN {"Tunnel"} ELSE {}]
MCPropertyOrder == <<<<"Port", "id">>, <<"Port", "speed">>, <<"Device", "since">>, <<"Device", "id">>, role,
                     <<"Tunnel", "name">>, <<"Tunnel", "id">>>>

MCReservedAliases == {<<"order">>, <<"port">>}
MCPlaceholders == {"gold"}
MCAggregateIntents == {"count", "aggregate", "top_n"}
MCAggregateWords == {"how many"}
MCRelationWords == {"through", "hosting", "using"}
MCDirections == [most |-> "desc", fewest |-> "asc"]
MCCounts == "first 2" :> 2
MCFieldWords == {"name", "role", "number"}
MCWholeWords == {"details"}
MCVagueWords == {"details"}
MCCompounds == "port node" :> {"Port"}
MCQuantityWords == {"how many", "total"}
MCNodeWords == {"nodes"}
MCModifierWords == {"value"}
MCSurfaces == [name |-> {"name"}, role |-> {"role"}, id |-> {"number"}]
MCCountMetrics == {"ports"}

\* For the deterministic assembler.
MCResembles == <<"source number", id>> :> 70 @@ <<"source number", <<"Device", "id">>>> :> 70
MCPhrases == [i \in {"tunnels and devices"} |-> <<"Tunnel", "Device">>] @@ [i \in {"ports of the device"} |-> <<"Port", "Device">>]
MCCoordinating == {"tunnels and devices"}
MCEndWords == {"tunnel end", "device end"}
MCSourceWords == {"source number"}
MCTargetWords == {"target number"}
MCNameWord == "name"
MCVertexOrder == <<"Tunnel", "Device", "Port">>
MCVertexNames == <<"Device", "Port", "Tunnel">>
MCTells == [i \in {"hosting"} |-> {"has"}] @@ [i \in {"using"} |-> {"uses"}] @@ [i \in {"through"} |-> {"over"}]
MCMeans == [has |-> {"HAS"}, uses |-> {"USES"}, over |-> {"PATH", "USES"}]
MCDomains == [i \in {"tunnel"} |-> {"transport"}] @@ [i \in {"port"} |-> {"hardware"}]
MCDomainMeans == <<"transport", "over">> :> {"PATH"}
MCNoiseWords == {"all"}
MCShareWords == {"values"}
MCLikely == {"Tunnel", "Device"}
MCCountedWords == {"kinds"}
MCNonEmptyWords == {"any"}
MCTotalWords == {"total"}
MCNumberWord == "how many"

-----------------------------------------------------------------------------
All == {<<"vertex", v>> : v \in DOMAIN MCIdProperty} \cup {<<"edge", e>> : e \in {"PATH", "HAS"}}
       \cup {<<"property", p>> : p \in DOMAIN MCPropertyWords} \cup {<<"metric", "ports">>, <<"path_pattern", "route">>}

word(text, slot, attached) == [text |-> text, slot |-> slot, attached |-> attached]
literal(text, kind, attached) == [text |-> text, kind |-> kind, attached |-> attached]
asked(intent, words, literals) ==
  [intent |-> intent, output |-> "rows", words |-> words, literals |-> literals, detailed |-> {}, along |-> {},
   together |-> FALSE, thereof |-> << >>, owned |-> {}, joined |-> FALSE]

empty == [shape |-> "lookup", vertices |-> << >>, edges |-> << >>, properties |-> << >>, returned |-> << >>,
          metrics |-> << >>, patterns |-> << >>, literals |-> << >>, filters |-> << >>, group |-> << >>,
          measures |-> << >>, projection |-> << >>, sort |-> << >>, limit |-> 0]

hop(edge, dir) == [name |-> edge, dir |-> dir]
is(prop, op, raw) == [prop |-> prop, op |-> op, raw |-> raw, inline |-> << >>]
item(kind, prop, terms) == [kind |-> kind, prop |-> prop, target |-> "", source |-> NoSource, alias |-> << >>, terms |-> terms]
own(raw, prop) == [raw |-> raw, owner |-> prop[1], prop |-> prop[2], match |-> "exact", value |-> raw, code |-> "none"]
written(prop, raw) == [prop |-> prop, op |-> "eq", raw |-> raw, inline |-> <<own(raw, prop)>>]
by(label, direction) == [source |-> NoSource, label |-> label, direction |-> direction]
grouped(form, alias, target, prop) == [form |-> form, alias |-> alias, target |-> target, prop |-> prop]
measure(form, alias, function, target, prop) ==
  [form |-> form, alias |-> alias, function |-> function, target |-> target, prop |-> prop]

\* The name of tunnel T1.
Lookup == asked("lookup", <<word("tunnel", "filter", ""), word("name", "projection", "tunnel")>>, <<literal("T1", "id", "tunnel")>>)
LookupAnswers ==
  {[empty EXCEPT !.vertices = v, !.edges = e, !.filters = f, !.literals = l, !.projection = p, !.sort = s, !.limit = n] :
     v \in {<< >>, <<"Tunnel">>, <<"Tunnel", "Device">>}, e \in {<< >>, <<hop("PATH", "backward")>>},
     f \in {<< >>, <<is(id, "eq", "T1")>>, <<is(<<"", "id">>, "eq", "")>>, <<written(name, "core")>>, <<is(name, "eq", "T1")>>},
     l \in {<< >>, <<1>>},
     p \in {<< >>, <<item("property", name, {})>>, <<item("property", id, {"name"}), item("property", name, {})>>,
            <<item("full", <<"Tunnel">>, {})>>, <<item("property", name, {}), item("property", name, {}), item("property", name, {})>>,
            <<item("label", <<"name">>, {})>>},
     s \in {<< >>, <<by(<<"name">>, "asc")>>, <<[by(<<"name">>, "asc") EXCEPT !.source = <<"tunnel", <<"name">>>>]>>}, n \in {0, 2}}

\* The roles of the devices that tunnel T1 passes and that are firewalls.
Reach == asked("lookup", <<word("line", "path", ""), word("through", "path", ""), word("box", "path", ""),
                           word("role", "projection", "device")>>,
               <<literal("T1", "id", "tunnel"), literal("fw", "enum", "device")>>)
ReachAnswers ==
  {[empty EXCEPT !.shape = s, !.vertices = v, !.edges = e, !.patterns = w, !.literals = l, !.filters = f, !.projection = p, !.limit = n] :
     s \in {"single_hop", "variable_path", "named_path", "lookup"},
     v \in {<<"Tunnel", "Device">>, <<"Device", "Tunnel">>, <<"Tunnel", "Device", "Port">>},
     e \in {<< >>, <<hop("PATH", "forward")>>, <<hop("PATH", "backward")>>, <<hop("PATH", "forward"), hop("HAS", "forward")>>},
     w \in {<< >>, <<"route">>}, l \in {<<1>>, <<1, 2>>},
     f \in {<< >>, <<is(id, "eq", "T1"), is(role, "eq", "fw")>>, <<is(role, "contains", "firewall")>>},
     p \in {<< >>, <<item("property", role, {})>>, <<item("full", <<"Device">>, {"role"}), item("property", role, {})>>,
            <<[item("source", << >>, {"role"}) EXCEPT !.source = <<"path", <<"route">>>>]>>},
     n \in {0, 2}}

\* The first two devices that tunnel T1 passes.
First == asked("lookup", <<word("line", "path", ""), word("box", "path", ""), word("first 2", "limit", ""),
                           word("number", "projection", "device")>>, <<literal("T1", "id", "tunnel")>>)
FirstAnswers ==
  {[empty EXCEPT !.shape = "single_hop", !.vertices = v, !.literals = <<1>>, !.projection = p, !.limit = n] :
     v \in {<<"Tunnel", "Device">>, <<"Device">>}, p \in {<< >>, <<item("property", <<"Device", "id">>, {})>>}, n \in {0, 2}}

\* The two devices with the most fast ports.
Rank == asked("top_n", <<word("device", "group_by", ""), word("most", "order_by", ""), word("first 2", "limit", ""),
                         word("how many", "projection", "port")>>, <<literal("fw role", "enum", "device")>>)
count(form, vertex) == measure(form, << >>, "", "", <<vertex, "id">>)
RankAnswers ==
  {[empty EXCEPT !.shape = s, !.vertices = v, !.metrics = m, !.group = g, !.measures = c, !.filters = f, !.literals = <<1>>,
                 !.projection = p, !.sort = o, !.limit = n] :
     s \in {"aggregate", "top_n", "metric_aggregate", "two_step_aggregate"},
     v \in {<<"Device">>, <<"Port">>}, m \in {<< >>, <<"ports">>},
     g \in {<< >>, <<grouped("property", << >>, "", role)>>, <<grouped("full", <<"order">>, "d", role)>>, <<grouped("full", <<"role">>, "x", role)>>},
     c \in {<<count("count", "Device")>>, <<count("count", "Device"), count("named_count", "Port")>>,
            <<measure("vertex", << >>, "count", "", <<"Device">>)>>, <<measure("vertex", << >>, "count", "", <<"Rack">>)>>,
            <<measure("full", <<"fast">>, "sum", "port", <<"Port", "speed">>)>>,
            <<measure("full", <<"fast">>, "avg", "device", role)>>},
     f \in {<< >>, <<is(role, "eq", "fw role")>>},
     p \in {<< >>, <<item("property", role, {}), item("label", <<"count">>, {"how many"})>>},
     o \in {<< >>, <<by(<<"count">>, "desc")>>, <<[by(<<"count">>, "desc") EXCEPT !.source = <<"metric", <<"ports">>>>]>>}, n \in {0, 2}}

\* Ports over 100, devices since a time, ports over one; what the tunnels are; a name nearly known.
Ask(literals, words, vertex, prop, op, raw, p) ==
  [question |-> asked("lookup", words, literals), candidates |-> All,
   answers |-> {[empty EXCEPT !.vertices = <<vertex>>, !.literals = <<1>>, !.filters = f, !.projection = p] :
                  f \in {<< >>, <<is(prop, op, raw)>>}}]

Asked ==
  <<[question |-> Lookup, candidates |-> All, answers |-> LookupAnswers],
    [question |-> Reach, candidates |-> All, answers |-> ReachAnswers],
    [question |-> First, candidates |-> All, answers |-> FirstAnswers],
    [question |-> Rank, candidates |-> All, answers |-> RankAnswers],
    Ask(<<literal("100", "number", "port")>>, <<word("speed", "filter", "port"), word("100", "filter", "speed"), word("details", "projection", "port")>>,
        "Port", <<"Port", "speed">>, "gt", "100", << >>),
    Ask(<<literal("last 7 days", "time", "device")>>, <<word("since", "filter", "device"), word("last 7 days", "filter", "since"), word("details", "projection", "")>>,
        "Device", <<"Device", "since">>, "gt", "last 7 days", << >>),
    Ask(<<literal("last 7 days", "time", "port")>>, <<word("speed", "filter", "port"), word("last 7 days", "filter", "speed"), word("details", "projection", "port")>>,
        "Port", <<"Port", "speed">>, "gt", "last 7 days", << >>),
    Ask(<< >>, <<word("tunnel", "projection", "")>>, "Tunnel", id, "eq", "T1", << >>),
    Ask(<<literal("golde", "name", "tunnel")>>, <<word("name", "filter", "tunnel"), word("golde", "filter", "name")>>,
        "Tunnel", name, "contains", "golden", <<item("property", name, {})>>),
    Ask(<<literal("gold", "name", "tunnel")>>, <<word("name", "filter", "tunnel"), word("gold", "filter", "name")>>,
        "Tunnel", name, "eq", "gold", <<item("property", name, {})>>),
    Ask(<<literal("firewalls", "enum", "device")>>, <<word("role", "filter", "device")>>, "Device", role, "eq", "firewalls", << >>),
    Ask(<<literal("T9", "id", "tunnel")>>, <<word("tunnel", "filter", "")>>, "Tunnel", id, "eq", "T9", << >>)>>
-----------------------------------------------------------------------------
(* The questions that may be answered without a model.                     *)

Wider == All \cup {<<"edge", "USES">>}
Only(v) == {<<"vertex", v>>} \cup {<<"property", p>> : p \in DOMAIN MCPropertyWords}
path(words) == MapSeq(words, LAMBDA w : word(w, "path", ""))
show(text, attached) == word(text, "projection", attached)

\* What a condition adds to a question: its words, its literals.
onRole == [words |-> <<word("role", "filter", "device"), word("fw", "filter", "role")>>, literals |-> <<literal("fw", "enum", "device")>>]
onTunnel == [words |-> <<word("T1", "filter", "tunnel")>>, literals |-> <<literal("T1", "id", "tunnel")>>]
onSpeed == [words |-> <<word("speed", "filter", "port"), word("over", "filter", "speed"), word("100", "filter", "speed")>>,
            literals |-> <<literal("100", "number", "port")>>]
unsaid == [words |-> << >>, literals |-> <<literal("T1", "id", "tunnel")>>]
none == [words |-> << >>, literals |-> << >>]
both(c, d) == [words |-> c.words \o d.words, literals |-> c.literals \o d.literals]

Untried(q, among) == [question |-> q, candidates |-> among, answers |-> {}]

\* All tuples with one element of each sequence, as a sequence.
Times(tuples, seq) ==
  [k \in 1..(Len(tuples) * Len(seq)) |-> Append(tuples[((k - 1) \div Len(seq)) + 1], seq[((k - 1) % Len(seq)) + 1])]
Combined(seqs) == FoldLeft(Times, <<<< >>>>, seqs)

PathCases ==
  LET paths == <<<<"tunnel", "through", "device">>, <<"device", "hosting", "port">>, <<"device", "using", "port">>,
                 <<"device", "port">>, <<"port", "device">>, <<"tunnel", "through", "device", "hosting", "port">>>>
      shown == <<<< >>, <<show("name", "tunnel")>>, <<show("role", "device")>>, <<show("speed", "port"), show("role", "device")>>,
                 <<show("number", "tunnel"), show("number", "device")>>, <<show("number", "")>>, <<show("source number", "device")>>,
                 <<show("number", "tunnels and devices")>>, <<show("tunnel end", ""), show("device end", ""), show("number", "")>>,
                 <<show("details", "device")>>, <<show("device", ""), show("role", "device")>>>>
      posed(x) == [asked("lookup", path(x[1]) \o x[2] \o x[3].words, x[3].literals) EXCEPT !.together = x[4], !.thereof = x[5]]
  IN MapSeq(Combined(<<paths, shown, <<none, onRole, both(onTunnel, onSpeed), unsaid>>, <<FALSE, TRUE>>,
                       <<<< >>, <<<<"tunnel", "device">>>>>>, <<All, Wider, Wider \ {<<"edge", "HAS">>}>>>>),
            LAMBDA x : Untried(posed(x), x[6]))

VertexCases ==
  LET shown == <<<<show("name", "tunnel")>>, <<show("details", "device")>>, <<show("number", ""), show("name", "")>>, <<show("role", "")>>>>
  IN MapSeq(Combined(<<shown, <<none, onTunnel, onRole, onSpeed, unsaid>>, <<<< >>, <<word("first 2", "limit", "")>>>>,
                       <<All, Only("Tunnel"), Only("Device"), Only("Device") \cup Only("Port"), Only("Tunnel") \cup Only("Port")>>>>),
            LAMBDA x : Untried(asked("lookup", x[1] \o x[2].words \o x[3], x[2].literals), x[4]))

CountCases ==
  LET shown == <<<<show("how many", "device")>>, <<show("how many", "role")>>, <<show("role", "device"), show("kinds", "role")>>,
                 <<show("total", "device"), show("role", ""), show("kinds", "role"), show("how many", "role")>>>>
      valued == <<<< >>, <<word("any", "filter", "role")>>, <<word("role", "filter", ""), word("any", "filter", "")>>>>
  IN MapSeq(Combined(<<shown, <<none, onRole, onTunnel>>, valued, <<{}, {"role"}>>, <<FALSE, TRUE>>,
                       <<Only("Device"), Only("Device") \cup Only("Port")>>, <<<<"count", "rows">>, <<"lookup", "scalar">>>>>>),
            LAMBDA x : Untried([asked(x[7][1], x[1] \o x[2].words \o x[3], x[2].literals)
                                  EXCEPT !.output = x[7][2], !.owned = x[4], !.joined = x[5]], x[6]))

RankCases ==
  LET paths == <<<<"device", "hosting", "port">>, <<"device", "port">>, <<"tunnel", "device">>>>
      groups == <<<<word("role", "group_by", "device")>>, <<show("role", "device")>>, <<word("number", "group_by", "")>>>>
      ranked == <<word("most", "order_by", ""), word("first 2", "limit", "")>>
  IN MapSeq(Combined(<<paths, groups, <<none, onRole>>, <<"port", "device", "">>, <<All, Wider>>,
                       <<<<"top_n", "rows">>, <<"lookup", "grouped_rows">>>>>>),
            LAMBDA x : Untried([asked(x[6][1], path(x[1]) \o x[2] \o ranked \o x[3].words \o <<show("how many", x[4])>>, x[3].literals)
                                  EXCEPT !.output = x[6][2]], x[5]))

\* A time that is asked of a vertex with nothing but an enumeration among the candidates; a
\* path that names a vertex twice, once for each neighbour.
Enumerated ==
  <<Untried(asked("lookup", <<word("device", "projection", ""), word("last 7 days", "filter", "device")>>,
                  <<literal("last 7 days", "time", "device")>>),
            {<<"vertex", "Device">>, <<"property", role>>}),
    Untried(asked("lookup", <<word("tunnel", "path", ""), word("device", "path", "tunnel"), word("device", "path", "port"),
                              word("port", "path", ""), show("name", "tunnel")>>, << >>), All)>>

MCCases == Asked \o Enumerated \o PathCases \o VertexCases \o CountCases \o RankCases
=============================================================================
