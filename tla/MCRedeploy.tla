----------------------------- MODULE MCRedeploy -----------------------------
(***************************************************************************)
(* Instances of Redeploy for TLC.                                          *)
(***************************************************************************)
EXTENDS Redeploy, TLC

CONSTANTS DOMAIN1

db   == <<"db">>
web  == <<"web">>
webNodePort == <<"web", "nodeport">>
data == <<"data">>
log  == <<"log">>
h1 == << <<"a">>, <<"example">> >>
h2 == << <<"api">>, <<"dev">>, <<"example">> >>    \* api.dev.example
h3 == << <<"api", "dev">>, <<"example">> >>        \* api-dev.example

MCServiceNames == <<db, web, webNodePort>>
MCVolumeNames  == <<data, log>>
MCNumerals     == <<"0", "1", "2", "3", "4", "5", "6", "7", "8", "9">>
MCHosts        == {h1, h2, h3}

\* Strings in order are names by their words in order, since a dash comes
\* before digits and letters.
MCWords == MCNumerals \o <<"data", "db", "log", "nodeport", "web">>
MCRank(n) ==
  LET Place(k) == IF k > Len(n) THEN 0 ELSE SelectInSeq(MCWords, LAMBDA w : w = n[k])
  IN  Place(1) * 4096 + Place(2) * 256 + Place(3) * 16 + Place(4)

OneVolume == [backup |-> TRUE, perReplica |-> FALSE]
MCVolumes == {OneVolume, [OneVolume EXCEPT !.perReplica = TRUE], [OneVolume EXCEPT !.backup = FALSE]}
Image == [Plain EXCEPT !.image = "public"]

Http(hosts) == [hosts |-> hosts, redirect |-> FALSE, tls |-> TRUE]

\* A database with its volume beside a worker, a replicated store with a web
\* server, and a site that has moved.
Database == [services  |-> [s \in {db, web, webNodePort} |->
                              IF s = webNodePort THEN None
                              ELSE [Image EXCEPT !.volumes = IF s = db THEN {data} ELSE {}]],
             volumes   |-> [v \in {data, log} |-> IF v = data THEN OneVolume ELSE None],
             inputs    |-> FALSE,
             malformed |-> FALSE]

Store  == [Image EXCEPT !.volumes = {log}, !.replicas = 2]
Server == [Image EXCEPT !.port = 80, !.http = Http(<<h1>>), !.expose = {80}]
Site   == [Database EXCEPT !.services[db] = Store, !.services[web] = Server,
                           !.volumes = [v \in {data, log} |-> IF v = log THEN [OneVolume EXCEPT !.perReplica = TRUE] ELSE None]]
Moved(hosts) == [Http(hosts) EXCEPT !.redirect = TRUE]
Forward == [Database EXCEPT !.services[db] = None, !.volumes[data] = None,
                            !.services[web] = [Plain EXCEPT !.http = Moved(<<h1, h2>>)]]
MCBases == {Database, Site, Forward}

MCValues ==
  [image    |-> {None, "public", "private"},
   build    |-> {TRUE},
   port     |-> {80},
   ports    |-> {<<81, 82>>},
   http     |-> {Http(<<h1>>), Http(<<h1, h2>>), Http(<<h1, h2, h3>>), Http(<<DOMAIN1>>),
                 Moved(<<h2, h1>>), Moved(<<h1, h2, h3>>), [Http(<<h2>>) EXCEPT !.tls = FALSE]},
   expose   |-> {{80}},
   uses     |-> {{DOMAIN1}},
   secrets  |-> {TRUE},
   files    |-> {{"plain", "from"}},
   sidecar  |-> {[ports |-> {80}, volumes |-> {}], [ports |-> {90}, volumes |-> {data}]},
   network  |-> {{"egress"}},
   health   |-> {"path"},
   schedule |-> {TRUE},
   replicas |-> {0, 2},
   stateful |-> BOOLEAN,
   volumes  |-> {{}, {data}, {data, log}}]
=============================================================================
