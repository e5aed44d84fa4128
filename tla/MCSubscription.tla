--------------------------- MODULE MCSubscription ---------------------------
(***************************************************************************)
(* Instances of Subscription: two nodes, two users, configs that differ in *)
(* what the links and the render read, and the tables to begin with.       *)
(***************************************************************************)
EXTENDS Subscription, TLC

Reality == <<"reality">>
Second == <<"reality", "two">>
Web == <<"web", "in">>
Out == <<"out">>
Alt == <<"alt", "exit">>
Lookalike == <<"alt.exit">>

\* The dot takes the hyphen, on a node or on none.
MCPatternTakes(p, t) ==
    \/ p = t
    \/ /\ p # << >> /\ p[Len(p)] = Lookalike[1]
       /\ t = SubSeq(p, 1, Len(p) - 1) \o Alt

Vless == [clients |-> {}, flow |-> Absent]
NoTls == [serverName |-> Absent, alpn |-> Absent, fingerprint |-> Absent]

RealityInbound ==
    [tag |-> Reality, protocol |-> "vless", port |-> 443, listen |-> "0.0.0.0",
     transport |-> [network |-> "raw", settings |-> << >>], security |-> "reality",
     reality |-> [privateKey |-> BadKey, serverNames |-> <<"cover", "other">>,
                  shortIds |-> <<"01">>, fingerprint |-> Absent, spiderX |-> Absent],
     tls |-> NoTls, settings |-> [Vless EXCEPT !.flow = "vision"]]

WebInbound ==
    [tag |-> Web, protocol |-> "vless", port |-> 80, listen |-> "lan",
     transport |-> [network |-> "ws", settings |-> ("path" :> "/a" @@ "host" :> "cdn")],
     security |-> "tls", reality |-> Absent,
     tls |-> [serverName |-> "cdn", alpn |-> "h2", fingerprint |-> Absent], settings |-> Vless]

Grpc == [WebInbound EXCEPT !.security = "none", !.transport =
            [network |-> "grpc", settings |-> ("serviceName" :> "svc" @@ "multiMode" :> "yes")]]
Trojan == [WebInbound EXCEPT !.listen = "::", !.protocol = "trojan", !.settings = Absent]

Exit(tag) == [tag |-> tag, protocol |-> "freedom"]
AnnLeavesByAlt == [outboundTag |-> Alt, inboundTag |-> {Reality},
                   user |-> {[name |-> "ann", tag |-> Out]}]

Full == [inbounds |-> <<RealityInbound, WebInbound>>,
         outbounds |-> <<Exit(Out), Exit(Block), Exit(Alt), Exit(Lookalike)>>,
         rules |-> <<AnnLeavesByAlt>>]
Plain == [inbounds |-> <<Grpc, [RealityInbound EXCEPT !.port = 8443, !.tag = Second]>>,
          outbounds |-> <<Exit(Out), Exit(Lookalike), Exit(Alt)>>, rules |-> << >>]
Mixed == [inbounds |-> <<Trojan, [RealityInbound EXCEPT !.port = Absent]>>,
          outbounds |-> Absent, rules |-> << >>]
Junk == [Full EXCEPT !.inbounds = Unusable]
AlpnText == [Full EXCEPT !.inbounds = <<RealityInbound, [WebInbound EXCEPT !.tls.alpn = Text]>>]

MCConfigs == {Full, Plain, Mixed, Junk}
FragileConfigs == {Full, Junk, AlpnText}

Cdn == [id |-> "cdn", inbound_tag |-> Web, label |-> "via cdn",
        overrides |-> ("address" :> "front" @@ "port" :> 8080 @@ "path" :> "/b")]
Number == [Cdn EXCEPT !.overrides = ("address" :> Numeric)]

Both == [allowed_inbounds |-> {Reality, Web}, allowed_outbounds |-> {Out, Block}]
More == [allowed_inbounds |-> {Reality, Second}, allowed_outbounds |-> {Out, Alt, Lookalike}]

Granted(list, uuid) ==
    [allowed_inbounds |-> list.allowed_inbounds, allowed_outbounds |-> list.allowed_outbounds,
     uuids |-> [t \in list.allowed_outbounds |-> uuid]]

\* One user on both nodes and one on the first.
Fleet(address) ==
    [node |-> [n \in Nodes |-> [label |-> n, config |-> Full,
                                address |-> IF n = "tokyo" THEN "pub" ELSE address]],
     profiles |-> [n \in Nodes |-> {}],
     keys |-> [n \in Nodes |-> Reality :> 5],
     users |-> ("ann" :> [status |-> "active", expire |-> 0, token |-> 1]
                @@ "bob" :> [status |-> "active", expire |-> Absent, token |-> 2]),
     access |-> [u \in Users |-> [n \in Nodes |->
                    IF u = "ann" THEN Granted(Both, 3)
                    ELSE IF n = "tokyo" THEN Granted(More, 4) ELSE Absent]],
     minted |-> 5]

\* A node just created, which no config was saved and no key minted for.
New(start, n) == [start EXCEPT !.node[n].config = Absent, !.keys[n] = << >>]

MCStart == {New(Fleet(NoAddress), "osaka")}
PublicStart == {Fleet("pub")}

MCProfiles == {Cdn}
FragileProfiles == {Number}
MCAccessLists == {More}
MCAddresses == {"pub", NoAddress}
MCExpiries == {2}
=============================================================================
