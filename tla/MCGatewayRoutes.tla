-------------------------- MODULE MCGatewayRoutes --------------------------
EXTENDS GatewayRoutes, TLC

T(labels) == [labels |-> labels, dressed |-> FALSE]
D(labels) == [labels |-> labels, dressed |-> TRUE]

MCRoot == D(<<"r", "">>)

\* A prefix and the same host in full; two locations, one under the other; a full domain
\* that is refused; one name for both gateways.
MCNewTunnels == {
    [name |-> "m", gw |-> "http", entries |-> {T(<<"a">>), D(<<"b", "r">>)}, locs |-> {},
     auth |-> NoCred, rewrite |-> FALSE],
    [name |-> "n", gw |-> "http", entries |-> {D(<<"a", "r", "">>)}, locs |-> {<<1>>, <<>>},
     auth |-> "secret", rewrite |-> TRUE],
    [name |-> "n", gw |-> "https", entries |-> {T(<<"a", "r">>), T(<<"b">>), T(<<"">>)}, locs |-> {},
     auth |-> NoCred, rewrite |-> FALSE],
    [name |-> "m", gw |-> "http", entries |-> {T(<<"*", "r">>), T(<<"", "a">>)}, locs |-> {},
     auth |-> NoCred, rewrite |-> FALSE]}

Req(gw, line, host, form, path, auth, proxyAuth) ==
    [gw |-> gw, hostLine |-> line, host |-> host, form |-> form, target |-> T(<<"a", "r">>),
     path |-> path, auth |-> auth, proxyAuth |-> proxyAuth]

MCHeads == {
    Req("http", TRUE, D(<<"a", "r">>), "origin", <<1, 2, 2>>, "secret", NoCred),
    Req("http", FALSE, T(<<>>), "absolute", <<1, 1>>, "secret", NoCred),
    Req("http", FALSE, T(<<>>), "origin", <<1>>, NoCred, NoCred),
    Req("http", TRUE, T(<<"b", "r", "">>), "connect", <<1>>, NoCred, "secret"),
    Req("https", TRUE, D(<<"b", "r">>), "origin", <<1>>, NoCred, NoCred)}

MCSymmetry == Permutations(Controls)
=============================================================================
