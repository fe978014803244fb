--------------------------- MODULE MCPeerManager ---------------------------
(***************************************************************************)
(* A torrent with a limit of one connection and three clients; one with    *)
(* two upload candidates and one slot; two torrents with a client in       *)
(* common, and with different ones, under a limit for both, that retry     *)
(* without encryption; one whose clients are tried again and again; one    *)
(* that requires encryption and meets its own address.                     *)
(***************************************************************************)
EXTENDS PeerManager

MCRemotes == <<"p", "q", "s", "self">>

World(max, total, enc, in1, in2, bounds) ==
    [max_connections |-> max, max_total_connections |-> total, encryption |-> enc,
     swarm |-> [m \in Managers |-> IF m = "m1" THEN in1 ELSE in2],
     max_finds |-> bounds[1], max_stops |-> bounds[2],
     max_haves |-> bounds[3], max_extra |-> bounds[4]]

MCWorlds == {
    World(1, 9, "off", {"p", "q", "s"}, {}, <<1, 0, 0, 1>>),
    World(2, 9, "off", {"p", "q"}, {}, <<0, 1, 2, 1>>),
    World(0, 2, "preferred", {"p"}, {"p"}, <<2, 0, 0, 1>>),
    World(0, 1, "preferred", {"p"}, {"q"}, <<2, 1, 0, 1>>),
    World(1, 9, "preferred", {"p", "q"}, {}, <<2, 0, 0, 1>>),
    World(0, 1, "required", {"p", "self"}, {}, <<2, 1, 1, 1>>)}
=============================================================================
