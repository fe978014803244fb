----------------------------- MODULE MCServices -----------------------------
(***************************************************************************)
(* What a program asks of others: the trackers of a torrent, the feeds of  *)
(* the RSS plugin, and the routers of the UPnP plugin.  They share         *)
(* nothing; a behaviour is about one of them.                              *)
(***************************************************************************)
EXTENDS Trackers, RssFeeds, TLC

CONSTANTS tu, th

MCOrder == <<th, tu>>
MCTier == tu :> 1 @@ th :> 2

---------------------------------------------------------------------------
\* An episode is posted in both feeds and again in one of them, with an article of no episode
\* and the next episode without a link
MCArticles == {1, 2, 3, 4}
MCBroken == {4}
MCDay == <<0, 1, 1, 1>>
MCAt == <<{"u1", "u2"}, {"u2"}, {"u2"}, {"u2"}>>
MCEpisode == <<<<1, 2>>, <<1, 2>>, <<0, 0>>, <<1, 3>>>>
MCPatterns == [all |-> MCArticles, some |-> {1, 3}, none |-> {}]

Config(series, pattern) ==
    [active |-> TRUE, series |-> series, sansEpisode |-> TRUE, pattern |-> pattern,
     minSeason |-> 1, minEpisode |-> 2, maxSeason |-> 0, maxEpisode |-> 0]
MCConfigs == {Config(TRUE, "all"), Config(FALSE, "some")}
MCNewConfig ==
    [active |-> FALSE, series |-> FALSE, sansEpisode |-> FALSE, pattern |-> "none",
     minSeason |-> 0, minEpisode |-> 0, maxSeason |-> 0, maxEpisode |-> 0]

MCSavedFeeds == <<[url |-> "u1", active |-> TRUE, age |-> 2]>>
Saved(cfg, n) == [cfg |-> cfg, matches |-> {}, old |-> {}, name |-> n]
MCSavedAccept == <<Saved(Config(TRUE, "all"), 1)>>
MCSavedReject == <<Saved(MCNewConfig, 2)>>

MCUrls == {"u1", "u2"}
MCAges == {1, 2}
MCFeedIds == {1, 2}
MCAddr == {1, 2, 3}

---------------------------------------------------------------------------
VARIABLES
    part,
    routers, ports, mapped, portEvents, portFailures

\* Two routers with one service each; the port of the server is in use
UPnP == INSTANCE PortForwarding WITH
    Routers <- {"r1", "r2"}, Ports <- {"server", "dht"}, InUse <- <<"server">>,
    Services <- [r \in {"r1", "r2"} |-> {"ip"}], MaxDownloads <- 1, MaxPorts <- 2,
    Addr <- MCAddr, MaxEvents <- 3, MaxFailures <- 1,
    u <- routers, events <- portEvents, failures <- portFailures

ASSUME UPnP!PortForwardingConstants

---------------------------------------------------------------------------
upnpVars == <<routers, ports, mapped, portEvents, portFailures>>

MCInit ==
    /\ part \in {"trackers", "rss", "upnp"}
    /\ Init /\ RssInit /\ UPnP!Init
    /\ part # "trackers" => \A t \in UDP : w.udp[t].n = 0    \* it is not seen

MCNext ==
    \/ part = "trackers" /\ Next /\ UNCHANGED <<part, rssVars, upnpVars>>
    \/ part = "rss" /\ RssNext /\ UNCHANGED <<part, vars, upnpVars>>
    \/ part = "upnp" /\ UPnP!Next /\ UNCHANGED <<part, vars, rssVars>>

MCSpec == MCInit /\ [][MCNext]_<<part, vars, rssVars, upnpVars>>

---------------------------------------------------------------------------
\* What is shown as forwarded is what the routers forward, and the default device has a
\* forwarding of every port in use (UPnPRouter::forward, UPnPPrefWidget::portAdded)
DefaultDeviceServes == part = "upnp" => UPnP!DefaultDeviceServes

\* Unloading takes back what the default device forwards (UPnPPrefWidget::shutdown)
UnloadUndoes == UPnP!UnloadUndoes
=============================================================================
