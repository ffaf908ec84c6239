------------------------------- MODULE MCClients -------------------------------
(* Clients on a small instance: see the .cfg file that names it. *)
EXTENDS Clients, TLC

MCOwnMaps == <<("user-agent" :> "own") @@ ("authorization" :> "own"),
               ("Authorization" :> "own") @@ ("X-Access-Token" :> "own")>>

Config(key, token, headers, extra) ==
    [apiKey |-> key, accessToken |-> token, debug |-> FALSE, headers |-> headers, extra |-> extra]

MCCallerConfigs == {Config("", "", 0, 0), Config("own", "", 1, 2), Config("own", "own", 2, 0)}

MCEnvironments == {[apiKey |-> "", accessToken |-> "", debug |-> FALSE],
                   [apiKey |-> "env", accessToken |-> "env", debug |-> TRUE]}

(* Around every gate, with missing, bad, long and no segments. *)
MCVersions == {<<0, 1, Bad>>, <<Bad, 9>>, <<0, 3, 10>>, <<0, 4>>, <<0, 5, 2>>, <<0, 5, 10>>, <<1>>, <<>>}

MCNewKeys == {"Authorization"}
================================================================================
