------------------------------ MODULE MCWatcher ------------------------------
(***************************************************************************)
(* Watcher for TLC: configuration files, as a good one and what may be     *)
(* wrong with it.                                                          *)
(***************************************************************************)
EXTENDS Watcher, TLC

Numerals == ("0" :> 0) @@ ("10" :> 10) @@ ("25565" :> 25565) @@ ("25566" :> 25566)
Lowers   == ("Bedrock" :> "bedrock") @@ ("Whitelist" :> "whitelist")
Roots    == ("events" :> "/events")
EnvVars  == {"CRAFTY_API_TOKEN"}

Entry(n, raw) == [name |-> n, raw |-> raw]

RawA == [crafty_server_id |-> "idA", listen_port |-> "25565"]
RawB == [crafty_server_id |-> "idB", listen_port |-> "25566"]

Of(a, b) == [servers |-> <<Entry("a", a), Entry("b", b)>>]

Good  == Of(RawA, RawB)
\* Edited: a timeout and a whitelist for a; b alone, with a cooldown.
Tuned == Of(RawA @@ [idle_timeout_minutes |-> "0",
                     access |-> [mode |-> "Whitelist", whitelist_file |-> "list"]], RawB)
Alone == [servers |-> <<Entry("b", [RawB EXCEPT !.crafty_server_id = "idC", !.listen_port = "25565"])>>,
          cooldowns |-> [stop_cooldown_minutes |-> "0"], polling |-> [interval_seconds |-> "10"]]

\* The faults a server can have ...
Faulty ==
    {Misshapen} \cup
    {RawA @@ [idle_timeout_minutes |-> t] : t \in {"soon", Misshapen}} \cup
    {RawA @@ [access |-> a] : a \in
        {Misshapen, [mode |-> "open"], [mode |-> "Whitelist"],
         [mode |-> "whitelist", allowed_players |-> Misshapen]}} \cup
    {[RawA EXCEPT !.crafty_server_id = i] : i \in {Absent, ""}} \cup
    {[RawA EXCEPT !.listen_port = p] : p \in {Absent, "auto", Misshapen, "25566"}} \cup
    {RawA @@ [edition |-> "pocket"]}

\* ... and the other sections.
Faults ==
    {[polling |-> s] : s \in {Absent, Misshapen, [interval_seconds |-> "often"]}} \cup
    {[crafty |-> s] : s \in {Absent, [api_token_env |-> "UNSET"]}} \cup
    {[webhook |-> [enabled |-> "true", url |-> Absent]], [logging |-> Misshapen],
     [cooldowns |-> [flap_max_cycles |-> "few"]]}

\* A good file of which nothing is a default.
Peculiar ==
    [servers |-> <<Entry("b", RawB @@ [edition |-> "Bedrock",
                        access |-> [mode |-> "whitelist", allowed_players |-> <<"alice">>]])>>,
     webhook |-> [enabled |-> "true", url |-> "url"], crafty_events |-> [path |-> "events"],
     state |-> [file |-> "state"], health |-> [enabled |-> "false"]]

AtStart == {Good, Peculiar, Misshapen, Unreadable, Empty, [servers |-> Misshapen]}
           \cup {Of(r, RawB) : r \in Faulty} \cup {Good @@ s : s \in Faults}

Written == <<Tuned, Misshapen, Alone, Of(RawA, [RawB EXCEPT !.listen_port = "auto"])>>
=============================================================================
