------------------------------- MODULE Config -------------------------------
(***************************************************************************)
(* load_config (config.py): what becomes of a configuration file.  A YAML  *)
(* mapping is a function from its keys, a key with no value is Absent, and *)
(* Misshapen is a value where the loader wants one of another shape.  The  *)
(* loader reads section by section and stops at the first fault, which it  *)
(* either reports as a ConfigError ("invalid") or lets through as another  *)
(* exception ("broken").  Settings nothing else here depends on (Crafty's  *)
(* address, logging, health, texts) are checked and not kept.              *)
(***************************************************************************)
EXTENDS Integers, Sequences, FiniteSetsExt

CONSTANTS
    Absent, Misshapen,
    Unreadable,\* a file that cannot be opened, or whose bytes are no UTF-8
    Numeral,   \* the scalars int() takes |-> what it makes of them
    Lowered,   \* the scalars lower() changes |-> what it makes of them
    Rooted,    \* the paths without a slash in front |-> with one
    Tokens     \* the environment variables that hold something

ASSUME ConfigAssumption ==
    /\ Absent # Misshapen /\ Unreadable # Misshapen
    /\ \A s \in DOMAIN Numeral : Numeral[s] \in Int

Empty == [k \in {} |-> Absent]

\* No configuration: one without servers, which no file makes.
None == [order |-> <<>>]

\* raw.get(k) and raw.get(k, {}): a section left out is empty, while one
\* without a value is None.
Key(raw, k) ==
    IF raw \notin {Absent, Misshapen} /\ k \in DOMAIN raw THEN raw[k] ELSE Absent
Section(file, k) == IF k \in DOMAIN file THEN file[k] ELSE Empty

Falsy == {Absent, "", "false"}

\* _get, for each type it coerces to ...
Str(raw, k, default)    == IF Key(raw, k) = Absent THEN default ELSE Key(raw, k)
Bool(raw, k, default)   == IF Key(raw, k) = Absent THEN default ELSE Key(raw, k) \notin Falsy
Number(raw, k, default) == IF Key(raw, k) = Absent THEN default ELSE Numeral[Key(raw, k)]

\* ... and whether int() takes every one of these keys.
Counts(raw, keys) == \A k \in keys : Key(raw, k) \in DOMAIN Numeral \cup {Absent}

Lower(s)   == IF s \in DOMAIN Lowered THEN Lowered[s] ELSE s
Slashed(s) == IF s \in DOMAIN Rooted THEN Rooted[s] ELSE s

(***************************************************************************)
(* The checks, in the order the loader makes them.                         *)
(***************************************************************************)

Require(holds, otherwise) == IF holds THEN "good" ELSE otherwise

\* What a load comes to whose steps come to these.
First(steps) ==
    LET faults == {i \in DOMAIN steps : steps[i] # "good"}
    IN IF faults = {} THEN "good" ELSE steps[Min(faults)]

Access(raw)  == IF Key(raw, "access") = Absent THEN Empty ELSE Key(raw, "access")
Mode(access) == Lower(Str(access, "mode", "off"))
Edition(raw) == Lower(Str(raw, "edition", "java"))

\* A file to read, or names in the configuration itself.
Listed(access) == \/ Str(access, "whitelist_file", "") # ""
                  \/ Str(access, "allowed_players", <<>>) # <<>>

AccessCheck(access) ==
    First(<<Require(access # Misshapen, "broken"),
            Require(Mode(access) \in {"off", "whitelist"}, "invalid"),
            Require(Key(access, "allowed_players") # Misshapen, "invalid"),
            Require(Mode(access) = "whitelist" => Listed(access), "invalid")>>)

\* The port is the one number read by a plain int().
ServerCheck(raw) ==
    First(<<Require(raw # Misshapen, "invalid"),
            Require(Key(raw, "crafty_server_id") \notin Falsy, "invalid"),
            Require(Key(raw, "listen_port") # Absent, "invalid"),
            Require(Edition(raw) \in {"java", "bedrock"}, "invalid"),
            Require(Key(raw, "listen_port") \in DOMAIN Numeral, "broken"),
            Require(Counts(raw, {"idle_timeout_minutes", "start_timeout_seconds"}), "invalid"),
            AccessCheck(Access(raw))>>)

SamePort(raw, other) ==
    LET p == Key(raw, "listen_port")  q == Key(other, "listen_port")
    IN {p, q} \subseteq DOMAIN Numeral /\ Numeral[p] = Numeral[q]

\* Mutant: two servers on one port.
ServersCheckPortless(servers) ==
    First(<<Require(servers \notin {Absent, Empty}, "invalid"),
            Require(servers # Misshapen, "broken"),
            IF servers \in {Absent, Misshapen} THEN "good"
            ELSE First([i \in DOMAIN servers |-> ServerCheck(servers[i].raw)])>>)

\* servers is the mapping in the file's order: <<[name, raw], ...>>.
ServersCheck(servers) ==
    First(<<Require(servers \notin {Absent, Empty}, "invalid"),
            Require(servers # Misshapen, "broken"),
            IF servers \in {Absent, Misshapen} THEN "good"
            ELSE First([i \in DOMAIN servers |->
                   First(<<ServerCheck(servers[i].raw),
                           Require(\A j \in 1 .. i - 1 : ~SamePort(servers[j].raw, servers[i].raw),
                                   "invalid")>>)])>>)

SectionCheck(section, numbers) ==
    First(<<Require(section \notin {Absent, Misshapen}, "broken"),
            Require(Counts(section, numbers), "invalid")>>)

WebhookCheck(webhook) ==
    First(<<SectionCheck(webhook, {"denied_notify_cooldown_minutes"}),
            Require(Bool(webhook, "enabled", FALSE) => Str(webhook, "url", "") # "", "invalid")>>)

TokenCheck(crafty) ==
    Require(Str(crafty, "api_token_env", "CRAFTY_API_TOKEN") \in Tokens, "invalid")

\* load_config of a file's root mapping; of no file, of a file that is no YAML
\* or no mapping, which are Misshapen too.  An OSError or a UnicodeDecodeError
\* is no YAMLError, and gets through.
Check(file) ==
    IF file = Misshapen THEN "invalid"
    ELSE IF file = Unreadable THEN "broken"
    ELSE First(<<
        SectionCheck(Section(file, "crafty"), {}),
        ServersCheck(Section(file, "servers")),
        SectionCheck(Section(file, "polling"),
            {"interval_seconds", "api_retry_delay_seconds", "api_max_retries"}),
        SectionCheck(Section(file, "cooldowns"),
            {"stop_cooldown_minutes", "start_grace_minutes", "flap_window_minutes",
             "flap_max_cycles", "flap_backoff_minutes"}),
        SectionCheck(Section(file, "logging"), {"max_bytes", "backup_count"}),
        WebhookCheck(Section(file, "webhook")),
        SectionCheck(Section(file, "health"), {"port"}),
        SectionCheck(Section(file, "crafty_events"), {}),
        SectionCheck(Section(file, "state"), {}),
        TokenCheck(Section(file, "crafty"))>>)

(***************************************************************************)
(* The configuration a good file makes.                                    *)
(***************************************************************************)

AccessConfig(access) ==
    [mode    |-> Mode(access),
     file    |-> Str(access, "whitelist_file", ""),
     players |-> Str(access, "allowed_players", <<>>)]

ServerConfig(raw) ==
    [crafty_server_id      |-> Key(raw, "crafty_server_id"),
     listen_port           |-> Numeral[Key(raw, "listen_port")],
     edition               |-> Edition(raw),
     idle_timeout_minutes  |-> Number(raw, "idle_timeout_minutes", 10),
     start_timeout_seconds |-> Number(raw, "start_timeout_seconds", 180),
     access                |-> AccessConfig(Access(raw))]

\* The servers are indexed by name; order keeps the file's order.
AppConfig(file) ==
    LET servers == Section(file, "servers")
        order   == [i \in DOMAIN servers |-> servers[i].name]
        webhook == Section(file, "webhook")
    IN [order    |-> order,
        servers  |-> [n \in {order[i] : i \in DOMAIN order} |->
                        ServerConfig(servers[CHOOSE i \in DOMAIN order : order[i] = n].raw)],
        interval |-> Number(Section(file, "polling"), "interval_seconds", 30),
        cooldown |-> Number(Section(file, "cooldowns"), "stop_cooldown_minutes", 5),
        webhook  |-> [enabled |-> Bool(webhook, "enabled", FALSE), url |-> Str(webhook, "url", "")],
        path     |-> Slashed(Str(Section(file, "crafty_events"), "path", "/events/crafty")),
        state    |-> Str(Section(file, "state"), "file", "")]

LoadConfig(file) ==
    [outcome |-> Check(file), config |-> IF Check(file) = "good" THEN AppConfig(file) ELSE None]
=============================================================================
