---------------------------- MODULE WatcherProofs ----------------------------
(***************************************************************************)
(* For any servers, any configuration files and any number of edits,       *)
(* reloads and passes: the settings in use are sound, each of them taken   *)
(* from the last accepted file or kept from the first, and a shutdown is   *)
(* seen after one more pass and leaves no listener that it found between   *)
(* two passes.                                                             *)
(***************************************************************************)
EXTENDS Watcher, SequenceTheorems, WellFoundedInduction, TLAPS

(***************************************************************************)
(* The invariants.                                                         *)
(***************************************************************************)

\* What the loader returns was checked.
FileInv ==
    /\ file \in {LoadConfig(f) : f \in Files}
    /\ edits \in 0 .. Len(Edits)

\* A loop that runs has servers to run over.
StageInv ==
    /\ stage \in {"checking", "listing", "running", "done"} => cfg # None
    /\ step # "unstarted" => cfg # None
    /\ stage = "running" => step # "unstarted"
    /\ stage \in {"loading", "checking", "listing"} => step = "unstarted"
    /\ step = "unstarted" => at = 0
    /\ cfg = None <=> order = <<>>

\* The shape of settings.
IsServer(s) ==
    s = [crafty_server_id      |-> s.crafty_server_id,
         listen_port           |-> s.listen_port,
         edition               |-> s.edition,
         idle_timeout_minutes  |-> s.idle_timeout_minutes,
         start_timeout_seconds |-> s.start_timeout_seconds,
         access                |-> s.access]

IsConfig(c) ==
    /\ c = [order |-> c.order, servers |-> c.servers, interval |-> c.interval,
            cooldown |-> c.cooldown, webhook |-> c.webhook, path |-> c.path, state |-> c.state]
    /\ c.order \in Seq(Names) /\ c.order # <<>>
    /\ c.servers = [n \in DOMAIN c.servers |-> c.servers[n]]
    /\ DOMAIN c.servers \subseteq Names
    /\ \A n \in DOMAIN c.servers : IsServer(c.servers[n])

\* What a shutdown finds: the passes begun since, and what is left to close.
PassInv ==
    /\ shutdown \in BOOLEAN /\ caught \in BOOLEAN
    /\ ~shutdown => late = 0
    /\ late \in {0, 1}
    /\ late = 1 => step \notin {"asleep", "unstarted"}
    /\ closer = "closing" => shutdown
    /\ shutdown /\ ~caught /\ late = 0 =>
         /\ step \in {"asleep", "ended"}
         /\ closer = "closing" => \A n \in Names : listening[n] => n \in toClose

\* What the loader excludes.
PortsDiffer(c)   == \A n, m \in DOMAIN c.servers :
                      c.servers[n].listen_port = c.servers[m].listen_port => n = m
AccessSound(c)   == \A n \in DOMAIN c.servers :
                      LET a == c.servers[n].access
                      IN a.mode = "whitelist" => a.file # "" \/ a.players # <<>>
WebhookSound(c)  == c.webhook.enabled => c.webhook.url # ""
Sound(c)         == PortsDiffer(c) /\ AccessSound(c) /\ WebhookSound(c)

SettingsInv ==
    cfg # None =>
        /\ IsConfig(cfg) /\ IsConfig(first) /\ IsConfig(last)
        /\ order = cfg.order
        /\ Sound(cfg)
        /\ TakenOverOrKept
(***************************************************************************)
(* The loader.                                                             *)
(***************************************************************************)

LEMMA LeastExists ==
    ASSUME NEW S, S \subseteq Nat, S # {}
    PROVE  \E x \in S : \A y \in S : x <= y
<1>1. PICK x \in S : \A y \in S : ~ (<<y, x>> \in OpToRel(<, Nat))
  BY NatLessThanWellFounded, WFMin
<1>2. ASSUME NEW y \in S PROVE x <= y
  <2>1. ~(y < x)
    BY <1>1 DEF OpToRel
  <2> QED
    BY <2>1
<1> QED
  BY <1>2

LEMMA FirstGood ==
    ASSUME NEW steps, DOMAIN steps \subseteq Nat, First(steps) = "good"
    PROVE  \A i \in DOMAIN steps : steps[i] = "good"
<1> DEFINE faults == {i \in DOMAIN steps : steps[i] # "good"}
<1>1. CASE faults # {}
  <2>1. Min(faults) \in faults
    <3>1. \E x \in faults : \A y \in faults : x <= y
      BY <1>1, LeastExists
    <3> QED
      BY <3>1 DEF Min
  <2> QED
    BY <1>1, <2>1 DEF First
<1> QED
  BY <1>1

LEMMA BothGood ==
    ASSUME NEW a, NEW b, First(<<a, b>>) = "good"
    PROVE  a = "good" /\ b = "good"
<1>1. DOMAIN <<a, b>> = 1 .. 2
  OBVIOUS
<1> QED
  BY <1>1, FirstGood

LEMMA ThreeGood ==
    ASSUME NEW a, NEW b, NEW c, First(<<a, b, c>>) = "good"
    PROVE  a = "good" /\ b = "good" /\ c = "good"
<1>1. DOMAIN <<a, b, c>> = 1 .. 3
  OBVIOUS
<1> QED
  BY <1>1, FirstGood

\* An access section that passes is one the controller can go by.
LEMMA AccessIsSound ==
    ASSUME NEW access, AccessCheck(access) = "good", Mode(access) = "whitelist"
    PROVE  Listed(access)
<1> DEFINE steps == <<Require(access # Misshapen, "broken"),
                      Require(Mode(access) \in {"off", "whitelist"}, "invalid"),
                      Require(Key(access, "allowed_players") # Misshapen, "invalid"),
                      Require(Mode(access) = "whitelist" => Listed(access), "invalid")>>
<1>1. DOMAIN steps = 1 .. 4
  OBVIOUS
<1>2. steps[4] = "good"
  BY <1>1, FirstGood DEF AccessCheck
<1> QED
  BY <1>2 DEF Require
LEMMA ServerIsSound ==
    ASSUME NEW raw, ServerCheck(raw) = "good"
    PROVE  /\ Key(raw, "listen_port") \in DOMAIN Numeral
           /\ AccessCheck(Access(raw)) = "good"
<1> DEFINE steps == <<Require(raw # Misshapen, "invalid"),
                      Require(Key(raw, "crafty_server_id") \notin Falsy, "invalid"),
                      Require(Key(raw, "listen_port") # Absent, "invalid"),
                      Require(Edition(raw) \in {"java", "bedrock"}, "invalid"),
                      Require(Key(raw, "listen_port") \in DOMAIN Numeral, "broken"),
                      Require(Counts(raw, {"idle_timeout_minutes", "start_timeout_seconds"}), "invalid"),
                      AccessCheck(Access(raw))>>
<1>1. DOMAIN steps = 1 .. 7
  OBVIOUS
<1>2. steps[5] = "good" /\ steps[7] = "good"
  BY <1>1, FirstGood DEF ServerCheck
<1> QED
  BY <1>2 DEF Require

\* Of servers that pass: there are some, each passes, and no two share a port.
LEMMA ServersAreSound ==
    ASSUME NEW servers, ServersCheck(servers) = "good",
           servers \notin {Absent, Misshapen} => DOMAIN servers \subseteq Nat
    PROVE  /\ servers \notin {Absent, Misshapen, Empty}
           /\ \A i \in DOMAIN servers :
                /\ ServerCheck(servers[i].raw) = "good"
                /\ \A j \in 1 .. i - 1 : ~SamePort(servers[j].raw, servers[i].raw)
<1> DEFINE apart(i) == Require(\A j \in 1 .. i - 1 : ~SamePort(servers[j].raw, servers[i].raw), "invalid")
           each(i)  == First(<<ServerCheck(servers[i].raw), apart(i)>>)
           all      == [i \in DOMAIN servers |-> each(i)]
           some     == Require(servers \notin {Absent, Empty}, "invalid")
           shaped   == Require(servers # Misshapen, "broken")
           rest     == IF servers \in {Absent, Misshapen} THEN "good" ELSE First(all)
<1>1. First(<<some, shaped, rest>>) = "good"
  BY DEF ServersCheck
<1>2. some = "good" /\ shaped = "good" /\ rest = "good"
  <2> HIDE DEF some, shaped, rest
  <2> QED
    BY <1>1, ThreeGood
<1>3. servers \notin {Absent, Misshapen, Empty}
  BY <1>2 DEF Require
<1>4. First(all) = "good" /\ DOMAIN all = DOMAIN servers
  BY <1>2, <1>3
<1>5. ASSUME NEW i \in DOMAIN servers
      PROVE  ServerCheck(servers[i].raw) = "good" /\ apart(i) = "good"
  <2> HIDE DEF each, apart
  <2>1. all[i] = "good"
    <3> HIDE DEF all
    <3> QED
      BY <1>3, <1>4, FirstGood
  <2>2. First(<<ServerCheck(servers[i].raw), apart(i)>>) = "good"
    BY <2>1 DEF each
  <2> QED
    BY <2>2, BothGood
<1>6. ASSUME NEW i \in DOMAIN servers, NEW j \in 1 .. i - 1
      PROVE  ~SamePort(servers[j].raw, servers[i].raw)
  BY <1>5 DEF Require
<1> QED
  BY <1>3, <1>5, <1>6
LEMMA WebhookIsSound ==
    ASSUME NEW webhook, WebhookCheck(webhook) = "good", Bool(webhook, "enabled", FALSE)
    PROVE  Str(webhook, "url", "") # ""
<1> DEFINE section == SectionCheck(webhook, {"denied_notify_cooldown_minutes"})
           address == Require(Bool(webhook, "enabled", FALSE) => Str(webhook, "url", "") # "", "invalid")
<1>1. First(<<section, address>>) = "good"
  BY DEF WebhookCheck
<1>2. address = "good"
  <2> HIDE DEF section, address
  <2> QED
    BY <1>1, BothGood
<1> QED
  BY <1>2 DEF Require

LEMMA FileIsSound ==
    ASSUME NEW f, Check(f) = "good"
    PROVE  /\ f \notin {Misshapen, Unreadable}
           /\ ServersCheck(Section(f, "servers")) = "good"
           /\ WebhookCheck(Section(f, "webhook")) = "good"
<1>1. f \notin {Misshapen, Unreadable}
  BY DEF Check
<1> DEFINE s1  == SectionCheck(Section(f, "crafty"), {})
           s2  == ServersCheck(Section(f, "servers"))
           s3  == SectionCheck(Section(f, "polling"),
                    {"interval_seconds", "api_retry_delay_seconds", "api_max_retries"})
           s4  == SectionCheck(Section(f, "cooldowns"),
                    {"stop_cooldown_minutes", "start_grace_minutes", "flap_window_minutes",
                     "flap_max_cycles", "flap_backoff_minutes"})
           s5  == SectionCheck(Section(f, "logging"), {"max_bytes", "backup_count"})
           s6  == WebhookCheck(Section(f, "webhook"))
           s7  == SectionCheck(Section(f, "health"), {"port"})
           s8  == SectionCheck(Section(f, "crafty_events"), {})
           s9  == SectionCheck(Section(f, "state"), {})
           s10 == TokenCheck(Section(f, "crafty"))
<1>2. First(<<s1, s2, s3, s4, s5, s6, s7, s8, s9, s10>>) = "good"
  BY <1>1 DEF Check
<1>3. s2 = "good" /\ s6 = "good"
  <2> HIDE DEF s1, s2, s3, s4, s5, s6, s7, s8, s9, s10
  <2> DEFINE steps == <<s1, s2, s3, s4, s5, s6, s7, s8, s9, s10>>
  <2>1. DOMAIN steps = 1 .. 10 /\ steps[2] = s2 /\ steps[6] = s6
    OBVIOUS
  <2>2. \A i \in DOMAIN steps : steps[i] = "good"
    <3>1. DOMAIN steps \subseteq Nat
      BY <2>1
    <3> HIDE DEF steps
    <3> QED
      BY <1>2, <3>1, FirstGood DEF steps
  <2> QED
    BY <2>1, <2>2
<1> QED
  BY <1>1, <1>3
LEMMA ServerConfigFields ==
    ASSUME NEW raw
    PROVE  /\ IsServer(ServerConfig(raw))
           /\ ServerConfig(raw).listen_port = Numeral[Key(raw, "listen_port")]
           /\ ServerConfig(raw).access = AccessConfig(Access(raw))
  BY DEF ServerConfig, IsServer

LEMMA AccessConfigIsSound ==
    ASSUME NEW access, AccessCheck(access) = "good", AccessConfig(access).mode = "whitelist"
    PROVE  AccessConfig(access).file # "" \/ AccessConfig(access).players # <<>>
<1>1. Listed(access)
  BY AccessIsSound DEF AccessConfig
<1> QED
  BY <1>1 DEF Listed, AccessConfig

\* What a good file makes has the shape of settings, and is sound.
LEMMA FileConfig ==
    ASSUME NEW f \in Files, Check(f) = "good"
    PROVE  IsConfig(AppConfig(f)) /\ Sound(AppConfig(f))
<1> DEFINE servers == Section(f, "servers")
           names   == [i \in DOMAIN servers |-> servers[i].name]
           place(n) == CHOOSE i \in DOMAIN names : names[i] = n
           webhook == Section(f, "webhook")
           c       == AppConfig(f)
<1>1. /\ ServersCheck(servers) = "good"
      /\ servers \notin {Absent, Misshapen} =>
           /\ servers \in Seq({servers[i] : i \in DOMAIN servers})
           /\ \A i \in DOMAIN servers : servers[i].name \in Names
  BY FileIsSound, FilesAssumption
<1>2. servers \notin {Absent, Misshapen} => DOMAIN servers = 1 .. Len(servers) /\ Len(servers) \in Nat
  BY <1>1
<1>3. /\ servers \notin {Absent, Misshapen, Empty}
      /\ \A i \in DOMAIN servers :
           /\ ServerCheck(servers[i].raw) = "good"
           /\ \A j \in 1 .. i - 1 : ~SamePort(servers[j].raw, servers[i].raw)
  <2> HIDE DEF servers
  <2> QED
    BY <1>1, <1>2, ServersAreSound
<1>4. names \in Seq(Names) /\ names # <<>>
  <2>1. DOMAIN names = 1 .. Len(servers) /\ Len(servers) \in Nat /\ names \in [1 .. Len(servers) -> Names]
    BY <1>1, <1>2, <1>3
  <2>2. names \in Seq(Names)
    BY <2>1, IsASeq
  <2>3. ASSUME names = <<>> PROVE FALSE
    <3>1. servers \in [1 .. 0 -> {}]
      BY <1>1, <1>2, <1>3, <2>1, <2>3
    <3>2. servers = Empty
      BY <3>1 DEF Empty
    <3> QED
      BY <1>3, <3>2
  <2> QED
    BY <2>2, <2>3
<1>5. /\ c.order = names
      /\ c.servers = [n \in {names[i] : i \in DOMAIN names} |-> ServerConfig(servers[place(n)].raw)]
      /\ c.webhook.enabled = Bool(webhook, "enabled", FALSE)
      /\ c.webhook.url = Str(webhook, "url", "")
      /\ c = [order |-> c.order, servers |-> c.servers, interval |-> c.interval,
              cooldown |-> c.cooldown, webhook |-> c.webhook, path |-> c.path, state |-> c.state]
  <2>1. c.order = names
    BY DEF AppConfig
  <2>2. c.servers = [n \in {names[i] : i \in DOMAIN names} |-> ServerConfig(servers[place(n)].raw)]
    BY Zenon DEF AppConfig
  <2>3. c.webhook.enabled = Bool(webhook, "enabled", FALSE) /\ c.webhook.url = Str(webhook, "url", "")
    BY DEF AppConfig
  <2>4. c = [order |-> c.order, servers |-> c.servers, interval |-> c.interval,
             cooldown |-> c.cooldown, webhook |-> c.webhook, path |-> c.path, state |-> c.state]
    BY DEF AppConfig
  <2> QED
    BY <2>1, <2>2, <2>3, <2>4
<1> HIDE DEF servers, c, webhook
<1>6. \A n \in DOMAIN c.servers : place(n) \in DOMAIN servers /\ names[place(n)] = n
  <2>1. DOMAIN c.servers = {names[i] : i \in DOMAIN names} /\ DOMAIN names = DOMAIN servers
    BY <1>5
  <2> HIDE DEF names
  <2> QED
    BY <2>1
<1>7. \A n \in DOMAIN c.servers :
        /\ IsServer(c.servers[n])
        /\ c.servers[n].listen_port = Numeral[Key(servers[place(n)].raw, "listen_port")]
        /\ c.servers[n].access = AccessConfig(Access(servers[place(n)].raw))
  <2> HIDE DEF place, names
  <2> QED
    BY <1>5, ServerConfigFields
<1> HIDE DEF place
<1>8. IsConfig(c)
  <2>1. DOMAIN c.servers \subseteq Names /\ c.servers = [n \in DOMAIN c.servers |-> c.servers[n]]
    <3> HIDE DEF names
    <3> DEFINE made(n) == ServerConfig(servers[place(n)].raw)
    <3> HIDE DEF made
    <3>1. c.servers = [n \in {names[i] : i \in DOMAIN names} |-> made(n)]
      BY <1>5, Zenon DEF made
    <3>2. {names[i] : i \in DOMAIN names} \subseteq Names
      BY <1>4
    <3> QED
      BY <3>1, <3>2
  <2> QED
    BY <1>4, <1>5, <1>7, <2>1 DEF IsConfig
<1>9. PortsDiffer(c)
  <2> SUFFICES ASSUME NEW n \in DOMAIN c.servers, NEW m \in DOMAIN c.servers,
                      c.servers[n].listen_port = c.servers[m].listen_port
               PROVE  n = m
    BY DEF PortsDiffer
  <2> DEFINE i == place(n)  j == place(m)
  <2>1. i \in DOMAIN servers /\ j \in DOMAIN servers /\ names[i] = n /\ names[j] = m
    BY <1>6
  <2>2. Numeral[Key(servers[i].raw, "listen_port")] = Numeral[Key(servers[j].raw, "listen_port")]
    BY <1>7
  <2> HIDE DEF i, j, names
  <2>3. SamePort(servers[i].raw, servers[j].raw) /\ SamePort(servers[j].raw, servers[i].raw)
    BY <1>3, <2>1, <2>2, ServerIsSound DEF SamePort
  <2>4. i = j
    BY <1>2, <1>3, <2>1, <2>3
  <2> QED
    BY <2>1, <2>4
<1>10. AccessSound(c)
  <2>1. ASSUME NEW n \in DOMAIN c.servers, c.servers[n].access.mode = "whitelist"
        PROVE  c.servers[n].access.file # "" \/ c.servers[n].access.players # <<>>
    <3> DEFINE access == Access(servers[place(n)].raw)
    <3>1. AccessCheck(access) = "good" /\ c.servers[n].access = AccessConfig(access)
      BY <1>3, <1>6, <1>7, ServerIsSound
    <3> HIDE DEF access
    <3> QED
      BY <2>1, <3>1, AccessConfigIsSound
  <2> QED
    BY <2>1 DEF AccessSound
<1>11. WebhookSound(c)
  BY <1>5, FileIsSound, WebhookIsSound DEF WebhookSound, webhook
<1> QED
  BY <1>8, <1>9, <1>10, <1>11 DEF Sound, c
(***************************************************************************)
(* A load comes to one of three outcomes.                                  *)
(***************************************************************************)

Outcomes == {"good", "invalid", "broken"}

LEMMA FirstOutcome ==
    ASSUME NEW steps, DOMAIN steps \subseteq Nat, \A i \in DOMAIN steps : steps[i] \in Outcomes
    PROVE  First(steps) \in Outcomes
<1> DEFINE faults == {i \in DOMAIN steps : steps[i] # "good"}
<1>1. CASE faults # {}
  <2>1. \E x \in faults : \A y \in faults : x <= y
    BY <1>1, LeastExists
  <2>2. Min(faults) \in faults
    BY <2>1 DEF Min
  <2> QED
    BY <1>1, <2>2 DEF First
<1>2. CASE faults = {}
  BY <1>2 DEF First, Outcomes
<1> QED
  BY <1>1, <1>2

LEMMA RequireOutcome ==
    ASSUME NEW holds, NEW otherwise \in Outcomes PROVE Require(holds, otherwise) \in Outcomes
  BY DEF Require, Outcomes

LEMMA FaultsAreOutcomes == "invalid" \in Outcomes /\ "broken" \in Outcomes /\ "good" \in Outcomes
  BY DEF Outcomes

LEMMA TwoOutcomes ==
    ASSUME NEW a \in Outcomes, NEW b \in Outcomes PROVE First(<<a, b>>) \in Outcomes
<1> DEFINE steps == <<a, b>>
<1>1. DOMAIN steps = 1 .. 2 /\ \A k \in 1 .. 2 : steps[k] \in Outcomes
  OBVIOUS
<1> HIDE DEF steps
<1>2. First(steps) \in Outcomes
  BY <1>1, FirstOutcome
<1> QED
  BY <1>2 DEF steps

LEMMA ThreeOutcomes ==
    ASSUME NEW a \in Outcomes, NEW b \in Outcomes, NEW c \in Outcomes
    PROVE  First(<<a, b, c>>) \in Outcomes
<1> DEFINE steps == <<a, b, c>>
<1>1. DOMAIN steps = 1 .. 3 /\ \A k \in 1 .. 3 : steps[k] \in Outcomes
  OBVIOUS
<1> HIDE DEF steps
<1>2. First(steps) \in Outcomes
  BY <1>1, FirstOutcome
<1> QED
  BY <1>2 DEF steps

LEMMA FourOutcomes ==
    ASSUME NEW a \in Outcomes, NEW b \in Outcomes, NEW c \in Outcomes, NEW d \in Outcomes
    PROVE  First(<<a, b, c, d>>) \in Outcomes
<1> DEFINE steps == <<a, b, c, d>>
<1>1. DOMAIN steps = 1 .. 4 /\ \A k \in 1 .. 4 : steps[k] \in Outcomes
  OBVIOUS
<1> HIDE DEF steps
<1>2. First(steps) \in Outcomes
  BY <1>1, FirstOutcome
<1> QED
  BY <1>2 DEF steps

LEMMA SevenOutcomes ==
    ASSUME NEW a \in Outcomes, NEW b \in Outcomes, NEW c \in Outcomes, NEW d \in Outcomes,
           NEW e \in Outcomes, NEW f \in Outcomes, NEW g \in Outcomes
    PROVE  First(<<a, b, c, d, e, f, g>>) \in Outcomes
<1> DEFINE steps == <<a, b, c, d, e, f, g>>
<1>1. DOMAIN steps = 1 .. 7 /\ \A k \in 1 .. 7 : steps[k] \in Outcomes
  OBVIOUS
<1> HIDE DEF steps
<1>2. First(steps) \in Outcomes
  BY <1>1, FirstOutcome
<1> QED
  BY <1>2 DEF steps

LEMMA TenOutcomes ==
    ASSUME NEW a \in Outcomes, NEW b \in Outcomes, NEW c \in Outcomes, NEW d \in Outcomes, NEW e \in Outcomes,
           NEW f \in Outcomes, NEW g \in Outcomes, NEW h \in Outcomes, NEW i \in Outcomes, NEW j \in Outcomes
    PROVE  First(<<a, b, c, d, e, f, g, h, i, j>>) \in Outcomes
<1> DEFINE steps == <<a, b, c, d, e, f, g, h, i, j>>
<1>1. DOMAIN steps = 1 .. 10 /\ \A k \in 1 .. 10 : steps[k] \in Outcomes
  OBVIOUS
<1> HIDE DEF steps
<1>2. First(steps) \in Outcomes
  BY <1>1, FirstOutcome
<1> QED
  BY <1>2 DEF steps

LEMMA AccessOutcome == ASSUME NEW access PROVE AccessCheck(access) \in Outcomes
  BY RequireOutcome, FaultsAreOutcomes, FourOutcomes DEF AccessCheck

LEMMA ServerOutcome == ASSUME NEW raw PROVE ServerCheck(raw) \in Outcomes
  BY RequireOutcome, FaultsAreOutcomes, SevenOutcomes, AccessOutcome DEF ServerCheck

LEMMA SectionOutcome == ASSUME NEW section, NEW numbers PROVE SectionCheck(section, numbers) \in Outcomes
  BY RequireOutcome, FaultsAreOutcomes, TwoOutcomes DEF SectionCheck

LEMMA WebhookOutcome == ASSUME NEW webhook PROVE WebhookCheck(webhook) \in Outcomes
  BY RequireOutcome, FaultsAreOutcomes, TwoOutcomes, SectionOutcome DEF WebhookCheck

LEMMA ServersOutcome ==
    ASSUME NEW servers, servers \notin {Absent, Misshapen} => DOMAIN servers \subseteq Nat
    PROVE  ServersCheck(servers) \in Outcomes
<1> DEFINE apart(i) == Require(\A j \in 1 .. i - 1 : ~SamePort(servers[j].raw, servers[i].raw), "invalid")
           each(i)  == First(<<ServerCheck(servers[i].raw), apart(i)>>)
           all      == [i \in DOMAIN servers |-> each(i)]
           rest     == IF servers \in {Absent, Misshapen} THEN "good" ELSE First(all)
<1>1. \A i \in DOMAIN servers : each(i) \in Outcomes
  <2>1. \A i \in DOMAIN servers : apart(i) \in Outcomes
    BY RequireOutcome, FaultsAreOutcomes
  <2> HIDE DEF apart
  <2> QED
    BY <2>1, ServerOutcome, TwoOutcomes
<1> HIDE DEF each
<1>2. servers \notin {Absent, Misshapen} => First(all) \in Outcomes
  <2>1. DOMAIN all = DOMAIN servers /\ \A i \in DOMAIN all : all[i] \in Outcomes
    BY <1>1
  <2> HIDE DEF all
  <2> QED
    BY <2>1, FirstOutcome
<1>3. rest \in Outcomes
  BY <1>2, FaultsAreOutcomes
<1>4. ServersCheck(servers) =
        First(<<Require(servers \notin {Absent, Empty}, "invalid"), Require(servers # Misshapen, "broken"), rest>>)
  BY DEF ServersCheck, each
<1> HIDE DEF rest
<1> QED
  BY <1>3, <1>4, RequireOutcome, FaultsAreOutcomes, ThreeOutcomes

LEMMA LoadOutcome == ASSUME NEW f \in Files PROVE Check(f) \in Outcomes
<1> DEFINE servers == Section(f, "servers")
<1>1. CASE f \in {Misshapen, Unreadable}
  BY <1>1, FaultsAreOutcomes DEF Check
<1>2. CASE f \notin {Misshapen, Unreadable}
  <2>1. servers \notin {Absent, Misshapen} => DOMAIN servers \subseteq Nat
    <3>1. servers \notin {Absent, Misshapen} => servers \in Seq({servers[i] : i \in DOMAIN servers})
      BY <1>2, FilesAssumption
    <3> QED
      BY <3>1
  <2>2. ServersCheck(servers) \in Outcomes
    <3> HIDE DEF servers
    <3> QED
      BY <2>1, ServersOutcome
  <2>3. TokenCheck(Section(f, "crafty")) \in Outcomes
    BY RequireOutcome, FaultsAreOutcomes DEF TokenCheck
  <2> QED
    BY <1>2, <2>2, <2>3, SectionOutcome, WebhookOutcome, TenOutcomes DEF Check
<1> QED
  BY <1>1, <1>2

(***************************************************************************)
(* The settings in use.                                                    *)
(***************************************************************************)

\* What Merged takes over, and what it leaves.
LEMMA MergedConfig ==
    ASSUME IsConfig(cfg), Sound(cfg), NEW new, IsConfig(new), Sound(new), NEW m, m = Merged(new)
    PROVE  /\ IsConfig(m) /\ Sound(m)
           /\ m.order = cfg.order /\ DOMAIN m.servers = DOMAIN cfg.servers
           /\ m.cooldown = new.cooldown /\ m.interval = new.interval
           /\ m.webhook = cfg.webhook /\ m.path = cfg.path /\ m.state = cfg.state
           /\ \A n \in DOMAIN m.servers :
                /\ m.servers[n].crafty_server_id = cfg.servers[n].crafty_server_id
                /\ m.servers[n].listen_port = cfg.servers[n].listen_port
                /\ m.servers[n].edition = cfg.servers[n].edition
                /\ n \in DOMAIN new.servers =>
                     /\ m.servers[n].idle_timeout_minutes = new.servers[n].idle_timeout_minutes
                     /\ m.servers[n].start_timeout_seconds = new.servers[n].start_timeout_seconds
                     /\ m.servers[n].access = new.servers[n].access
<1> DEFINE both(n)  == [cfg.servers[n] EXCEPT
                          !.idle_timeout_minutes = new.servers[n].idle_timeout_minutes,
                          !.start_timeout_seconds = new.servers[n].start_timeout_seconds,
                          !.access = new.servers[n].access]
           one(n)   == IF n \notin DOMAIN new.servers THEN cfg.servers[n] ELSE both(n)
           servers  == [n \in DOMAIN cfg.servers |-> one(n)]
<1>1. m = [order |-> cfg.order, servers |-> servers, interval |-> new.interval,
           cooldown |-> new.cooldown, webhook |-> cfg.webhook, path |-> cfg.path, state |-> cfg.state]
  <2> DEFINE c == [order |-> cfg.order, servers |-> cfg.servers, interval |-> cfg.interval,
                   cooldown |-> cfg.cooldown, webhook |-> cfg.webhook, path |-> cfg.path, state |-> cfg.state]
  <2>1. cfg = c
    BY DEF IsConfig
  <2>2. m = [cfg EXCEPT !.servers = servers, !.cooldown = new.cooldown, !.interval = new.interval]
    BY DEF Merged
  <2>3. m = [c EXCEPT !.servers = servers, !.cooldown = new.cooldown, !.interval = new.interval]
    BY <2>1, <2>2
  <2> HIDE DEF servers
  <2> QED
    BY <2>3
<1>2. ASSUME NEW n \in DOMAIN cfg.servers
      PROVE  /\ IsServer(one(n))
             /\ one(n).crafty_server_id = cfg.servers[n].crafty_server_id
             /\ one(n).listen_port = cfg.servers[n].listen_port
             /\ one(n).edition = cfg.servers[n].edition
             /\ one(n).access = IF n \in DOMAIN new.servers THEN new.servers[n].access
                                ELSE cfg.servers[n].access
             /\ n \in DOMAIN new.servers =>
                  /\ one(n).idle_timeout_minutes = new.servers[n].idle_timeout_minutes
                  /\ one(n).start_timeout_seconds = new.servers[n].start_timeout_seconds
  <2>1. CASE n \notin DOMAIN new.servers
    BY <2>1 DEF IsConfig
  <2>2. CASE n \in DOMAIN new.servers
    <3>1. IsServer(cfg.servers[n])
      BY DEF IsConfig
    <3>2. one(n) = both(n)
      BY <2>2
    <3> DEFINE s == cfg.servers[n]
               idle   == new.servers[n].idle_timeout_minutes
               start  == new.servers[n].start_timeout_seconds
               access == new.servers[n].access
    <3>3. /\ IsServer(both(n))
          /\ both(n).crafty_server_id = s.crafty_server_id
          /\ both(n).listen_port = s.listen_port /\ both(n).edition = s.edition
          /\ both(n).idle_timeout_minutes = idle
          /\ both(n).start_timeout_seconds = start
          /\ both(n).access = access
      <4> DEFINE r == [crafty_server_id      |-> s.crafty_server_id,
                       listen_port           |-> s.listen_port,
                       edition               |-> s.edition,
                       idle_timeout_minutes  |-> s.idle_timeout_minutes,
                       start_timeout_seconds |-> s.start_timeout_seconds,
                       access                |-> s.access]
      <4>1. s = r
        BY <3>1 DEF IsServer
      <4>2. both(n) = [r EXCEPT !.idle_timeout_minutes = idle, !.start_timeout_seconds = start,
                                !.access = access]
        BY <4>1
      <4> HIDE DEF s, idle, start, access, both
      <4>3. both(n) = [crafty_server_id      |-> s.crafty_server_id,
                       listen_port           |-> s.listen_port,
                       edition               |-> s.edition,
                       idle_timeout_minutes  |-> idle,
                       start_timeout_seconds |-> start,
                       access                |-> access]
        BY <4>2
      <4> QED
        BY <4>3 DEF IsServer
    <3> HIDE DEF one, both
    <3> QED
      BY <2>2, <3>2, <3>3
  <2> QED
    BY <2>1, <2>2
<1> HIDE DEF one
<1>3. DOMAIN m.servers = DOMAIN cfg.servers /\ \A n \in DOMAIN m.servers : m.servers[n] = one(n)
  BY <1>1
<1>4. IsConfig(m)
  BY <1>1, <1>2, <1>3 DEF IsConfig
<1>5. PortsDiffer(m)
  BY <1>2, <1>3 DEF Sound, PortsDiffer
<1>6. AccessSound(m)
  <2>1. AccessSound(cfg) /\ AccessSound(new)
    BY DEF Sound
  <2>2. ASSUME NEW n \in DOMAIN m.servers, m.servers[n].access.mode = "whitelist"
        PROVE  m.servers[n].access.file # "" \/ m.servers[n].access.players # <<>>
    <3>1. CASE n \in DOMAIN new.servers
      <4>1. m.servers[n].access = new.servers[n].access
        BY <1>2, <1>3, <3>1
      <4> QED
        BY <2>1, <2>2, <3>1, <4>1 DEF AccessSound
    <3>2. CASE n \notin DOMAIN new.servers
      <4>1. m.servers[n].access = cfg.servers[n].access /\ n \in DOMAIN cfg.servers
        BY <1>2, <1>3, <3>2
      <4> QED
        BY <2>1, <2>2, <4>1 DEF AccessSound
    <3> QED
      BY <3>1, <3>2
  <2> QED
    BY <2>2 DEF AccessSound
<1>7. WebhookSound(m)
  <2>1. m.webhook = cfg.webhook
    BY <1>1
  <2>2. WebhookSound(cfg)
    BY DEF Sound
  <2> QED
    BY <2>1, <2>2 DEF WebhookSound
<1> QED
  BY <1>1, <1>2, <1>3, <1>4, <1>5, <1>6, <1>7 DEF Sound
LEMMA GoodFile ==
    ASSUME FileInv, file.outcome = "good"
    PROVE  IsConfig(file.config) /\ Sound(file.config)
<1>1. PICK f \in Files : file = LoadConfig(f)
  BY DEF FileInv
<1>2. Check(f) = "good" /\ file.config = AppConfig(f)
  BY <1>1 DEF LoadConfig
<1> QED
  BY <1>2, FileConfig

LEMMA ConfigIsSome ==
    ASSUME NEW c, IsConfig(c) PROVE c # None
  BY DEF IsConfig, None

LEMMA LoadsSettings ==
    ASSUME FileInv, Loads PROVE SettingsInv' /\ cfg' # None /\ order' # <<>>
<1> DEFINE new == file.config
<1>1. IsConfig(new) /\ Sound(new)
  BY GoodFile DEF Loads
<1>2. cfg' = new /\ first' = new /\ last' = new /\ order' = new.order /\ controllers' = Controllers(new)
  BY DEF Loads
<1> HIDE DEF new
<1>3. \A n \in DOMAIN new.servers : Controllers(new)[n] = new.servers[n].access
  BY DEF Controllers
<1>4. TakenOverOrKept'
  BY <1>2, <1>3 DEF TakenOverOrKept
<1>5. SettingsInv'
  BY <1>1, <1>2, <1>4 DEF SettingsInv
<1> QED
  BY <1>1, <1>2, <1>5, ConfigIsSome DEF IsConfig

LEMMA ReloadsSettings ==
    ASSUME FileInv, StageInv, SettingsInv, Reloads PROVE SettingsInv' /\ cfg' # None
<1> DEFINE new == file.config
<1>1. IsConfig(new) /\ Sound(new)
  BY GoodFile DEF Reloads
<1>2. last' = new /\ cfg' = Merged(new) /\ controllers' = Controllers(cfg') /\ first' = first /\ order' = order
  BY DEF Reloads, loopVars
<1>3. cfg # None
  BY DEF Reloads, Reloading, StageInv
<1>4. /\ IsConfig(cfg) /\ Sound(cfg) /\ IsConfig(first) /\ order = cfg.order /\ cfg.order = first.order
      /\ DOMAIN cfg.servers = DOMAIN first.servers
      /\ cfg.webhook = first.webhook /\ cfg.path = first.path /\ cfg.state = first.state
      /\ \A n \in DOMAIN cfg.servers :
           /\ cfg.servers[n].crafty_server_id = first.servers[n].crafty_server_id
           /\ cfg.servers[n].listen_port = first.servers[n].listen_port
           /\ cfg.servers[n].edition = first.servers[n].edition
  BY <1>3 DEF SettingsInv, TakenOverOrKept
<1> HIDE DEF new
<1>5. /\ IsConfig(cfg') /\ Sound(cfg')
      /\ cfg'.order = cfg.order /\ DOMAIN cfg'.servers = DOMAIN cfg.servers
      /\ cfg'.cooldown = new.cooldown /\ cfg'.interval = new.interval
      /\ cfg'.webhook = cfg.webhook /\ cfg'.path = cfg.path /\ cfg'.state = cfg.state
      /\ \A n \in DOMAIN cfg'.servers :
           /\ cfg'.servers[n].crafty_server_id = cfg.servers[n].crafty_server_id
           /\ cfg'.servers[n].listen_port = cfg.servers[n].listen_port
           /\ cfg'.servers[n].edition = cfg.servers[n].edition
           /\ n \in DOMAIN new.servers =>
                /\ cfg'.servers[n].idle_timeout_minutes = new.servers[n].idle_timeout_minutes
                /\ cfg'.servers[n].start_timeout_seconds = new.servers[n].start_timeout_seconds
                /\ cfg'.servers[n].access = new.servers[n].access
  BY <1>1, <1>2, <1>4, MergedConfig
<1>6. \A n \in DOMAIN cfg'.servers : controllers'[n] = cfg'.servers[n].access
  BY <1>2 DEF Controllers
<1>7. TakenOverOrKept'
  BY <1>2, <1>4, <1>5, <1>6 DEF TakenOverOrKept
<1> QED
  BY <1>1, <1>2, <1>4, <1>5, <1>7, ConfigIsSome DEF SettingsInv

LEMMA FileStays ==
    ASSUME FileInv, [Next]_vars PROVE FileInv'
<1>1. CASE UNCHANGED <<file, edits>>
  BY <1>1 DEF FileInv
<1>2. CASE Edited
  <2>1. edits' \in 1 .. Len(Edits) /\ edits' \in DOMAIN Edits /\ file' = LoadConfig(Edits[edits'])
    BY <1>2, FilesAssumption DEF Edited, FileInv
  <2> QED
    BY <2>1 DEF FileInv, Files
<1> QED
  BY <1>1, <1>2 DEF Next, vars, process, Loads, LoadFails, FindsCrafty, Lists, StartFails, Terminates, HangsUp,
                    Reloads, ReloadRefused, ReloadDies, Runs, Finishes
\* Any other step leaves the settings alone.
LEMMA SettingsStay ==
    ASSUME SettingsInv, UNCHANGED <<settings, order>> PROVE SettingsInv'
<1>1. cfg' = cfg /\ controllers' = controllers /\ first' = first /\ last' = last /\ order' = order
  BY DEF settings
<1>2. TakenOverOrKept <=> TakenOverOrKept'
  BY <1>1 DEF TakenOverOrKept
<1> QED
  BY <1>1, <1>2 DEF SettingsInv

(***************************************************************************)
(* The loops.                                                              *)
(***************************************************************************)

MonitorOK ==
    /\ step \in Steps
    /\ at \in 0 .. Len(order) /\ (step \in InPass => at > 0)
    /\ tries \in 0 .. BindTries - 1

WorldOK ==
    /\ {sleeping, listening, taken} \subseteq [Names -> BOOLEAN]
    /\ \A n \in Names : ~(listening[n] /\ taken[n])

\* ensure_listeners stops at a server or at the end of the pass, which a
\* shutdown makes the last.
LEMMA EnsuresTo ==
    ASSUME order \in Seq(Names), NEW i \in Nat \ {0}, EnsuresFrom(i)
    PROVE  /\ at' \in 0 .. Len(order) /\ tries' = 0
           /\ step' \in {"binding", "closing", "asleep", "ended"}
           /\ step' \in {"binding", "closing"} => at' > 0
           /\ shutdown => step' # "asleep"
<1> DEFINE todo == {j \in i .. Len(order) :
                      order[j] \in java /\ sleeping'[order[j]] # listening'[order[j]]}
           j    == CHOOSE j \in todo : \A k \in todo : j <= k
<1>0. Len(order) \in Nat
  OBVIOUS
<1>1. CASE todo = {}
  BY <1>0, <1>1 DEF EnsuresFrom, Rests
<1>2. CASE todo # {}
  <2>1. at' = j /\ tries' = 0 /\ step' = IF sleeping'[order[j]] THEN "binding" ELSE "closing"
    BY <1>2, Zenon DEF EnsuresFrom
  <2>2. todo \subseteq i .. Len(order)
    OBVIOUS
  <2> HIDE DEF todo
  <2>3. j \in todo
    <3>1. \E x \in todo : \A k \in todo : x <= k
      <4>1. todo \subseteq Nat
        BY <1>0, <2>2
      <4> QED
        BY <1>2, <4>1, LeastExists
    <3> QED
      BY <3>1
  <2> HIDE DEF j
  <2>4. j \in Nat \ {0} /\ j <= Len(order)
    BY <1>0, <2>2, <2>3
  <2> QED
    BY <1>0, <2>1, <2>4
<1> QED
  BY <1>1, <1>2

\* A step of the monitor inside a pass.
Within ==
    /\ step \in InPass
    /\ step' \in Steps \ {"unstarted"}
    /\ shutdown => step' # "asleep"

LEMMA EnsuresWithin ==
    ASSUME order \in Seq(Names), step \in InPass, NEW i \in Nat \ {0}, EnsuresFrom(i), order' = order
    PROVE  MonitorOK' /\ Within
  BY EnsuresTo, PollLoopAssumption DEF MonitorOK, Within, Steps, InPass

LEMMA PollsWithin ==
    ASSUME order \in Seq(Names), MonitorOK, step \in InPass, PollsNext, order' = order
    PROVE  MonitorOK' /\ Within
<1>1. CASE at < Len(order)
  BY <1>1, PollLoopAssumption DEF PollsNext, MonitorOK, Within, Steps, InPass
<1>2. CASE ~(at < Len(order))
  BY <1>2, EnsuresWithin DEF PollsNext
<1> QED
  BY <1>1, <1>2

\* What a step of the monitor does: it goes on inside its pass, begins one,
\* or is done for good.
LEMMA MonitorMoves ==
    ASSUME LoopTypeOK, order # <<>>, MonitorNext
    PROVE  /\ UNCHANGED <<order, java, stopping, shutdown, caught>>
           /\ MonitorOK' /\ WorldOK'
           /\ (Within /\ UNCHANGED late) \/ Wakes \/ MonitorEnds
<1>1. order \in Seq(Names) /\ MonitorOK /\ WorldOK /\ Len(order) \in Nat \ {0}
  <2>1. order \in Seq(Names) /\ MonitorOK /\ WorldOK
    BY DEF LoopTypeOK, MonitorOK, WorldOK
  <2> QED
    BY <2>1, EmptySeq
<1>2. step \in InPass => Here \in Names /\ at \in Nat \ {0}
  BY <1>1 DEF MonitorOK, Here
<1>3. ASSUME PollsNext, order' = order, step = "asking" \/ step = "pausing"
      PROVE  MonitorOK' /\ Within
  BY <1>1, <1>3, PollsWithin DEF InPass
<1>4. ASSUME EnsuresFrom(at + 1), order' = order, step = "binding" \/ step = "closing"
      PROVE  MonitorOK' /\ Within
  <2>1. at + 1 \in Nat \ {0} /\ step \in InPass
    BY <1>2, <1>4 DEF InPass
  <2> QED
    BY <1>1, <1>4, <2>1, EnsuresWithin
<1>5. UNCHANGED world => WorldOK'
  BY <1>1 DEF WorldOK, world
<1>6. CASE GetsStats
  BY <1>1, <1>3, <1>6 DEF GetsStats, WorldOK
<1>7. CASE PollFails \/ PauseEnds
  BY <1>3, <1>5, <1>7 DEF PollFails, PauseEnds
<1>8. CASE Forbids
  <2>1. step = "asking" /\ EnsuresFrom(1) /\ order' = order
    BY <1>8 DEF Forbids
  <2> QED
    BY <1>1, <1>5, <1>8, <2>1, EnsuresWithin DEF Forbids, InPass
<1>9. CASE Binds
  <2>1. WorldOK'
    BY <1>1, <1>2, <1>9 DEF Binds, WorldOK, InPass
  <2> QED
    BY <1>4, <1>9, <2>1 DEF Binds
<1>10. CASE Closes
  <2>1. WorldOK'
    BY <1>1, <1>2, <1>10 DEF Closes, WorldOK, InPass
  <2> QED
    BY <1>4, <1>10, <2>1 DEF Closes
<1>11. CASE BindGivesUp
  BY <1>4, <1>5, <1>11 DEF BindGivesUp
<1>12. CASE Unreachable \/ BindRetries \/ RetryEnds
  <2>1. /\ UNCHANGED <<order, at, world, late, java, stopping, shutdown, caught>>
        /\ Within /\ step' \in InPass /\ tries' \in 0 .. BindTries - 1
    BY <1>1, <1>12, PollLoopAssumption
    DEF Unreachable, BindRetries, RetryEnds, MonitorOK, Within, Steps, InPass
  <2> QED
    BY <1>1, <1>5, <2>1 DEF MonitorOK, Within
<1>13. CASE Wakes
  BY <1>1, <1>5, <1>13, PollLoopAssumption DEF Wakes, PassBegins, MonitorOK, Steps, InPass
<1>14. CASE MonitorEnds
  BY <1>1, <1>5, <1>14 DEF MonitorEnds, MonitorOK, Steps, InPass
<1> QED
  BY <1>6, <1>7, <1>8, <1>9, <1>10, <1>11, <1>12, <1>13, <1>14 DEF MonitorNext
\* The loop's variables keep their types, whoever moves.
LEMMA LoopTypesStay ==
    ASSUME LoopTypeOK, order # <<>>, LoopNext
    PROVE  LoopTypeOK' /\ order' = order
<1>1. CASE MonitorNext
  <2>1. late' \in Nat
    BY <1>1, MonitorMoves DEF LoopTypeOK, Wakes, PassBegins, MonitorEnds
  <2> QED
    BY <1>1, <2>1, MonitorMoves DEF LoopTypeOK, MonitorOK, WorldOK, stopping
<1>2. CASE CloserWakes
  BY <1>2 DEF CloserWakes, LoopTypeOK, monitor, world
<1>3. CASE ClosesAll
  <2> PICK n \in toClose : toClose' = toClose \ {n} /\ listening' = [listening EXCEPT ![n] = FALSE]
    BY <1>3 DEF ClosesAll
  <2> QED
    BY <1>3 DEF ClosesAll, LoopTypeOK, monitor
<1>4. ASSUME NEW n \in Names, Others(n) PROVE LoopTypeOK' /\ order' = order
  BY <1>4 DEF Others, LoopTypeOK, monitor, stopping
<1> QED
  BY <1>1, <1>2, <1>3, <1>4 DEF LoopNext

LEMMA LoopPasses ==
    ASSUME LoopTypeOK, order # <<>>, PassInv, LoopNext
    PROVE  PassInv'
<1>1. CASE MonitorNext
  <2>1. UNCHANGED <<stopping, shutdown, caught>>
    BY <1>1, MonitorMoves
  <2>2. CASE Within /\ UNCHANGED late
    BY <2>1, <2>2 DEF Within, PassInv, InPass, Steps, stopping
  <2>3. CASE Wakes
    BY <2>1, <2>3 DEF Wakes, PassBegins, PassInv, stopping
  <2>4. CASE MonitorEnds
    BY <2>1, <2>4 DEF MonitorEnds, PassInv, stopping, world
  <2> QED
    BY <1>1, <2>2, <2>3, <2>4, MonitorMoves
<1>2. CASE CloserWakes
  BY <1>2 DEF CloserWakes, PassInv, monitor, world
<1>3. CASE ClosesAll
  <2> PICK n \in toClose : toClose' = toClose \ {n} /\ listening' = [listening EXCEPT ![n] = FALSE]
    BY <1>3 DEF ClosesAll
  <2> QED
    BY <1>3 DEF ClosesAll, PassInv, monitor, LoopTypeOK
<1>4. ASSUME NEW n \in Names, Others(n) PROVE PassInv'
  BY <1>4 DEF Others, PassInv, monitor, stopping
<1> QED
  BY <1>1, <1>2, <1>3, <1>4 DEF LoopNext

LEMMA LoopKeepsStep ==
    ASSUME LoopTypeOK, order # <<>>, LoopNext, step # "unstarted" PROVE step' # "unstarted"
<1>1. CASE MonitorNext
  BY <1>1, MonitorMoves DEF Within, Wakes, PassBegins, MonitorEnds
<1> QED
  BY <1>1 DEF LoopNext, CloserWakes, ClosesAll, Others, monitor

(***************************************************************************)
(* The whole run.                                                          *)
(***************************************************************************)

ControlOK ==
    /\ stage \in {"loading", "checking", "listing", "running", "done", "refused", "died"}
    /\ hangup \in BOOLEAN

Inv == LoopTypeOK /\ ControlOK /\ FileInv /\ StageInv /\ SettingsInv /\ PassInv

LEMMA InitEstablishes == Init => Inv
<1> SUFFICES ASSUME Init PROVE Inv
  OBVIOUS
<1>1. LoopTypeOK
  <2>1. order = <<>> /\ order \in Seq(Names) /\ Len(order) = 0 /\ java = {}
    BY EmptySeq DEF Init, LoopInit
  <2>2. step \in Steps \ InPass /\ at = 0 /\ tries \in 0 .. BindTries - 1
    BY PollLoopAssumption DEF Init, LoopInit, Steps, InPass
  <2>3. {sleeping, listening, taken} \subseteq [Names -> BOOLEAN] /\ \A n \in Names : ~listening[n]
    BY DEF Init, LoopInit
  <2>4. closer = "waiting" /\ toClose = {} /\ shutdown = FALSE /\ caught = FALSE /\ late = 0
    BY DEF Init, LoopInit
  <2>5. at \in 0 .. Len(order) /\ (step \in InPass => at > 0)
    BY <2>1, <2>2
  <2> QED
    BY <2>1, <2>2, <2>3, <2>4, <2>5 DEF LoopTypeOK
<1>2. FileInv
  BY FilesAssumption DEF Init, FileInv, Files
<1>3. ControlOK /\ SettingsInv
  BY DEF Init, ControlOK, SettingsInv
<1>4. PassInv
  <2>1. closer = "waiting" /\ shutdown = FALSE /\ caught = FALSE /\ late = 0
    BY DEF Init, LoopInit
  <2>2. ~shutdown /\ shutdown \in BOOLEAN /\ caught \in BOOLEAN
    BY <2>1, Zenon
  <2>3. closer # "closing" /\ late # 1 /\ late \in {0, 1}
    BY <2>1
  <2> QED
    BY <2>1, <2>2, <2>3, Zenon DEF PassInv
<1>5. StageInv
  <2>1. stage = "loading" /\ step = "unstarted" /\ at = 0 /\ cfg = None /\ order = <<>>
    BY DEF Init, LoopInit
  <2> QED
    BY <2>1 DEF StageInv
<1> QED
  BY <1>1, <1>2, <1>3, <1>4, <1>5 DEF Inv

\* The startup up to the loops.
LEMMA LoadsKeeps == ASSUME Inv, Loads PROVE Inv'
<1>1. SettingsInv' /\ cfg' # None /\ order' # <<>>
  BY LoadsSettings DEF Inv
<1>2. order' \in Seq(Names) /\ java' \subseteq Names
  <2>1. IsConfig(file.config)
    BY GoodFile DEF Inv, Loads
  <2> QED
    BY <2>1 DEF Loads, IsConfig
<1>3. LoopTypeOK'
  <2>1. step = "unstarted"
    BY DEF Inv, StageInv, Loads
  <2>2. at' \in 0 .. Len(order')
    BY <1>2, <2>1 DEF Inv, StageInv, Loads, monitor
  <2> QED
    BY <1>2, <2>1, <2>2 DEF Inv, Loads, LoopTypeOK, monitor, world, stopping, InPass
<1>4. FileInv' /\ ControlOK'
  BY DEF Inv, Loads, FileInv, ControlOK
<1>5. StageInv' /\ PassInv'
  BY <1>1 DEF Inv, Loads, StageInv, PassInv, monitor, world, stopping
<1> QED
  BY <1>1, <1>3, <1>4, <1>5 DEF Inv
LEMMA ListsKeeps == ASSUME Inv, Lists PROVE Inv'
<1>1. cfg # None /\ order # <<>> /\ order \in Seq(Names)
  BY DEF Inv, StageInv, Lists, LoopTypeOK
<1>2. Len(order) \in Nat \ {0}
  BY <1>1, EmptySeq
<1>3. /\ stage' = "running" /\ step' = "asking" /\ at' = 1 /\ tries' = 0 /\ hangup' = FALSE
      /\ late' = IF shutdown THEN late + 1 ELSE late
      /\ UNCHANGED <<order, java, world, stopping, shutdown, caught, file, edits, settings>>
  BY DEF Lists, PassBegins
<1>4. LoopTypeOK'
  BY <1>2, <1>3, PollLoopAssumption DEF Inv, LoopTypeOK, world, stopping, Steps, InPass
<1>5. FileInv' /\ ControlOK' /\ StageInv' /\ SettingsInv'
  <2>1. FileInv' /\ ControlOK'
    BY <1>3 DEF Inv, FileInv, ControlOK
  <2>2. StageInv'
    BY <1>1, <1>3 DEF Inv, StageInv, settings
  <2> QED
    BY <1>3, <2>1, <2>2, SettingsStay DEF Inv
<1>6. PassInv'
  <2>1. late = 0
    BY DEF Inv, PassInv, StageInv, Lists
  <2> QED
    BY <1>3, <2>1 DEF Inv, PassInv, stopping
<1> QED
  BY <1>4, <1>5, <1>6 DEF Inv

\* A signal, an edit, an answer that starts or ends the run, a reload: the
\* loops do not move.
Beside ==
    \/ LoadFails \/ FindsCrafty \/ StartFails \/ Terminates \/ HangsUp \/ Edited
    \/ Reloads \/ ReloadRefused \/ ReloadDies \/ Finishes

LEMMA BesideKeeps == ASSUME Inv, Beside PROVE Inv'
<1>1. UNCHANGED <<order, java, monitor, world, stopping, late>>
  BY DEF Beside, LoadFails, FindsCrafty, StartFails, Terminates, HangsUp, Edited,
         Reloads, ReloadRefused, ReloadDies, Finishes, loopVars
<1>2. UNCHANGED <<shutdown, caught>> \/ Terminates
  BY DEF Beside, LoadFails, FindsCrafty, StartFails, HangsUp, Edited,
         Reloads, ReloadRefused, ReloadDies, Finishes, loopVars
<1>3. LoopTypeOK' /\ PassInv'
  <2>1. CASE UNCHANGED <<shutdown, caught>>
    BY <1>1, <2>1 DEF Inv, LoopTypeOK, PassInv, monitor, world, stopping
  <2>2. CASE Terminates
    <3>1. ~shutdown /\ shutdown' = TRUE /\ caught' = (step # "asleep")
      BY <2>2 DEF Terminates
    <3>2. caught' \in BOOLEAN /\ (~caught' => step = "asleep")
      BY <3>1
    <3>3. LoopTypeOK'
      BY <1>1, <3>1, <3>2 DEF Inv, LoopTypeOK, monitor, world, stopping
    <3>4. PassInv'
      BY <1>1, <3>1, <3>2 DEF Inv, PassInv, monitor, world, stopping
    <3> QED
      BY <3>3, <3>4
  <2> QED
    BY <1>2, <2>1, <2>2
<1>4. FileInv'
  BY FileStays DEF Beside, Inv, Next
<1>5. SettingsInv' /\ (cfg' = None <=> cfg = None)
  <2>1. CASE Reloads
    <3>1. cfg # None
      BY <2>1 DEF Inv, StageInv, Reloads, Reloading
    <3> QED
      BY <2>1, <3>1, ReloadsSettings DEF Inv
  <2>2. CASE ~Reloads
    <3>1. UNCHANGED settings
      BY <2>2 DEF Beside, LoadFails, FindsCrafty, StartFails, Terminates, HangsUp, Edited,
                  ReloadRefused, ReloadDies, Finishes, process
    <3> QED
      BY <1>1, <3>1, SettingsStay DEF Inv, settings
  <2> QED
    BY <2>1, <2>2
<1>6. ControlOK'
  BY DEF Inv, ControlOK, Beside, LoadFails, FindsCrafty, StartFails, Terminates, HangsUp, Edited,
         Reloads, ReloadRefused, ReloadDies, Finishes, process
<1>7. StageInv'
  BY <1>1, <1>5 DEF Inv, StageInv, Beside, LoadFails, FindsCrafty, StartFails, Terminates, HangsUp, Edited,
         Reloads, ReloadRefused, ReloadDies, Finishes, Reloading, monitor, process
<1> QED
  BY <1>3, <1>4, <1>5, <1>6, <1>7 DEF Inv

LEMMA RunsKeeps == ASSUME Inv, Runs PROVE Inv'
<1>1. cfg # None /\ order # <<>> /\ LoopTypeOK /\ LoopNext /\ step # "unstarted" /\ UNCHANGED process
  BY DEF Inv, StageInv, Runs
<1>2. LoopTypeOK' /\ order' = order /\ step' # "unstarted"
  BY <1>1, LoopTypesStay, LoopKeepsStep
<1>3. PassInv'
  BY <1>1, LoopPasses DEF Inv
<1>4. SettingsInv'
  BY <1>1, <1>2, SettingsStay DEF Inv, process
<1>5. FileInv' /\ ControlOK' /\ StageInv'
  BY <1>1, <1>2 DEF Inv, FileInv, ControlOK, StageInv, Runs, process, settings
<1> QED
  BY <1>2, <1>3, <1>4, <1>5 DEF Inv

LEMMA StepKeeps == Inv /\ [Next]_vars => Inv'
<1> SUFFICES ASSUME Inv, [Next]_vars PROVE Inv'
  OBVIOUS
<1>1. CASE UNCHANGED vars
  <2>1. LoopTypeOK' /\ PassInv' /\ FileInv' /\ ControlOK' /\ StageInv'
    BY <1>1 DEF Inv, LoopTypeOK, PassInv, FileInv, ControlOK, StageInv,
                vars, loopVars, process, settings, monitor, world, stopping
  <2>2. SettingsInv'
    BY <1>1, SettingsStay DEF Inv, vars, loopVars, process
  <2> QED
    BY <2>1, <2>2 DEF Inv
<1>2. CASE Next
  BY <1>2, LoadsKeeps, ListsKeeps, BesideKeeps, RunsKeeps DEF Next, Beside
<1> QED
  BY <1>1, <1>2

LEMMA Invariance == Spec => []Inv
  BY InitEstablishes, StepKeeps, PTL DEF Spec
(***************************************************************************)
(* The theorems.                                                           *)
(***************************************************************************)

\* Every variable of a run keeps its type, whatever the files hold: the place
\* in the configuration, the attempts at a bind, the listeners (run, _poll_all,
\* _start_listener).
THEOREM TypeCorrect == Spec => []TypeOK
<1>1. FileInv => file.outcome \in {"good", "invalid", "broken"}
  BY LoadOutcome DEF FileInv, LoadConfig, Outcomes
<1>2. Inv => TypeOK
  BY <1>1 DEF Inv, ControlOK, FileInv, StageInv, TypeOK, Signalled, Over
<1> QED
  BY <1>2, Invariance, PTL

\* After any edits and reloads, between any steps of the loops, cooldowns,
\* interval, timeouts and access are those of the last accepted file, as far as
\* it has the server, and servers, ids, ports, editions, notifications, the
\* receiver's path and the state file are those of the start (_reload_watcher).
THEOREM ReloadsTakeOverOrKeep == Spec => []TakenOverOrKept
<1>1. Inv => TakenOverOrKept
  BY DEF Inv, SettingsInv, TakenOverOrKept
<1> QED
  BY <1>1, Invariance, PTL

\* No file and no sequence of reloads brings the watcher to two servers on a
\* port, a whitelist without names or notifications without an address
\* (load_config).
THEOREM SettingsStaySound == Spec => []RunningIsSound
<1>1. Inv => RunningIsSound
  BY DEF Inv, SettingsInv, Sound, PortsDiffer, AccessSound, WebhookSound, RunningIsSound
<1> QED
  BY <1>1, Invariance, PTL

\* A shutdown between two passes leaves no listener, however many servers
\* there are and whatever their ports do meanwhile (stop_all).
THEOREM QuietShutdownsClose == Spec => []QuietShutdownCloses
<1>1. Inv => QuietShutdownCloses
  BY DEF Inv, PassInv, QuietShutdownCloses, LoopEnded
<1> QED
  BY <1>1, Invariance, PTL

\* A shutdown signal is seen after one more pass at most, at whatever step of
\* the monitor it comes (IdleMonitor.run).
THEOREM OnePassMore == Spec => []OneLatePass
<1>1. Inv => OneLatePass
  BY DEF Inv, PassInv, OneLatePass
<1> QED
  BY <1>1, Invariance, PTL

=============================================================================
