---------------------------- MODULE EventReceiver ----------------------------
(***************************************************************************)
(* One request to the HTTP server (health_server.py), and above all a      *)
(* webhook of Crafty's: it is routed, its body is read and parsed, and an  *)
(* event that is about a managed server's port is handed to the proxy      *)
(* manager, which PortHandover models.                                     *)
(***************************************************************************)
EXTENDS CraftyEvents

CONSTANTS
    Managed,     \* the servers in order, <<[name, id], ...>>
    Enabled,     \* events_cfg.enabled
    Path, Token, \* events_cfg.path and .token, "" for no token
    NonAscii,    \* tokens compare_digest raises at
    Requests     \* what may be asked

ASSUME ManagedAssumption == Managed \in Seq(ToSet(Managed))
ASSUME RequestAssumption == \A r \in Requests : IsBody(r.body)

VARIABLES
    request,   \* the request: head, method, route, token, length, body; and carries,
               \* the rendered template in its body (for the properties)
    stage,     \* head, body, parsing, moving, closed, and unused for none
    body,      \* the text that was read
    event,     \* the CraftyEvent made of it
    call,      \* the call to the proxy manager
    reply      \* the status sent, 0 for none

receiverVars == <<request, stage, body, event, call, reply>>

PortEvents == {"start_server", "crash_detected", "stop_server", "kill"}

\* A text that is no JSON, as what is left of a body is when more than padding
\* is cut off.
Mangled(part) == [is |-> "", says |-> part, names |-> part, holds |-> Nothing]
EmptyText     == Mangled({})

ReceiverInit ==
    /\ request \in Requests /\ stage = "head"
    /\ body = EmptyText /\ event = Nothing /\ call = Nothing /\ reply = 0

Replies(status) == reply' = status /\ stage' = "closed" /\ UNCHANGED <<request, body, event, call>>

\* The head does not arrive in time, or not whole.
HeadBreaks ==
    /\ stage = "head" /\ request.head = "broken"
    /\ Replies(0)

HeadIsBad ==
    /\ stage = "head" /\ request.head = "short"
    /\ Replies(400)

\* /health, /status and /metrics.
Gets ==
    /\ stage = "head" /\ request.head = "whole" /\ request.method = "GET"
    /\ Replies(IF request.route \in {"/health", "/status", "/metrics"} THEN 200 ELSE 404)

OtherMethod ==
    /\ stage = "head" /\ request.head = "whole" /\ request.method \notin {"GET", "POST"}
    /\ Replies(405)

\* _token_matches, where a token is asked for.
Authorised == Token = "" \/ request.token = Token

Comparable == Token = "" \/ {Token, request.token} \cap NonAscii = {}

Found == Enabled /\ request.route = Path

\* A TypeError, which leaves the request without an answer.
TokenRaises ==
    /\ stage = "head" /\ request.head = "whole" /\ request.method = "POST"
    /\ Found /\ ~Comparable
    /\ Replies(0)

\* _handle_post.
PostIsRefused ==
    /\ stage = "head" /\ request.head = "whole" /\ request.method = "POST"
    /\ ~Found \/ (Comparable /\ ~Authorised)
    /\ Replies(IF Found THEN 403 ELSE 404)

Posts ==
    /\ stage = "head" /\ request.head = "whole" /\ request.method = "POST"
    /\ Found /\ Comparable /\ Authorised
    /\ stage' = "body"
    /\ UNCHANGED <<request, body, event, call, reply>>

\* _read_body: without a usable length the body is empty, as it is when less
\* arrives in time; one that is too long is cut off, which harms it unless the
\* rest is blank.
ReadsBody ==
    /\ stage = "body"
    /\ stage' = "parsing"
    /\ body' \in CASE request.length = "right" -> {request.body, EmptyText}
                   [] request.length = "long"  ->
                        {request.body} \cup {Mangled(part) : part \in SUBSET request.body.says}
                   [] OTHER                    -> {EmptyText}
    /\ UNCHANGED <<request, event, call, reply>>

KnownIds == {Managed[i].id : i \in DOMAIN Managed}

\* Of two servers with one id, the later.
NameOf(id) == Managed[Max({i \in DOMAIN Managed : Managed[i].id = id})].name

\* _process_crafty_event.
Processes ==
    /\ stage = "parsing"
    /\ event' \in Parsed(body, KnownIds)
    /\ IF event' # Nothing /\ event'.server_id \in KnownIds /\ event'.event \in PortEvents
       THEN /\ stage' = "moving"
            /\ call' = [name |-> NameOf(event'.server_id),
                        way  |-> IF event'.event = "start_server" THEN "release" ELSE "reclaim"]
            /\ UNCHANGED reply
       ELSE /\ stage' = "closed" /\ reply' = 200
            /\ UNCHANGED call
    /\ UNCHANGED <<request, body>>

\* release_for_start or reclaim_after_stop returns, whatever it did.
CallReturns ==
    /\ stage = "moving"
    /\ Replies(200)

ReceiverNext ==
    \/ HeadBreaks \/ HeadIsBad \/ Gets \/ OtherMethod \/ PostIsRefused \/ TokenRaises
    \/ Posts \/ ReadsBody \/ Processes \/ CallReturns

ReceiverSpec == ReceiverInit /\ [][ReceiverNext]_receiverVars

(***************************************************************************)
(* Requests whose template nothing contradicts, for the theorems.          *)
(***************************************************************************)

\* A string that is not too deep holds an object with this half, and those with
\* another come after one that has it; or no string has any, and the body has it.
Leads(payload, Half(_), half) ==
    LET strings == StringsTo(payload, MaxDepth)
        Has(i)  == IsObject(strings[i].holds) /\ Half(strings[i].holds) # Nothing
    IN \/ /\ \E o \in Held(payload) : Half(o) = half
          /\ \A i \in DOMAIN strings : Has(i) /\ Half(strings[i].holds) # half =>
                \E j \in DOMAIN strings : j < i /\ Has(j) /\ Half(strings[j].holds) = half
       \/ /\ \A o \in Held(payload) : Half(o) = Nothing
          /\ IsObject(payload) /\ Half(payload) = half

Unrivalled(r) ==
    r.carries # Nothing =>
        /\ r.body.holds # Nothing
        /\ r.carries \in [server_id : {r.carries.server_id}, event : {r.carries.event}]
        /\ Nothing \notin {r.carries.server_id, r.carries.event}
        /\ Leads(r.body.holds, IdIn, r.carries.server_id)
        /\ Leads(r.body.holds, EventIn, r.carries.event)

(***************************************************************************)
(* Properties.                                                             *)
(***************************************************************************)

\* Whatever envelope a chat provider puts around it, and whatever names occur
\* beside it, the rendered template is what is heard, and Crafty gets the 200
\* without which its own call fails (docstring of crafty_events.py;
\* _process_crafty_event).
TemplateIsHeard ==
    stage = "closed" /\ request.carries # Nothing /\ body = request.body =>
        reply = 200 /\ event = request.carries

\* The port of a server moves for a request that may move it, and only if its
\* body names the server's id and the event, however mangled it is.
MovesAreMeant ==
    call # Nothing =>
        /\ request.method = "POST" /\ Found
        /\ Token # "" => request.token = Token
        /\ \E i \in DOMAIN Managed :
             /\ Managed[i].name = call.name
             /\ Managed[i].id \in request.body.names
        /\ \E e \in request.body.names \cap PortEvents :
             call.way = IF e = "start_server" THEN "release" ELSE "reclaim"
=============================================================================
