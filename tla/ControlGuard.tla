---------------------------- MODULE ControlGuard ----------------------------
(***************************************************************************)
(* Which requests the web server answers (main.rs of web) and where it     *)
(* listens (cli.rs).                                                       *)
(*   an authority is [host, bracket, user, port]: the text before the port *)
(*     (with its brackets told apart), whether it names a user, the port   *)
(*   a host is [text, ip, local, dot]: an address or a name, whether it is *)
(*     this machine, and whether it ends in the root's dot                 *)
(*   a request is [api, get, host, token, site, origin]                    *)
(*   the session is [token, lan, allowed, dev]                             *)
(* Names are kept in lower case: hosts are compared without it.            *)
(***************************************************************************)
EXTENDS Integers, Sequences, FiniteSets, SequencesExt

NoHeader == "missing"
NoHost == [error |-> "no host"]
NoOrigin == [error |-> "no origin"]
NoAuthority == [error |-> "no authority"]
NoServer == [error |-> "no server"]
BadOptions == [error |-> "bad options"]

Digits == {"zero", "high", "7897", "8080"}
RealPorts == {"7897", "8080"}

-----------------------------------------------------------------------------
(* Hosts.                                                                  *)
LoopbackAuthority(a) ==
    /\ ~a.user /\ ~a.host.dot
    /\ a.port \in {"none"} \cup RealPorts
    /\ a.host.local /\ (a.host.ip \/ ~a.bracket)

AuthorityHost(a) ==
    IF \/ a.user
       \/ a.bracket /\ (~a.host.ip \/ a.host.dot \/ a.port \notin {"none"} \cup Digits)
       \/ ~a.bracket /\ a.port \notin {"none", "empty"} \cup Digits
       \/ a.host.text = ""
    THEN NoAuthority
    ELSE [a.host EXCEPT !.dot = FALSE]

HostAllowed(session, a) ==
    \/ LoopbackAuthority(a)
    \/ /\ session.lan /\ AuthorityHost(a) # NoAuthority
       /\ a.host.ip \/ a.host.text \in session.allowed

DevServerOriginMatches(origin, dev) ==
    /\ LoopbackAuthority(origin) /\ LoopbackAuthority(dev)
    /\ origin.port = dev.port /\ origin.port # "none"

DevServerAuthority(a) == IF LoopbackAuthority(a) /\ a.port # "none" THEN a ELSE NoServer

-----------------------------------------------------------------------------
(* Requests.                                                               *)
SameOrigin(session, request) ==
    LET origin == request.origin IN
    /\ origin.scheme \in {"http", "https"}
    /\ \/ origin.authority = request.host
       \/ session.dev # NoServer /\ DevServerOriginMatches(origin.authority, session.dev)

ValidControlRequest(session, request) ==
    /\ HostAllowed(session, request.host) /\ request.token = session.token
    /\ request.site \in {NoHeader, "same-origin", "none"}
    /\ IF request.origin # NoOrigin THEN SameOrigin(session, request)
       ELSE request.site # NoHeader \/ LoopbackAuthority(request.host)

ControlSessionGuard(session, request) ==
    IF request.host = NoHost \/ ~HostAllowed(session, request.host) THEN "misdirected"
    ELSE IF request.api /\ ~ValidControlRequest(session, request) THEN "forbidden"
    ELSE "served"
\* A page that is served carries the session of this run; an API answer does not.
IssuesCookie(session, request) ==
    ControlSessionGuard(session, request) = "served" /\ request.get /\ ~request.api

-----------------------------------------------------------------------------
(* Arguments: a word, or a flag with its value joined to it.               *)
NoOptions == [port |-> "", log |-> "", daemon |-> FALSE, lan |-> FALSE, help |-> FALSE]
Word(text) == <<text>>

SetValue(options, name, value) ==
    IF value = Word("") THEN BadOptions
    ELSE IF name = "--port"
         THEN IF options.port = "" /\ value \in {Word(p) : p \in RealPorts}
              THEN [options EXCEPT !.port = value[1]] ELSE BadOptions
         ELSE IF options.log = "" THEN [options EXCEPT !.log = value] ELSE BadOptions

ParseArg(state, arg) ==
    LET options == state.options
        Now(next) == [state EXCEPT !.options = next, !.of = ""]
    IN  IF options = BadOptions THEN state
        ELSE IF state.of # "" THEN Now(SetValue(options, state.of, arg))
        ELSE IF Len(arg) = 2
             THEN Now(IF arg[1] \in {"--port", "--log-file"}
                      THEN SetValue(options, arg[1], Word(arg[2])) ELSE BadOptions)
        ELSE CASE arg[1] = "--help" -> Now([options EXCEPT !.help = TRUE])
               [] arg[1] = "--daemon" /\ ~options.daemon -> Now([options EXCEPT !.daemon = TRUE])
               [] arg[1] = "--allow-lan" -> Now([options EXCEPT !.lan = TRUE])
               [] arg[1] \in {"--port", "--log-file"} -> [state EXCEPT !.of = arg[1]]
               [] OTHER -> Now(BadOptions)

ParseArgs(args) ==
    LET end == FoldLeft(ParseArg, [options |-> NoOptions, of |-> ""], args) IN
    IF end.of # "" THEN BadOptions
    ELSE IF end.options # BadOptions /\ ~end.options.help /\ end.options.log # ""
            /\ ~end.options.daemon
         THEN BadOptions ELSE end.options

ChildArgs(args) ==
    LET Keep(state, arg) ==
            IF state.skip THEN [state EXCEPT !.skip = FALSE]
            ELSE IF arg = Word("--log-file") THEN [state EXCEPT !.skip = TRUE]
            ELSE IF arg = Word("--daemon") \/ (Len(arg) = 2 /\ arg[1] = "--log-file") THEN state
            ELSE [state EXCEPT !.kept = Append(@, arg)]
    IN  FoldLeft(Keep, [kept |-> <<>>, skip |-> FALSE], args).kept

\* env is [port, ip, lan]; an address of another machine needs the permission.
Address(options, env) ==
    LET port == IF options.port # "" THEN options.port
                ELSE IF env.port = NoHeader THEN "7897" ELSE env.port
        ip == IF env.ip = NoHeader THEN "127.0.0.1" ELSE env.ip
    IN  IF port \notin RealPorts \/ ip = "bad" \/ (ip # "127.0.0.1" /\ ~(options.lan \/ env.lan))
        THEN BadOptions ELSE [ip |-> ip, port |-> port]
\* prepare() leaves the address and the permission in the environment.
PreparedEnv(options, env) ==
    LET address == Address(options, env) IN
    [port |-> address.port, ip |-> address.ip, lan |-> options.lan \/ env.lan]
LanModeEnabled(env) == env.lan /\ env.ip \notin {NoHeader, "bad", "127.0.0.1"}
=============================================================================
