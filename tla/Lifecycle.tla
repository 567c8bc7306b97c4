----------------------------- MODULE Lifecycle ------------------------------
(***************************************************************************)
(* main: the configuration is read, the logger and the server are made     *)
(* from it, the server runs until poll fails, and the destructors run in   *)
(* the opposite order.  Nothing catches an exception, so that one ends the *)
(* program where it is thrown, without destructors.                        *)
(*                                                                         *)
(* The logger and the server are reached through globals, by the logging   *)
(* macros and by the callbacks of libwebsockets, both of which assert that *)
(* their global is set.                                                    *)
(***************************************************************************)
EXTENDS Config

CONSTANTS
    LightSection(_),    \* "light" + std::to_string(i)
    Clients             \* websocket clients

VARIABLES
    pc,             \* the constructor that is running, "run", "destroy",
                    \* "exit" or "terminated"
    level,          \* LoggerImpl::level
    log,            \* the kinds of message in the log file
    pointers,       \* LoggerImpl::global, globalServeri and ws_context: the
                    \* ones that are not null
    numLights,
    lights,         \* LightsConfig::lights, in the order of their numbers
    ports,          \* the UDP and the websocket port, 0 before they are bound
    open,           \* the descriptors that are open
    clients,        \* connections that libwebsockets has
    destroyed,      \* steps of the destructors that are done
    why,            \* what ended the program, if it was an error
    asserted        \* the pointers that an assertion found null

programVars == <<pc, level, log, pointers, numLights, lights, ports, open, clients,
                 destroyed, why, asserted>>
vars == <<configVars, programVars>>

Init ==
    /\ ConfigInit
    /\ pc = "config"
    /\ level = 0 /\ log = {}
    /\ pointers = {}
    /\ numLights = 0 /\ lights = <<>> /\ ports = [udp |-> 0, ws |-> 0]
    /\ open = {} /\ clients = {}
    /\ destroyed = 0
    /\ why = "nothing" /\ asserted = {}

-----------------------------------------------------------------------------
(* Logger                                                                  *)

LogLevels == <<"debug", "info", "warning", "error">>

LevelOf(v) == CHOOSE i \in 1..4 : v = <<LogLevels[i]>>

parseLogLevelThrows(v) == \A i \in 1..4 : v # <<LogLevels[i]>>

\* LoggerImpl::message, which flushes what it writes.
Passes(l, lvl) == l >= lvl

Written(l, lvl, m) == IF Passes(l, lvl) THEN {m} ELSE {}

INFO  == 2
ERROR == 4

\* The logging macros.
Log(l, m) ==
    /\ log' = IF "logger" \in pointers THEN log \cup Written(l, level, m) ELSE log
    /\ asserted' = asserted \cup ({"logger"} \ pointers)

\* An exception leaves main.
Throw(reason) ==
    /\ pc' = "terminated"
    /\ why' = reason

FileSetting == get("logging", "file", <<"valoserveri.log">>)
LevelSetting == get("logging", "level", <<"error">>)

\* A bad level, a log file that cannot be opened, or no time zone.
LoggerThrows ==
    /\ pc = "config" /\ parsing = "done"
    /\ Throw("logger")
    /\ UNCHANGED <<configVars, level, log, pointers, numLights, lights, ports, open,
                   clients, destroyed, asserted>>

\* LoggerImpl's own messages do not need the global, which is set last.
CreateLogger ==
    /\ pc = "config" /\ parsing = "done"
    /\ ~parseLogLevelThrows(LevelSetting)
    /\ FileSetting # <<>>
    /\ level' = LevelOf(LevelSetting)
    /\ log' = Written(INFO, level', "started")
    /\ open' = open \cup {"log"}
    /\ pointers' = pointers \cup {"logger"}
    /\ pc' = "lights"
    /\ UNCHANGED <<configVars, numLights, lights, ports, clients, destroyed, why,
                   asserted>>

-----------------------------------------------------------------------------
(* DMXController                                                           *)

\* LightsConfig::parse, the number of lights.
ParseNumLights ==
    /\ pc = "lights"
    /\ IF getThrows("global", "lights")
       THEN /\ Throw("lights")
            /\ UNCHANGED <<numLights, log, asserted>>
       ELSE /\ numLights' = getUnsigned("global", "lights", 0)
            /\ Log(INFO, "lights")
            /\ pc' = "light"
            /\ UNCHANGED why
    /\ UNCHANGED <<configVars, level, pointers, lights, ports, open, clients,
                   destroyed>>

TypeSetting(s) == get(s, "type", <<"rgb">>)

parseLightTypeThrows(v) == v \notin {<<"rgb">>, <<"uv">>}

\* As if the address were stored as it was read.
Truncated_Not(n) == n

\* A uint8_t.
Truncated(n) == n % 256

ParseLight ==
    /\ pc = "light" /\ Len(lights) < numLights
    /\ LET s == LightSection(Len(lights))
       IN  IF \/ getThrows(s, "address") \/ getThrows(s, "numchannels")
              \/ parseLightTypeThrows(TypeSetting(s))
           THEN Throw("light") /\ UNCHANGED lights
           ELSE /\ lights' = Append(lights,
                     [type    |-> TypeSetting(s)[1],
                      address |-> Truncated(getUnsigned(s, "address", 0))])
                /\ UNCHANGED <<pc, why>>
    /\ UNCHANGED <<configVars, level, log, pointers, numLights, ports, open,
                   clients, destroyed, asserted>>

\* The tty may fail to open, which is only printed.
OpenTty ==
    /\ pc = "light" /\ Len(lights) = numLights
    /\ open' \in {open, open \cup {"tty"}}
    /\ pc' = "udp"
    /\ UNCHANGED <<configVars, level, log, pointers, numLights, lights, ports,
                   clients, destroyed, why, asserted>>

-----------------------------------------------------------------------------
(* Serveri                                                                 *)

\* htons(port)
Port(name, default) == getUnsigned("global", name, default) % 65536

\* The UDP socket, in the constructor's body: globalServeri is set by then.
OpenUdp ==
    /\ pc = "udp"
    /\ pointers' = pointers \cup {"serveri"}
    /\ \/ /\ getThrows("global", "udpport")
          /\ Throw("udpport")
          /\ UNCHANGED <<log, asserted, ports, open>>
       \/ /\ ~getThrows("global", "udpport")       \* bind error
          /\ Log(ERROR, "bind")
          /\ Throw("bind")
          /\ UNCHANGED <<ports, open>>
       \/ /\ ~getThrows("global", "udpport")
          /\ Log(INFO, "udp")
          /\ ports' = [ports EXCEPT !.udp = Port("udpport", 9909)]
          /\ open' = open \cup {"udp"}
          /\ pc' = "context"
          /\ UNCHANGED why
    /\ UNCHANGED <<configVars, level, numLights, lights, clients, destroyed>>

\* The callbacks assert globalServeri and log.
Callback(m) ==
    /\ log' = IF "logger" \in pointers THEN log \cup Written(1, level, m) ELSE log
    /\ asserted' = asserted \cup ({"serveri", "logger"} \ pointers)

\* lws_create_context, which returns null when the port is taken; the server
\* then goes on without websockets.
CreateContext ==
    /\ pc = "context"
    /\ \/ /\ getThrows("global", "wsport")
          /\ Throw("wsport")
          /\ UNCHANGED <<log, asserted, ports, open, pointers>>
       \/ /\ ~getThrows("global", "wsport")
          /\ pc' = "run"
          /\ UNCHANGED <<log, asserted, ports, open, pointers, why>>
       \/ /\ ~getThrows("global", "wsport")
          /\ Callback("callback")                   \* ADD_POLL_FD
          /\ ports' = [ports EXCEPT !.ws = Port("wsport", 9910)]
          /\ open' = open \cup {"listen"}
          /\ pointers' = pointers \cup {"context"}
          /\ pc' = "run"
          /\ UNCHANGED why
    /\ UNCHANGED <<configVars, level, numLights, lights, clients,
                   destroyed>>

\* While the server runs, clients come and go; Serveri.tla has the details.
ClientChange(c) ==
    /\ pc = "run" /\ "context" \in pointers
    /\ clients' = IF c \in clients THEN clients \ {c} ELSE clients \cup {c}
    /\ Callback("callback")
    /\ UNCHANGED <<configVars, pc, level, pointers, numLights, lights, ports, open,
                   destroyed, why>>

\* poll fails, and run returns.
PollFails ==
    /\ pc = "run"
    /\ Log(ERROR, "poll")
    /\ pc' = "destroy"
    /\ why' = "poll"
    /\ UNCHANGED <<configVars, level, pointers, numLights, lights, ports, open,
                   clients, destroyed>>

-----------------------------------------------------------------------------
(* The destructors, in the order in which they do their work               *)

\* As if ~Serveri cleared the global first.
Destructors_GlobalFirst == <<"global", "context", "udp", "tty", "logger", "log">>

\* As if the tty were left open.
Destructors_NoTty == <<"context", "udp", "global", "logger", "log">>

\* ~Serveri, ~DMXController, ~Logger, ~LoggerImpl.
Destructors == <<"context", "udp", "global", "tty", "logger", "log">>

Destroying(what) ==
    /\ pc = "destroy"
    /\ destroyed < Len(Destructors) /\ Destructors[destroyed + 1] = what
    /\ destroyed' = destroyed + 1
    /\ UNCHANGED <<configVars, level, numLights, lights, ports, why>>

\* lws_context_destroy closes every connection and the listener, and calls
\* back for each of them.
DestroyContext ==
    /\ Destroying("context")
    /\ IF "context" \in pointers THEN Callback("callback") ELSE UNCHANGED <<log, asserted>>
    /\ clients' = {}
    /\ open' = open \ {"listen"}
    /\ pointers' = pointers \ {"context"}
    /\ UNCHANGED pc

CloseUdp ==
    /\ Destroying("udp")
    /\ open' = open \ {"udp"}
    /\ UNCHANGED <<pc, log, pointers, clients, asserted>>

ClearGlobal ==
    /\ Destroying("global")
    /\ pointers' = pointers \ {"serveri"}
    /\ UNCHANGED <<pc, log, open, clients, asserted>>

CloseTty ==
    /\ Destroying("tty")
    /\ open' = open \ {"tty"}
    /\ UNCHANGED <<pc, log, pointers, clients, asserted>>

ClearLogger ==
    /\ Destroying("logger")
    /\ asserted' = asserted \cup ({"logger"} \ pointers)
    /\ pointers' = pointers \ {"logger"}
    /\ UNCHANGED <<pc, log, open, clients>>

\* ~LoggerImpl writes its last message itself, then closes the file.
CloseLog ==
    /\ Destroying("log")
    /\ log' = log \cup Written(INFO, level, "shutdown")
    /\ open' = open \ {"log"}
    /\ UNCHANGED <<pc, pointers, clients, asserted>>

Exit ==
    /\ pc = "destroy" /\ destroyed = Len(Destructors)
    /\ pc' = "exit"
    /\ UNCHANGED <<configVars, level, log, pointers, numLights, lights, ports, open,
                   clients, destroyed, why, asserted>>

-----------------------------------------------------------------------------

Start ==
    \/ ConfigNext /\ UNCHANGED programVars
    \/ CreateLogger \/ LoggerThrows
    \/ ParseNumLights \/ ParseLight \/ OpenTty
    \/ OpenUdp \/ CreateContext

Destroy ==
    DestroyContext \/ CloseUdp \/ ClearGlobal \/ CloseTty \/ ClearLogger \/ CloseLog \/ Exit

Next ==
    \/ Start
    \/ \E c \in Clients : ClientChange(c)
    \/ PollFails
    \/ Destroy

Spec == Init /\ [][Next]_vars

LightType == {"rgb", "uv"}

\* No message is logged without a logger and no callback comes without a
\* server, through every order of construction, failure and destruction: the
\* assertions of Logger::message, callback and callback_monitor hold.
GlobalsInPlace == asserted = {}

\* When main returns, nothing is open and no global points to an object that
\* is gone.
CleanExit ==
    pc = "exit" => open = {} /\ clients = {} /\ pointers = {}

\* The server starts with all its lights, each of a known type, and with every
\* channel inside the DMX packet, whatever the file says: what DMXController's
\* model assumes of its constants.
LightsUsable ==
    pc \in {"udp", "context", "run", "destroy", "exit"} =>
        /\ Len(lights) = numLights
        /\ \A i \in DOMAIN lights : /\ lights[i].type \in LightType
                                    /\ lights[i].address + 8 < 517 - 1

\* Every setting stands on at most one line.
Unambiguous == \A i, j \in SettingLines : KeyOf(i) = KeyOf(j) => i = j

\* The number that the file gives for s.n, or the default.
Said(s, n, default) ==
    LET At == Settings(s, n)
    IN  IF \A i \in At : lines[i].value = "" THEN default
        ELSE Number[lines[CHOOSE i \in At : TRUE].value]

\* What the file says of a light's type and of a light.
TypeSaid(s) ==
    LET T == {lines[j].value : j \in Settings(s, "type")}
    IN  IF T = {} THEN "rgb" ELSE CHOOSE t \in T : TRUE

LightAsSaid(i) ==
    /\ lights[i].address = Said(LightSection(i - 1), "address", 0) % 256
    /\ lights[i].type = TypeSaid(LightSection(i - 1))

\* A server that runs on a file without indented lines and with every setting
\* once has the lights and ports that the file says, to the width of a byte
\* and of a port; case of names, order and place of the sections do not matter.
StartsAsConfigured ==
    pc = "run" /\ Flush /\ Unambiguous =>
        /\ Len(lights) = Said("global", "lights", 0)
        /\ \A i \in DOMAIN lights : LightAsSaid(i)
        /\ ports.udp = Said("global", "udpport", 9909) % 65536
        /\ "context" \in pointers => ports.ws = Said("global", "wsport", 9910) % 65536

\* When the program ends because a socket could not be bound or poll failed,
\* the log says so, whatever its level.
LogTellsWhy ==
    /\ why = "bind" => "bind" \in log
    /\ why = "poll" => "poll" \in log

=============================================================================
