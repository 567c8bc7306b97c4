---------------------------- MODULE MCLifecycle -----------------------------
(***************************************************************************)
(* Small configuration files for TLC: headers and settings of the server,  *)
(* one of each way in which a line can go wrong, and names in two cases.   *)
(***************************************************************************)
EXTENDS Lifecycle, TLC

MCNames == {"", "global", "logging", "light0", "light1", "lights", "type", "address",
            "numchannels", "udpport", "wsport", "level", "file", "Light0", "udpPort"}

MCLower == [n \in MCNames |-> CASE n = "Light0" -> "light0"
                                [] n = "udpPort" -> "udpport"
                                [] OTHER -> n]

MCLightSection(i) == CASE i = 0 -> "light0" [] i = 1 -> "light1"

MCNumber == "1" :> 1 @@ "2" :> 2 @@ "-1" :> -1 @@ "600" :> 600 @@ "75445" :> 75445

MCWords == DOMAIN MCNumber \cup {"", "rgb", "uv", "info", "error", "text"}

Indent(l)    == [l EXCEPT !.indented = TRUE]
Sect(name)   == [kind |-> "header", indented |-> FALSE, name |-> name, value |-> "", text |-> "text"]
Open0        == [Sect("light0") EXCEPT !.kind = "unclosed"]
Set(name, v) == [kind |-> "pair", indented |-> FALSE, name |-> name, value |-> v, text |-> "text"]
Comment      == Indent([Set("", "") EXCEPT !.kind = "comment"])

\* Settings of the program, repeated and empty ones, an indented setting.
MCLines ==
    {Comment, Open0, Sect("global"), Sect("Light0"), Sect("logging"), Set("lights", "1"),
     Set("address", "600"), Indent(Set("address", "1")), Set("type", "uv"), Set("type", ""),
     Set("udpPort", "75445"), Set("udpPort", "-1"), Set("wsport", "uv"), Set("level", "info")}

=============================================================================
