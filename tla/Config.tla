------------------------------- MODULE Config -------------------------------
(***************************************************************************)
(* The configuration file: ini_parse_stream and INIReader of inih, line by *)
(* line, and the two get functions of Config through which the program     *)
(* reads what they found.                                                  *)
(*                                                                         *)
(* A line is what one fgets returns.  Its characters are abstracted to     *)
(* what the parser makes of them: whether it is indented, a comment, a     *)
(* header (closed or not), a name with a value, or none of these.  A       *)
(* string value is the sequence of the lines it was put together from,     *)
(* which inih joins with newlines; <<>> is the empty string.               *)
(***************************************************************************)
EXTENDS Integers, Sequences, FiniteSets

CONSTANTS
    Lines,      \* the lines that a file may have
    MaxLines,   \* bound: lines in a file
    Names,      \* section and setting names, as written
    Words,      \* texts of values
    Lower,      \* tolower on names
    Number      \* std::stoi, for the texts that it accepts

\* A line's fields: for a header, name is the section; text is the whole line.
Line ==
    [kind : {"blank", "comment", "header", "unclosed", "pair", "junk"},
     indented : BOOLEAN, name : Names, value : Words, text : Words]

ASSUME ConfigAssumption ==
    /\ Lines \subseteq Line
    /\ MaxLines \in Nat
    /\ "" \in Names /\ "" \in Words /\ "" \notin DOMAIN Number
    /\ \A l \in Lines : /\ l.text # ""
                        /\ l.kind = "pair" => l.name # ""
    /\ Lower \in [Names -> Names] /\ \A n \in Names : Lower[Lower[n]] = Lower[n]
    /\ DOMAIN Number \subseteq Words /\ \A w \in DOMAIN Number : Number[w] \in Int

VARIABLES
    parsing,    \* "start", "lines", "done"
    lines,      \* the lines read so far
    section,    \* the current section
    prev_name,  \* the name that an indented line continues, "" if none
    error,      \* INIReader::_error
    _values     \* INIReader::_values

configVars == <<parsing, lines, section, prev_name, error, _values>>

ConfigInit ==
    /\ parsing = "start"
    /\ lines = <<>>
    /\ section = "" /\ prev_name = ""
    /\ error = 0
    /\ _values = <<>>

-----------------------------------------------------------------------------
(* inih                                                                    *)

\* As if names were compared as written.
MakeKey_CaseSensitive(s, n) == <<s, n>>

\* section=name in lower case.  A name has no = in it, so the pair is as good.
MakeKey(s, n) == <<Lower[s], Lower[n]>>

\* A value is appended on a line of its own, unless there was nothing yet.
Joined(old, new) ==
    IF old # <<>> THEN Append(old, new)
    ELSE IF new = "" THEN <<>> ELSE <<new>>

\* INIReader::ValueHandler, which always accepts.
ValueHandler(s, n, value) ==
    LET key == MakeKey(s, n)
        old == IF key \in DOMAIN _values THEN _values[key] ELSE <<>>
    IN  _values' = [k \in DOMAIN _values \cup {key} |->
                       IF k = key THEN Joined(old, value) ELSE _values[k]]

\* The first error is kept, and the parser goes on.
FirstError(n) == IF error = 0 THEN n ELSE error

\* fopen fails: no values, and -1, which nobody asks for.
OpenFails ==
    /\ parsing = "start"
    /\ parsing' = "done"
    /\ error' = -1
    /\ UNCHANGED <<lines, section, prev_name, _values>>

Open ==
    /\ parsing = "start"
    /\ parsing' = "lines"
    /\ UNCHANGED <<lines, section, prev_name, error, _values>>

Read(l) ==
    /\ parsing = "lines"
    /\ Len(lines) < MaxLines
    /\ lines' = Append(lines, l)
    /\ UNCHANGED parsing

Skipped(l) == l.kind \in {"blank", "comment"}

\* As if an indented setting were a setting.
Continues_NotSettings(l) == l.indented /\ prev_name # "" /\ ~Skipped(l) /\ l.kind # "pair"

\* An indented line after a setting continues its value, whatever it says.
Continues(l) == l.indented /\ prev_name # "" /\ ~Skipped(l)

SkipLine(l) ==
    /\ Read(l)
    /\ Skipped(l)
    /\ UNCHANGED <<section, prev_name, error, _values>>

Continuation(l) ==
    /\ Read(l)
    /\ Continues(l)
    /\ ValueHandler(section, prev_name, l.text)
    /\ UNCHANGED <<section, prev_name, error>>

Header(l) ==
    /\ Read(l)
    /\ ~Continues(l) /\ l.kind = "header"
    /\ section' = l.name
    /\ prev_name' = ""
    /\ UNCHANGED <<error, _values>>

Pair(l) ==
    /\ Read(l)
    /\ ~Continues(l) /\ l.kind = "pair"
    /\ prev_name' = l.name
    /\ ValueHandler(section, l.name, l.value)
    /\ UNCHANGED <<section, error>>

\* No ] on a header, or no = or : on any other line: the section stays.
BadLine(l) ==
    /\ Read(l)
    /\ ~Continues(l) /\ l.kind \in {"unclosed", "junk"}
    /\ error' = FirstError(Len(lines'))
    /\ UNCHANGED <<section, prev_name, _values>>

EndOfFile ==
    /\ parsing = "lines"
    /\ parsing' = "done"
    /\ UNCHANGED <<lines, section, prev_name, error, _values>>

ConfigNext ==
    \/ OpenFails \/ Open \/ EndOfFile
    \/ \E l \in Lines : SkipLine(l) \/ Continuation(l) \/ Header(l) \/ Pair(l) \/ BadLine(l)

ConfigSpec == ConfigInit /\ [][ConfigNext]_configVars

-----------------------------------------------------------------------------
(* Config                                                                  *)

\* Config::get for strings: a setting that is there but empty is empty.
get(s, n, default) ==
    IF MakeKey(s, n) \in DOMAIN _values THEN _values[MakeKey(s, n)] ELSE default

\* Config::get for numbers throws when std::stoi does or the number is
\* negative.  stoi reads the first line of a value.
getThrows(s, n) ==
    LET v == get(s, n, <<>>)
    IN  v # <<>> /\ (v[1] \in DOMAIN Number => Number[v[1]] < 0)

\* An empty setting is the default.
getUnsigned(s, n, default) ==
    LET v == get(s, n, <<>>)
    IN  IF v = <<>> THEN default ELSE Number[v[1]]

-----------------------------------------------------------------------------
(* What a file says, read without the parser's state                       *)

\* No line is indented that has something on it.
Flush == \A i \in DOMAIN lines : lines[i].indented => Skipped(lines[i])

Above(i, kind) == {j \in 1..i : lines[j].kind = kind /\ ~lines[j].indented}

Last(S) == CHOOSE j \in S : \A k \in S : j >= k

\* Every indented line hangs from a setting of its section.
Hanging ==
    \A i \in DOMAIN lines : lines[i].indented /\ ~Skipped(lines[i]) =>
        \E j \in Above(i, "pair") : \A k \in Above(i, "header") : k < j

\* The section of line i: the last closed header above it.
SectionOf(i) ==
    LET H == Above(i, "header") IN IF H = {} THEN "" ELSE lines[Last(H)].name

\* The lines that give some setting a value: settings, and what hangs from
\* them.
SettingLines ==
    {i \in DOMAIN lines : /\ ~Skipped(lines[i])
                          /\ lines[i].kind = "pair" \/ lines[i].indented
                          /\ Above(i, "pair") # {}}

\* The section and the name of the setting that line i belongs to, case aside.
KeyOf(i) == <<Lower[SectionOf(i)], Lower[lines[Last(Above(i, "pair"))].name]>>

Settings(s, n) == {i \in SettingLines : KeyOf(i) = <<Lower[s], Lower[n]>>}

Text(i) == IF lines[i].indented THEN lines[i].text ELSE lines[i].value

\* A file means what it looks like: a setting that is there has the texts of
\* all its lines in their order, from the first that is not empty, and a
\* setting that is not there has none.  An indented line below a setting is
\* part of its value even if it looks like a setting or a header; a header that
\* is not closed leaves its settings to the section above.
ReadAsWritten ==
    Hanging =>
        /\ DOMAIN _values = {KeyOf(i) : i \in SettingLines}
        /\ \A key \in DOMAIN _values :
              LET At   == {i \in SettingLines : KeyOf(i) = key}
                  Said == {i \in At : \E j \in At : j <= i /\ Text(j) # ""}
              IN  /\ Len(_values[key]) = Cardinality(Said)
                  /\ \A i \in Said :
                        _values[key][Cardinality({j \in Said : j <= i})] = Text(i)

=============================================================================
