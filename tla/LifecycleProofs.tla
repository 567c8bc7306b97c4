-------------------------- MODULE LifecycleProofs ---------------------------
(***************************************************************************)
(* The program starts and stops in order, for every configuration file.    *)
(* ProgramInv says, of each phase, which of the objects exist: nothing     *)
(* that the destructors have undone is needed by those that follow.        *)
(* FileInv says what the parser has made of the lines it has read, and     *)
(* StartInv what the constructors took from it.                            *)
(***************************************************************************)
EXTENDS Lifecycle, SubsequencesProofs

Starting == {"config", "lights", "light", "udp", "context", "run"}

\* Which pointers are set in each phase.
PointersInv ==
    /\ pointers \subseteq {"logger", "serveri", "context"}
    /\ pc \in Starting \ {"config"} => "logger" \in pointers
    /\ pc \in {"context", "run"} => "serveri" \in pointers
    /\ pc = "destroy" => /\ destroyed < 5 => "logger" \in pointers
                         /\ destroyed < 3 => "serveri" \in pointers
    /\ destroyed >= 1 => "context" \notin pointers
    /\ destroyed >= 3 => "serveri" \notin pointers
    /\ destroyed >= 5 => "logger" \notin pointers

\* What the destructors have closed stays closed.
OpenInv ==
    /\ open \subseteq {"log", "tty", "udp", "listen"}
    /\ destroyed \in 0..6
    /\ pc \in Starting \cup {"terminated"} => destroyed = 0
    /\ pc = "exit" => destroyed = 6
    /\ destroyed >= 1 => clients = {} /\ "listen" \notin open
    /\ destroyed >= 2 => "udp" \notin open
    /\ destroyed >= 4 => "tty" \notin open
    /\ destroyed >= 6 => "log" \notin open

\* The reason is known only once the program ends.
WhyInv ==
    /\ level \in 0..4
    /\ pc \in Starting => why = "nothing"
    /\ LogTellsWhy

ProgramInv ==
    /\ pc \in Starting \cup {"destroy", "exit", "terminated"}
    /\ PointersInv /\ OpenInv /\ WhyInv
    /\ GlobalsInPlace

\* The six destructors, by number.
LEMMA SixDestructors ==
    /\ Len(Destructors) = 6
    /\ Destructors[1] = "context" /\ Destructors[2] = "udp" /\ Destructors[3] = "global"
    /\ Destructors[4] = "tty" /\ Destructors[5] = "logger" /\ Destructors[6] = "log"
BY DEF Destructors

\* A destructor's step is the one that is due.
LEMMA DestructorDue ==
    ASSUME OpenInv
    PROVE  /\ Destroying("context") => pc = "destroy" /\ destroyed = 0 /\ destroyed' = 1
           /\ Destroying("udp") => pc = "destroy" /\ destroyed = 1 /\ destroyed' = 2
           /\ Destroying("global") => pc = "destroy" /\ destroyed = 2 /\ destroyed' = 3
           /\ Destroying("tty") => pc = "destroy" /\ destroyed = 3 /\ destroyed' = 4
           /\ Destroying("logger") => pc = "destroy" /\ destroyed = 4 /\ destroyed' = 5
           /\ Destroying("log") => pc = "destroy" /\ destroyed = 5 /\ destroyed' = 6
<1> SUFFICES ASSUME NEW what, Destroying(what)
             PROVE  /\ pc = "destroy" /\ destroyed' = destroyed + 1
                    /\ what = "context" => destroyed = 0
                    /\ what = "udp" => destroyed = 1
                    /\ what = "global" => destroyed = 2
                    /\ what = "tty" => destroyed = 3
                    /\ what = "logger" => destroyed = 4
                    /\ what = "log" => destroyed = 5
    OBVIOUS
<1>1. pc = "destroy" /\ destroyed \in 0..5 /\ destroyed' = destroyed + 1
    BY SixDestructors DEF Destroying, OpenInv
<1>2. what = Destructors[destroyed + 1]
    BY DEF Destroying
<1>3. \/ destroyed = 0 \/ destroyed = 1 \/ destroyed = 2
      \/ destroyed = 3 \/ destroyed = 4 \/ destroyed = 5
    BY <1>1
<1>4. QED
    BY <1>1, <1>2, <1>3, SixDestructors

\* An error passes every level.
LEMMA ErrorIsWritten ==
    ASSUME NEW m, level \in 0..4 PROVE Written(ERROR, level, m) = {m}
BY DEF Written, Passes, ERROR

LEMMA ProgramInit == Init => ProgramInv
BY
DEF Init, ProgramInv, Starting, PointersInv, OpenInv, WhyInv, LogTellsWhy, GlobalsInPlace

LEMMA ProgramStep == ProgramInv /\ [Next]_vars => ProgramInv'
<1> SUFFICES ASSUME ProgramInv, [Next]_vars PROVE ProgramInv'
    OBVIOUS
<1>0. PointersInv /\ OpenInv /\ WhyInv /\ GlobalsInPlace
    BY DEF ProgramInv
<1>1. CASE UNCHANGED programVars
    <2>1. pc' \in Starting \cup {"destroy", "exit", "terminated"}
        BY <1>0, <1>1 DEF programVars, ProgramInv, Starting
    <2>2. PointersInv'
        BY <1>0, <1>1 DEF programVars, ProgramInv, PointersInv, Starting, OpenInv
    <2>3. OpenInv'
        BY <1>0, <1>1 DEF programVars, ProgramInv, OpenInv, Starting
    <2>4. WhyInv'
        BY <1>0, <1>1 DEF programVars, ProgramInv, WhyInv, LogTellsWhy, Starting
    <2>5. GlobalsInPlace'
        BY <1>0, <1>1
        DEF programVars, ProgramInv, GlobalsInPlace, PointersInv, Starting, OpenInv
    <2>6. QED
        BY <2>1, <2>2, <2>3, <2>4, <2>5 DEF ProgramInv
<1>2. CASE CreateLogger
    <2>1. level' \in 0..4
        BY <1>2 DEF CreateLogger, LevelOf, parseLogLevelThrows
    <2>2. pc' \in Starting \cup {"destroy", "exit", "terminated"}
        BY <1>0, <1>2, <2>1 DEF CreateLogger, Starting
    <2>3. PointersInv'
        BY <1>0, <1>2, <2>1 DEF CreateLogger, PointersInv, Starting, OpenInv
    <2>4. OpenInv'
        BY <1>0, <1>2, <2>1 DEF CreateLogger, OpenInv, Starting
    <2>5. WhyInv'
        BY <1>0, <1>2, <2>1 DEF CreateLogger, WhyInv, LogTellsWhy, Starting
    <2>6. GlobalsInPlace'
        BY <1>0, <1>2, <2>1
        DEF CreateLogger, GlobalsInPlace, PointersInv, Starting, OpenInv
    <2>7. QED
        BY <2>2, <2>3, <2>4, <2>5, <2>6 DEF ProgramInv
<1>3. CASE LoggerThrows
    <2>1. pc' \in Starting \cup {"destroy", "exit", "terminated"}
        BY <1>0, <1>3 DEF LoggerThrows, Throw, Starting
    <2>2. PointersInv'
        BY <1>0, <1>3 DEF LoggerThrows, Throw, PointersInv, Starting, OpenInv
    <2>3. OpenInv'
        BY <1>0, <1>3 DEF LoggerThrows, Throw, OpenInv, Starting
    <2>4. WhyInv'
        BY <1>0, <1>3 DEF LoggerThrows, Throw, WhyInv, LogTellsWhy, Starting
    <2>5. GlobalsInPlace'
        BY <1>0, <1>3
        DEF LoggerThrows, Throw, GlobalsInPlace, PointersInv, Starting, OpenInv
    <2>6. QED
        BY <2>1, <2>2, <2>3, <2>4, <2>5 DEF ProgramInv
<1>4. CASE ParseNumLights
    <2>1. pc' \in Starting \cup {"destroy", "exit", "terminated"}
        BY <1>0, <1>4 DEF ParseNumLights, Throw, Log, Starting
    <2>2. PointersInv'
        BY <1>0, <1>4 DEF ParseNumLights, Throw, Log, PointersInv, Starting, OpenInv
    <2>3. OpenInv'
        BY <1>0, <1>4 DEF ParseNumLights, Throw, Log, OpenInv, Starting
    <2>4. WhyInv'
        BY <1>0, <1>4 DEF ParseNumLights, Throw, Log, WhyInv, LogTellsWhy, Starting
    <2>5. GlobalsInPlace'
        BY <1>0, <1>4
        DEF ParseNumLights, Throw, Log, GlobalsInPlace, PointersInv, Starting, OpenInv
    <2>6. QED
        BY <2>1, <2>2, <2>3, <2>4, <2>5 DEF ProgramInv
<1>5. CASE ParseLight
    <2>1. pc' \in Starting \cup {"destroy", "exit", "terminated"}
        BY <1>0, <1>5 DEF ParseLight, Throw, Starting
    <2>2. PointersInv'
        BY <1>0, <1>5 DEF ParseLight, Throw, PointersInv, Starting, OpenInv
    <2>3. OpenInv'
        BY <1>0, <1>5 DEF ParseLight, Throw, OpenInv, Starting
    <2>4. WhyInv'
        BY <1>0, <1>5 DEF ParseLight, Throw, WhyInv, LogTellsWhy, Starting
    <2>5. GlobalsInPlace'
        BY <1>0, <1>5
        DEF ParseLight, Throw, GlobalsInPlace, PointersInv, Starting, OpenInv
    <2>6. QED
        BY <2>1, <2>2, <2>3, <2>4, <2>5 DEF ProgramInv
<1>6. CASE OpenTty
    <2>1. pc' \in Starting \cup {"destroy", "exit", "terminated"}
        BY <1>0, <1>6 DEF OpenTty, Starting
    <2>2. PointersInv'
        BY <1>0, <1>6 DEF OpenTty, PointersInv, Starting, OpenInv
    <2>3. OpenInv'
        BY <1>0, <1>6 DEF OpenTty, OpenInv, Starting
    <2>4. WhyInv'
        BY <1>0, <1>6 DEF OpenTty, WhyInv, LogTellsWhy, Starting
    <2>5. GlobalsInPlace'
        BY <1>0, <1>6 DEF OpenTty, GlobalsInPlace, PointersInv, Starting, OpenInv
    <2>6. QED
        BY <2>1, <2>2, <2>3, <2>4, <2>5 DEF ProgramInv
<1>7. CASE OpenUdp
    <2>1. /\ pc = "udp" /\ pointers' = pointers \cup {"serveri"}
          /\ level' = level /\ clients' = clients /\ destroyed' = destroyed
        BY <1>7 DEF OpenUdp
    <2>2. \/ /\ pc' = "terminated" /\ why' = "udpport"
             /\ log' = log /\ asserted' = asserted /\ open' = open
          \/ /\ pc' = "terminated" /\ why' = "bind"
             /\ Log(ERROR, "bind") /\ open' = open
          \/ /\ pc' = "context" /\ why' = why
             /\ Log(INFO, "udp") /\ open' = open \cup {"udp"}
        BY <1>7 DEF OpenUdp, Throw
    <2>3. destroyed = 0 /\ why = "nothing" /\ "logger" \in pointers
        BY <1>0, <2>1 DEF OpenInv, WhyInv, PointersInv, Starting
    <2>4. /\ open' \subseteq {"log", "tty", "udp", "listen"}
          /\ Log(ERROR, "bind") => "bind" \in log'
        <3>1. open' = open \/ open' = open \cup {"udp"}
            BY <2>2
        <3>2. open \subseteq {"log", "tty", "udp", "listen"} /\ level \in 0..4
            BY <1>0 DEF OpenInv, WhyInv
        <3>3. open' \subseteq {"log", "tty", "udp", "listen"}
            BY <3>1, <3>2
        <3>4. Log(ERROR, "bind") => "bind" \in log'
            BY <2>3, <3>2, ErrorIsWritten DEF Log
        <3>5. QED
            BY <3>3, <3>4
    <2>5. pc' \in Starting \cup {"destroy", "exit", "terminated"}
        BY <1>0, <2>1, <2>2 DEF Log, Starting
    <2>6. PointersInv'
        BY <1>0, <2>1, <2>2 DEF Log, PointersInv, Starting, OpenInv
    <2>7. OpenInv'
        BY <2>1, <2>2, <2>3, <2>4 DEF OpenInv, Starting
    <2>8. WhyInv'
        BY <1>0, <2>1, <2>2, <2>3, <2>4 DEF WhyInv, LogTellsWhy, Starting
    <2>9. GlobalsInPlace'
        BY <1>0, <2>1, <2>2 DEF Log, GlobalsInPlace, PointersInv, Starting, OpenInv
    <2>10. QED
        BY <2>5, <2>6, <2>7, <2>8, <2>9 DEF ProgramInv
<1>8. CASE CreateContext
    <2>1. /\ pc = "context"
          /\ level' = level /\ clients' = clients /\ destroyed' = destroyed
        BY <1>8 DEF CreateContext
    <2>2. \/ /\ pc' = "terminated" /\ why' = "wsport" /\ pointers' = pointers
             /\ log' = log /\ asserted' = asserted /\ open' = open
          \/ /\ pc' = "run" /\ why' = why /\ pointers' = pointers
             /\ log' = log /\ asserted' = asserted /\ open' = open
          \/ /\ pc' = "run" /\ why' = why /\ pointers' = pointers \cup {"context"}
             /\ Callback("callback") /\ open' = open \cup {"listen"}
        BY <1>8 DEF CreateContext, Throw
    <2>3. destroyed = 0 /\ why = "nothing"
        BY <1>0, <2>1 DEF OpenInv, WhyInv, Starting
    <2>4. open' \subseteq {"log", "tty", "udp", "listen"}
        <3>1. open' = open \/ open' = open \cup {"listen"}
            BY <2>2
        <3>2. QED
            BY <1>0, <3>1 DEF OpenInv
    <2>5. pc' \in Starting \cup {"destroy", "exit", "terminated"}
        BY <1>0, <2>1, <2>2 DEF Callback, Starting
    <2>6. PointersInv'
        <3>1. pointers' = pointers \/ pointers' = pointers \cup {"context"}
            BY <2>2
        <3>2. /\ "logger" \in pointers /\ "serveri" \in pointers
              /\ pointers \subseteq {"logger", "serveri", "context"}
            BY <1>0, <2>1 DEF PointersInv, Starting
        <3>3. destroyed' = 0
            BY <2>1, <2>3
        <3>4. pointers' \subseteq {"logger", "serveri", "context"}
            BY <3>1, <3>2
        <3>5. "logger" \in pointers' /\ "serveri" \in pointers'
            BY <3>1, <3>2
        <3>6. QED
            BY <3>3, <3>4, <3>5 DEF PointersInv
    <2>7. OpenInv'
        BY <2>1, <2>2, <2>3, <2>4 DEF OpenInv, Starting
    <2>8. WhyInv'
        BY <1>0, <2>1, <2>2, <2>3, <2>4 DEF WhyInv, LogTellsWhy, Starting
    <2>9. GlobalsInPlace'
        BY <1>0, <2>1, <2>2
        DEF Callback, GlobalsInPlace, PointersInv, Starting, OpenInv
    <2>10. QED
        BY <2>5, <2>6, <2>7, <2>8, <2>9 DEF ProgramInv
<1>9. ASSUME NEW c \in Clients, ClientChange(c) PROVE ProgramInv'
    <2>1. pc' \in Starting \cup {"destroy", "exit", "terminated"}
        BY <1>0, <1>9 DEF ClientChange, Callback, Starting
    <2>2. PointersInv'
        BY <1>0, <1>9 DEF ClientChange, Callback, PointersInv, Starting, OpenInv
    <2>3. OpenInv'
        BY <1>0, <1>9 DEF ClientChange, Callback, OpenInv, Starting
    <2>4. WhyInv'
        BY <1>0, <1>9 DEF ClientChange, Callback, WhyInv, LogTellsWhy, Starting
    <2>5. GlobalsInPlace'
        BY <1>0, <1>9
        DEF ClientChange, Callback, GlobalsInPlace, PointersInv, Starting, OpenInv
    <2>6. QED
        BY <2>1, <2>2, <2>3, <2>4, <2>5 DEF ProgramInv
<1>10. CASE PollFails
    <2>1. "logger" \in pointers /\ level \in 0..4
        BY <1>0, <1>10 DEF PollFails, PointersInv, WhyInv, Starting
    <2>2. "poll" \in log' /\ level' = level /\ why' = "poll" /\ pc' = "destroy"
        BY <1>10, <2>1, ErrorIsWritten DEF PollFails, Log
    <2>3. pc' \in Starting \cup {"destroy", "exit", "terminated"}
        BY <1>0, <1>10 DEF PollFails, Log, Starting
    <2>4. PointersInv'
        BY <1>0, <1>10 DEF PollFails, Log, PointersInv, Starting, OpenInv
    <2>5. OpenInv'
        BY <1>0, <1>10 DEF PollFails, Log, OpenInv, Starting
    <2>6. WhyInv'
        BY <2>1, <2>2 DEF WhyInv, LogTellsWhy, Starting
    <2>7. GlobalsInPlace'
        BY <1>0, <1>10
        DEF PollFails, Log, GlobalsInPlace, PointersInv, Starting, OpenInv
    <2>8. QED
        BY <2>3, <2>4, <2>5, <2>6, <2>7 DEF ProgramInv
<1>11. CASE DestroyContext
    <2>1. Destroying("context")
        BY <1>11 DEF DestroyContext
    <2>2. pc = "destroy" /\ destroyed = 0 /\ destroyed' = 1
        BY <1>0, <2>1, DestructorDue
    <2>3. pc' \in Starting \cup {"destroy", "exit", "terminated"}
        BY <1>0, <1>11, <2>2 DEF DestroyContext, Destroying, Callback, Starting
    <2>4. PointersInv'
        BY <1>0, <1>11, <2>2
        DEF DestroyContext, Destroying, Callback, PointersInv, Starting, OpenInv
    <2>5. OpenInv'
        BY <1>0, <1>11, <2>2
        DEF DestroyContext, Destroying, Callback, OpenInv, Starting
    <2>6. WhyInv'
        BY <1>0, <1>11, <2>2
        DEF DestroyContext, Destroying, Callback, WhyInv, LogTellsWhy, Starting
    <2>7. GlobalsInPlace'
        BY <1>0, <1>11, <2>2
        DEF DestroyContext, Destroying, Callback, GlobalsInPlace, PointersInv, Starting, OpenInv
    <2>8. QED
        BY <2>3, <2>4, <2>5, <2>6, <2>7 DEF ProgramInv
<1>12. CASE CloseUdp
    <2>1. Destroying("udp")
        BY <1>12 DEF CloseUdp
    <2>2. pc = "destroy" /\ destroyed = 1 /\ destroyed' = 2
        BY <1>0, <2>1, DestructorDue
    <2>3. pc' \in Starting \cup {"destroy", "exit", "terminated"}
        BY <1>0, <1>12, <2>2 DEF CloseUdp, Destroying, Starting
    <2>4. PointersInv'
        BY <1>0, <1>12, <2>2 DEF CloseUdp, Destroying, PointersInv, Starting, OpenInv
    <2>5. OpenInv'
        BY <1>0, <1>12, <2>2 DEF CloseUdp, Destroying, OpenInv, Starting
    <2>6. WhyInv'
        BY <1>0, <1>12, <2>2 DEF CloseUdp, Destroying, WhyInv, LogTellsWhy, Starting
    <2>7. GlobalsInPlace'
        BY <1>0, <1>12, <2>2
        DEF CloseUdp, Destroying, GlobalsInPlace, PointersInv, Starting, OpenInv
    <2>8. QED
        BY <2>3, <2>4, <2>5, <2>6, <2>7 DEF ProgramInv
<1>13. CASE ClearGlobal
    <2>1. Destroying("global")
        BY <1>13 DEF ClearGlobal
    <2>2. pc = "destroy" /\ destroyed = 2 /\ destroyed' = 3
        BY <1>0, <2>1, DestructorDue
    <2>3. pc' \in Starting \cup {"destroy", "exit", "terminated"}
        BY <1>0, <1>13, <2>2 DEF ClearGlobal, Destroying, Starting
    <2>4. PointersInv'
        BY <1>0, <1>13, <2>2
        DEF ClearGlobal, Destroying, PointersInv, Starting, OpenInv
    <2>5. OpenInv'
        BY <1>0, <1>13, <2>2 DEF ClearGlobal, Destroying, OpenInv, Starting
    <2>6. WhyInv'
        BY <1>0, <1>13, <2>2
        DEF ClearGlobal, Destroying, WhyInv, LogTellsWhy, Starting
    <2>7. GlobalsInPlace'
        BY <1>0, <1>13, <2>2
        DEF ClearGlobal, Destroying, GlobalsInPlace, PointersInv, Starting, OpenInv
    <2>8. QED
        BY <2>3, <2>4, <2>5, <2>6, <2>7 DEF ProgramInv
<1>14. CASE CloseTty
    <2>1. Destroying("tty")
        BY <1>14 DEF CloseTty
    <2>2. pc = "destroy" /\ destroyed = 3 /\ destroyed' = 4
        BY <1>0, <2>1, DestructorDue
    <2>3. pc' \in Starting \cup {"destroy", "exit", "terminated"}
        BY <1>0, <1>14, <2>2 DEF CloseTty, Destroying, Starting
    <2>4. PointersInv'
        BY <1>0, <1>14, <2>2 DEF CloseTty, Destroying, PointersInv, Starting, OpenInv
    <2>5. OpenInv'
        BY <1>0, <1>14, <2>2 DEF CloseTty, Destroying, OpenInv, Starting
    <2>6. WhyInv'
        BY <1>0, <1>14, <2>2 DEF CloseTty, Destroying, WhyInv, LogTellsWhy, Starting
    <2>7. GlobalsInPlace'
        BY <1>0, <1>14, <2>2
        DEF CloseTty, Destroying, GlobalsInPlace, PointersInv, Starting, OpenInv
    <2>8. QED
        BY <2>3, <2>4, <2>5, <2>6, <2>7 DEF ProgramInv
<1>15. CASE ClearLogger
    <2>1. Destroying("logger")
        BY <1>15 DEF ClearLogger
    <2>2. pc = "destroy" /\ destroyed = 4 /\ destroyed' = 5
        BY <1>0, <2>1, DestructorDue
    <2>3. pc' \in Starting \cup {"destroy", "exit", "terminated"}
        BY <1>0, <1>15, <2>2 DEF ClearLogger, Destroying, Starting
    <2>4. PointersInv'
        BY <1>0, <1>15, <2>2
        DEF ClearLogger, Destroying, PointersInv, Starting, OpenInv
    <2>5. OpenInv'
        BY <1>0, <1>15, <2>2 DEF ClearLogger, Destroying, OpenInv, Starting
    <2>6. WhyInv'
        BY <1>0, <1>15, <2>2
        DEF ClearLogger, Destroying, WhyInv, LogTellsWhy, Starting
    <2>7. GlobalsInPlace'
        BY <1>0, <1>15, <2>2
        DEF ClearLogger, Destroying, GlobalsInPlace, PointersInv, Starting, OpenInv
    <2>8. QED
        BY <2>3, <2>4, <2>5, <2>6, <2>7 DEF ProgramInv
<1>16. CASE CloseLog
    <2>1. Destroying("log")
        BY <1>16 DEF CloseLog
    <2>2. pc = "destroy" /\ destroyed = 5 /\ destroyed' = 6
        BY <1>0, <2>1, DestructorDue
    <2>3. pc' \in Starting \cup {"destroy", "exit", "terminated"}
        BY <1>0, <1>16, <2>2 DEF CloseLog, Destroying, Starting
    <2>4. PointersInv'
        BY <1>0, <1>16, <2>2 DEF CloseLog, Destroying, PointersInv, Starting, OpenInv
    <2>5. OpenInv'
        BY <1>0, <1>16, <2>2 DEF CloseLog, Destroying, OpenInv, Starting
    <2>6. WhyInv'
        BY <1>0, <1>16, <2>2 DEF CloseLog, Destroying, WhyInv, LogTellsWhy, Starting
    <2>7. GlobalsInPlace'
        BY <1>0, <1>16, <2>2
        DEF CloseLog, Destroying, GlobalsInPlace, PointersInv, Starting, OpenInv
    <2>8. QED
        BY <2>3, <2>4, <2>5, <2>6, <2>7 DEF ProgramInv
<1>17. CASE Exit
    <2>1. pc' \in Starting \cup {"destroy", "exit", "terminated"}
        BY <1>0, <1>17, SixDestructors DEF Exit, Starting
    <2>2. PointersInv'
        BY <1>0, <1>17, SixDestructors DEF Exit, PointersInv, Starting, OpenInv
    <2>3. OpenInv'
        BY <1>0, <1>17, SixDestructors DEF Exit, OpenInv, Starting
    <2>4. WhyInv'
        BY <1>0, <1>17, SixDestructors DEF Exit, WhyInv, LogTellsWhy, Starting
    <2>5. GlobalsInPlace'
        BY <1>0, <1>17, SixDestructors
        DEF Exit, GlobalsInPlace, PointersInv, Starting, OpenInv
    <2>6. QED
        BY <2>1, <2>2, <2>3, <2>4, <2>5 DEF ProgramInv
<1>18. QED
    BY <1>1, <1>2, <1>3, <1>4, <1>5, <1>6, <1>7, <1>8, <1>9, <1>10, <1>11, <1>12,
       <1>13, <1>14, <1>15, <1>16, <1>17
    DEF Next, Start, Destroy, vars, programVars

\* The assertions of Logger::message, callback and callback_monitor hold, for
\* every configuration and whatever fails on the way.
THEOREM GlobalsStayInPlace == Spec => []GlobalsInPlace
<1>1. ProgramInv => GlobalsInPlace
    BY DEF ProgramInv
<1>2. QED
    BY <1>1, ProgramInit, ProgramStep, PTL DEF Spec

\* When main returns, the destructors have closed every descriptor and cleared
\* every pointer.
THEOREM ExitIsClean == Spec => []CleanExit
<1>1. ProgramInv => CleanExit
    BY DEF ProgramInv, PointersInv, OpenInv, CleanExit, Starting
<1>2. QED
    BY <1>1, ProgramInit, ProgramStep, PTL DEF Spec

\* An end by bind or by poll is in the log at every level.
THEOREM LogAlwaysTells == Spec => []LogTellsWhy
<1>1. ProgramInv => LogTellsWhy
    BY DEF ProgramInv, WhyInv
<1>2. QED
    BY <1>1, ProgramInit, ProgramStep, PTL DEF Spec

-----------------------------------------------------------------------------
(* The lights                                                              *)

LightRecord == [type : LightType, address : 0..255]

LightsInv ==
    /\ numLights \in Nat
    /\ lights \in Seq(LightRecord)
    /\ pc \in {"udp", "context", "run", "destroy", "exit"} => Len(lights) = numLights
    /\ pc \in {"config", "lights"} => lights = <<>>

\* A number that does not throw is one.
LEMMA NumberRead ==
    ASSUME NEW s, NEW n, NEW default \in Nat, ~getThrows(s, n)
    PROVE  getUnsigned(s, n, default) \in Nat
<1> DEFINE v == get(s, n, <<>>)
<1>1. v = <<>> \/ (v[1] \in DOMAIN Number /\ ~(Number[v[1]] < 0))
    BY DEF getThrows
<1> HIDE DEF v
<1>2. CASE v = <<>>
    BY <1>2 DEF getUnsigned, v
<1>3. CASE v # <<>>
    <2>1. v[1] \in DOMAIN Number /\ ~(Number[v[1]] < 0)
        BY <1>1, <1>3
    <2>2. Number[v[1]] \in Int
        BY <2>1, ConfigAssumption
    <2>3. Number[v[1]] \in Nat
        BY <2>1, <2>2
    <2>4. getUnsigned(s, n, default) = Number[v[1]]
        BY <1>3 DEF getUnsigned, v
    <2>5. QED
        BY <2>3, <2>4
<1>4. QED
    BY <1>2, <1>3

LEMMA LightsStep == LightsInv /\ [Next]_vars => LightsInv'
<1> SUFFICES ASSUME LightsInv, [Next]_vars PROVE LightsInv'
    OBVIOUS
<1>1. CASE ParseNumLights
    <2>1. numLights' \in Nat
        BY <1>1, NumberRead DEF ParseNumLights, LightsInv
    <2>2. pc = "lights" /\ pc' \in {"light", "terminated"} /\ lights' = lights
        BY <1>1 DEF ParseNumLights, Throw
    <2>3. QED
        BY <2>1, <2>2 DEF LightsInv
<1>2. CASE ParseLight
    <2> DEFINE s == LightSection(Len(lights))
               r == [type    |-> TypeSetting(s)[1],
                     address |-> Truncated(getUnsigned(s, "address", 0))]
    <2>1. \/ lights' = lights
          \/ /\ ~getThrows(s, "address") /\ ~parseLightTypeThrows(TypeSetting(s))
             /\ lights' = Append(lights, r)
        BY <1>2 DEF ParseLight
    <2>2. pc = "light" /\ pc' \in {"light", "terminated"} /\ numLights' = numLights
        BY <1>2 DEF ParseLight, Throw
    <2>3. ASSUME ~getThrows(s, "address"), ~parseLightTypeThrows(TypeSetting(s))
          PROVE  r \in LightRecord
        <3> HIDE DEF s
        <3>1. getUnsigned(s, "address", 0) \in Nat
            BY <2>3, NumberRead
        <3>2. Truncated(getUnsigned(s, "address", 0)) \in 0..255
            BY <3>1 DEF Truncated
        <3>3. TypeSetting(s)[1] \in LightType
            BY <2>3 DEF parseLightTypeThrows, LightType
        <3>4. QED
            BY <3>2, <3>3 DEF LightRecord
    <2> HIDE DEF s, r
    <2>4. lights' \in Seq(LightRecord)
        BY <2>1, <2>3 DEF LightsInv
    <2>5. QED
        BY <2>2, <2>4 DEF LightsInv
<1>3. CASE UNCHANGED <<numLights, lights>>
           /\ \/ pc' = pc \/ pc' = "terminated"
              \/ pc = "config" /\ pc' = "lights"
              \/ pc = "light" /\ Len(lights) = numLights /\ pc' = "udp"
              \/ /\ pc \in {"udp", "context", "run", "destroy"}
                 /\ pc' \in {"context", "run", "destroy", "exit"}
    BY <1>3 DEF LightsInv
<1>4. CASE CreateLogger \/ LoggerThrows \/ OpenTty \/ PollFails \/ Exit
    BY <1>3, <1>4 DEF CreateLogger, LoggerThrows, OpenTty, PollFails, Exit, Throw
<1>5. CASE OpenUdp
    BY <1>3, <1>5 DEF OpenUdp, Throw
<1>6. CASE CreateContext
    BY <1>3, <1>6 DEF CreateContext, Throw
<1>7. ASSUME NEW c \in Clients, ClientChange(c) PROVE LightsInv'
    BY <1>3, <1>7 DEF ClientChange
<1>8. CASE DestroyContext \/ CloseUdp \/ ClearGlobal \/ CloseTty \/ ClearLogger \/ CloseLog
    BY <1>3, <1>8
    DEF DestroyContext, CloseUdp, ClearGlobal, CloseTty, ClearLogger, CloseLog, Destroying
<1>9. CASE UNCHANGED programVars
    BY <1>3, <1>9 DEF programVars
<1>10. QED
    BY <1>1, <1>2, <1>4, <1>5, <1>6, <1>7, <1>8, <1>9
    DEF Next, Start, Destroy, vars, programVars

\* Every file that the server starts with gives it all its lights, of known
\* types and with channels inside the packet.
THEOREM LightsAlwaysUsable == Spec => []LightsUsable
<1>1. Init => LightsInv
    BY DEF Init, LightsInv
<1>2. LightsInv => LightsUsable
    <2> SUFFICES ASSUME LightsInv, pc \in {"udp", "context", "run", "destroy", "exit"},
                        NEW i \in DOMAIN lights
                 PROVE  /\ lights[i].type \in LightType
                        /\ lights[i].address + 8 < 517 - 1
        BY DEF LightsUsable, LightsInv
    <2>1. lights[i] \in LightRecord
        BY DEF LightsInv
    <2>2. QED
        BY <2>1 DEF LightRecord
<1>3. QED
    BY <1>1, <1>2, LightsStep, PTL DEF Spec

-----------------------------------------------------------------------------
(* The file                                                                *)

\* The last of some positions is one of them, and no other is behind it.
LEMMA LastIs ==
    ASSUME NEW n \in Nat, NEW T \in SUBSET (1..n), T # {}
    PROVE  Last(T) \in T /\ \A k \in T : Last(T) >= k
<1> DEFINE U == {d \in Nat : \E i \in T : d = n - i}
<1>1. U \in SUBSET Nat /\ U # {}
    <2>1. PICK i \in T : TRUE
        OBVIOUS
    <2>2. n - i \in U
        OBVIOUS
    <2>3. QED
        BY <2>2
<1>2. PICK d \in U : \A e \in U : d <= e
    BY <1>1, LeastNat
<1>3. PICK x \in T : d = n - x
    OBVIOUS
<1>4. ASSUME NEW y \in T PROVE x >= y
    <2>1. n - y \in U
        OBVIOUS
    <2>2. QED
        BY <1>2, <1>3, <2>1
<1>5. \E z \in T : \A y \in T : z >= y
    BY <1>4
<1>6. QED
    BY <1>5 DEF Last

\* The settings and the headers above the end of what is read.
Pairs   == Above(Len(lines), "pair")
Headers == Above(Len(lines), "header")

\* A line at the end would hang from a setting of its section.
Hung == \E j \in Pairs : \A k \in Headers : k < j

\* Where the parser is: the section and the setting of the last line.
Where ==
    /\ section = SectionOf(Len(lines))
    /\ IF Hung THEN prev_name = lines[Last(Pairs)].name /\ prev_name # ""
               ELSE prev_name = ""

\* The lines of a setting, from the first that is not empty.
LinesOf(key) == {i \in SettingLines : KeyOf(i) = key}
SaidOf(key)  == {i \in LinesOf(key) : \E j \in LinesOf(key) : j <= i /\ Text(j) # ""}

\* A value is made of the texts of the lines T, in their order.
MadeOf(v, T) == Len(v) = Cardinality(T) /\ \A i \in T : v[Rank(T, i)] = Text(i)

ValuesInv ==
    /\ DOMAIN _values = {KeyOf(i) : i \in SettingLines}
    /\ \A key \in DOMAIN _values : MadeOf(_values[key], SaidOf(key))

FileTypes ==
    /\ lines \in Seq(Lines)
    /\ \A key \in DOMAIN _values : _values[key] \in Seq(Words)

FileInv == FileTypes /\ (Hanging => Where /\ ValuesInv)

\* ReadAsWritten in the words of this section.
LEMMA ReadAsWrittenIs == ReadAsWritten <=> (Hanging => ValuesInv)
BY DEF ReadAsWritten, ValuesInv, MadeOf, SaidOf, LinesOf, Rank

\* One more line leaves what the lines above it are as it was.
LEMMA LinesAbove ==
    ASSUME lines \in Seq(Lines), NEW l \in Lines, lines' = Append(lines, l),
           NEW i \in 0..Len(lines)
    PROVE  /\ Above(i, "pair")' = Above(i, "pair")
           /\ Above(i, "header")' = Above(i, "header")
           /\ SectionOf(i)' = SectionOf(i)
           /\ i # 0 => lines'[i] = lines[i] /\ Text(i)' = Text(i)
           /\ i # 0 /\ Above(i, "pair") # {} => KeyOf(i)' = KeyOf(i)
<1>1. /\ Len(lines) \in Nat /\ i \in Nat /\ i <= Len(lines)
      /\ \A j \in 1..Len(lines) : lines'[j] = lines[j]
    OBVIOUS
<1>2. /\ Above(i, "pair")' = Above(i, "pair")
      /\ Above(i, "header")' = Above(i, "header")
    BY <1>1 DEF Above
<1>3. /\ Above(i, "header") \in SUBSET (1..Len(lines))
      /\ Above(i, "pair") \in SUBSET (1..Len(lines))
    BY <1>1 DEF Above
<1>4. Above(i, "header") # {} => Last(Above(i, "header")) \in 1..Len(lines)
    BY <1>1, <1>3, LastIs
<1>5. Above(i, "pair") # {} => Last(Above(i, "pair")) \in 1..Len(lines)
    BY <1>1, <1>3, LastIs
<1>6. SectionOf(i)' = SectionOf(i)
    BY <1>1, <1>2, <1>4 DEF SectionOf
<1>7. Above(i, "pair") # {} => KeyOf(i)' = KeyOf(i)
    BY <1>1, <1>2, <1>5, <1>6 DEF KeyOf
<1>8. i # 0 => lines'[i] = lines[i] /\ Text(i)' = Text(i)
    BY <1>1 DEF Text
<1>9. QED
    BY <1>2, <1>6, <1>7, <1>8

\* What one more line adds to the settings, to the headers and to the lines that
\* give a setting a value.  An indented line of a file that means what it looks
\* like has a setting to hang from.
LEMMA NewLine ==
    ASSUME lines \in Seq(Lines), NEW l \in Lines, lines' = Append(lines, l),
           NEW m \in Nat, m = Len(lines) + 1
    PROVE  /\ Len(lines)' = m /\ lines'[m] = l
           /\ SettingLines \subseteq 1..Len(lines)
           /\ Pairs' = IF l.kind = "pair" /\ ~l.indented THEN Pairs \cup {m} ELSE Pairs
           /\ Headers' = IF l.kind = "header" /\ ~l.indented THEN Headers \cup {m}
                                                             ELSE Headers
           /\ Hanging' => Hanging /\ (l.indented /\ ~Skipped(l) => Hung)
           /\ SettingLines' = IF /\ ~Skipped(l) /\ (l.kind = "pair" \/ l.indented)
                                 /\ Pairs' # {}
                              THEN SettingLines \cup {m} ELSE SettingLines
           /\ \A i \in SettingLines : KeyOf(i)' = KeyOf(i) /\ Text(i)' = Text(i)
<1>0. PICK n \in Nat : n = Len(lines)
    OBVIOUS
<1>1. /\ m = n + 1 /\ Len(lines') = m /\ lines'[m] = l
      /\ DOMAIN lines = 1..n /\ DOMAIN lines' = 1..m
      /\ 1..m = (1..n) \cup {m} /\ m \notin 1..n
    BY <1>0
<1>2. \A i \in 1..n : lines'[i] = lines[i]
    BY <1>0
<1>3. \A i \in 1..n : /\ Above(i, "pair")' = Above(i, "pair")
                      /\ Above(i, "header")' = Above(i, "header")
    BY LinesAbove, <1>0
<1>4. /\ Pairs' = {j \in 1..m : lines'[j].kind = "pair" /\ ~lines'[j].indented}
      /\ Pairs = {j \in 1..n : lines[j].kind = "pair" /\ ~lines[j].indented}
      /\ Headers' = {j \in 1..m : lines'[j].kind = "header" /\ ~lines'[j].indented}
      /\ Headers = {j \in 1..n : lines[j].kind = "header" /\ ~lines[j].indented}
      /\ Above(m, "pair")' = Pairs' /\ Above(m, "header")' = Headers'
    BY <1>0, <1>1 DEF Pairs, Headers, Above
<1>5. /\ Pairs' = IF l.kind = "pair" /\ ~l.indented THEN Pairs \cup {m} ELSE Pairs
      /\ Headers' = IF l.kind = "header" /\ ~l.indented THEN Headers \cup {m} ELSE Headers
    BY <1>1, <1>2, <1>4
<1>6. Hanging' => Hanging
    <2> SUFFICES ASSUME Hanging', NEW i \in 1..n, lines[i].indented, ~Skipped(lines[i])
                 PROVE  \E j \in Above(i, "pair") : \A k \in Above(i, "header") : k < j
        BY <1>1 DEF Hanging
    <2>1. lines'[i].indented /\ ~Skipped(lines'[i]) /\ i \in DOMAIN lines'
        BY <1>1, <1>2
    <2>2. \E j \in Above(i, "pair")' : \A k \in Above(i, "header")' : k < j
        BY <2>1 DEF Hanging, Skipped
    <2>3. QED
        BY <1>3, <2>2
<1>7. ASSUME Hanging', l.indented, ~Skipped(l) PROVE Hung
    <2>1. m \in DOMAIN lines' /\ lines'[m].indented /\ ~Skipped(lines'[m])
        BY <1>1, <1>7
    <2>2. \E j \in Above(m, "pair")' : \A k \in Above(m, "header")' : k < j
        BY <1>7, <2>1 DEF Hanging, Skipped
    <2>3. Pairs' = Pairs /\ Headers' = Headers
        BY <1>5, <1>7
    <2>4. QED
        BY <1>4, <2>2, <2>3 DEF Hung
<1>8. SettingLines = {i \in 1..n : /\ ~Skipped(lines[i])
                                   /\ lines[i].kind = "pair" \/ lines[i].indented
                                   /\ Above(i, "pair") # {}}
    BY <1>1 DEF SettingLines
<1>9. SettingLines' = {i \in 1..m : /\ ~Skipped(lines'[i])
                                    /\ lines'[i].kind = "pair" \/ lines'[i].indented
                                    /\ Above(i, "pair")' # {}}
    BY <1>1 DEF SettingLines, Skipped
<1>10. SettingLines' = IF /\ ~Skipped(l) /\ (l.kind = "pair" \/ l.indented)
                          /\ Pairs' # {}
                       THEN SettingLines \cup {m} ELSE SettingLines
    <2>1. \A i \in 1..n : i \in SettingLines' <=> i \in SettingLines
        BY <1>1, <1>2, <1>3, <1>8, <1>9
    <2>2. m \in SettingLines' <=> /\ ~Skipped(l) /\ (l.kind = "pair" \/ l.indented)
                                  /\ Pairs' # {}
        BY <1>1, <1>4, <1>9
    <2>3. SettingLines' \subseteq 1..m /\ SettingLines \subseteq 1..n
        BY <1>8, <1>9
    <2>4. m \in SettingLines' => SettingLines' = SettingLines \cup {m}
        BY <1>1, <2>1, <2>3
    <2>5. m \notin SettingLines' => SettingLines' = SettingLines
        BY <1>1, <2>1, <2>3
    <2>6. QED
        BY <2>2, <2>4, <2>5
<1>11. ASSUME NEW i \in SettingLines
       PROVE  KeyOf(i)' = KeyOf(i) /\ Text(i)' = Text(i)
    <2>1. i \in 0..Len(lines) /\ i # 0 /\ Above(i, "pair") # {}
        BY <1>0, <1>8
    <2>2. QED
        BY <2>1, LinesAbove
<1>12. SettingLines \subseteq 1..n
    BY <1>8
<1>13. QED
    BY <1>0, <1>1, <1>5, <1>6, <1>7, <1>10, <1>11, <1>12

\* A line that gives no setting a value leaves them as they were.
LEMMA ValuesKept ==
    ASSUME ValuesInv, SettingLines' = SettingLines, _values' = _values,
           \A i \in SettingLines : KeyOf(i)' = KeyOf(i) /\ Text(i)' = Text(i)
    PROVE  ValuesInv'
<1>1. ASSUME NEW key
      PROVE  LinesOf(key)' = LinesOf(key) /\ LinesOf(key) \subseteq SettingLines
    BY DEF LinesOf
<1>2. ASSUME NEW key
      PROVE  SaidOf(key)' = SaidOf(key) /\ SaidOf(key) \subseteq SettingLines
    <2>1. LinesOf(key)' = LinesOf(key) /\ LinesOf(key) \subseteq SettingLines
        BY <1>1
    <2>2. \A j \in LinesOf(key) : Text(j)' = Text(j)
        BY <2>1
    <2>3. QED
        BY <2>1, <2>2 DEF SaidOf
<1>3. ASSUME NEW key \in DOMAIN _values
      PROVE  MadeOf(_values[key], SaidOf(key))'
    BY <1>2 DEF ValuesInv, MadeOf
<1>4. DOMAIN _values = {KeyOf(i)' : i \in SettingLines'}
    BY DEF ValuesInv
<1>5. QED
    BY <1>3, <1>4 DEF ValuesInv

\* The positions from the first one in P on.
From(L, P) == {i \in L : \E j \in L : j <= i /\ j \in P}

\* F is G, with m if it has.
With(F, G, m, has) == F = IF has THEN G \cup {m} ELSE G

\* P and Q have the same positions of L.
Agree(L, P, Q) == \A j \in L : j \in Q <=> j \in P

\* One more position, behind all others, is in From if some position was, or if
\* it is in P itself.
LEMMA FromAdded ==
    ASSUME NEW L, NEW m, Behind(m, L), NEW P, NEW Q, Agree(L, P, Q)
    PROVE  With(From(L \cup {m}, Q), From(L, P), m, From(L, P) # {} \/ m \in Q)
<1>1. m \in Nat /\ \A j \in L : j \in Int /\ j < m /\ ~(m <= j)
    BY DEF Behind
<1>2. \A i \in L : i \in From(L \cup {m}, Q) <=> i \in From(L, P)
    BY <1>1 DEF From, Agree
<1>3. m \in From(L \cup {m}, Q) <=> (\E j \in L : j \in P) \/ m \in Q
    BY <1>1 DEF From, Agree
<1>4. (\E j \in L : j \in P) <=> From(L, P) # {}
    <2>1. ASSUME NEW j \in L, j \in P PROVE j \in From(L, P)
        BY <1>1, <2>1 DEF From
    <2>2. QED
        BY <2>1 DEF From
<1>5. From(L \cup {m}, Q) \subseteq L \cup {m} /\ From(L, P) \subseteq L /\ m \notin L
    BY <1>1 DEF From
<1>6. m \in From(L \cup {m}, Q) => From(L \cup {m}, Q) = From(L, P) \cup {m}
    BY <1>2, <1>5
<1>7. m \notin From(L \cup {m}, Q) => From(L \cup {m}, Q) = From(L, P)
    BY <1>2, <1>5
<1>8. QED
    BY <1>3, <1>4, <1>6, <1>7 DEF With

\* A line at the end that gives a setting a value: the value has its text behind
\* the others, or none while all its texts are empty.
LEMMA ValueAdded ==
    ASSUME FileTypes, ValuesInv, NEW m \in Nat, m = Len(lines) + 1,
           SettingLines \subseteq 1..Len(lines), SettingLines' = SettingLines \cup {m},
           \A i \in SettingLines : KeyOf(i)' = KeyOf(i) /\ Text(i)' = Text(i),
           NEW s, NEW name, NEW value \in Words, ValueHandler(s, name, value),
           KeyOf(m)' = MakeKey(s, name), Text(m)' = value
    PROVE  ValuesInv'
<1>1. PICK K : K = MakeKey(s, name)
    OBVIOUS
<1>2. PICK old : old = IF K \in DOMAIN _values THEN _values[K] ELSE <<>>
    OBVIOUS
<1>3. /\ DOMAIN _values' = DOMAIN _values \cup {K}
      /\ _values'[K] = Joined(old, value)
      /\ \A key \in DOMAIN _values \ {K} : _values'[key] = _values[key]
    BY <1>1, <1>2 DEF ValueHandler
<1>4. PICK n \in Nat : n = Len(lines) /\ m = n + 1
    BY DEF FileTypes
<1>5. m \notin SettingLines /\ SettingLines \subseteq 1..n /\ n < m
    BY <1>4
<1>6. DOMAIN _values' = {KeyOf(i)' : i \in SettingLines'}
    BY <1>1, <1>3 DEF ValuesInv
<1>7. ASSUME NEW key
      PROVE  /\ LinesOf(key) \subseteq SettingLines
             /\ LinesOf(key)' = IF key = K THEN LinesOf(key) \cup {m} ELSE LinesOf(key)
             /\ SaidOf(key) \subseteq LinesOf(key)
    BY <1>1 DEF LinesOf, SaidOf
<1>8. ASSUME NEW key \in DOMAIN _values', key # K
      PROVE  MadeOf(_values[key], SaidOf(key))'
    <2>1. LinesOf(key)' = LinesOf(key) /\ LinesOf(key) \subseteq SettingLines
        BY <1>7, <1>8
    <2>2. SaidOf(key)' = SaidOf(key) /\ SaidOf(key) \subseteq SettingLines
        BY <2>1 DEF SaidOf
    <2>3. key \in DOMAIN _values /\ _values'[key] = _values[key]
        BY <1>3, <1>8
    <2>4. MadeOf(_values[key], SaidOf(key))
        BY <2>3 DEF ValuesInv
    <2>5. QED
        BY <2>2, <2>3, <2>4 DEF MadeOf
<1>9. PICK T : T = SaidOf(K)
    OBVIOUS
<1>10. T \in SUBSET (1..n) /\ T \subseteq SettingLines
    BY <1>5, <1>7, <1>9
<1>11. old \in Seq(Words) /\ Len(old) = Cardinality(T) /\ \A i \in T : old[Rank(T, i)] = Text(i)
    <2>1. CASE K \in DOMAIN _values
        BY <1>2, <1>9, <2>1 DEF ValuesInv, MadeOf, FileTypes
    <2>2. CASE K \notin DOMAIN _values
        <3>1. LinesOf(K) = {}
            BY <2>2 DEF ValuesInv, LinesOf
        <3>2. T = {}
            BY <1>7, <1>9, <3>1
        <3>3. QED
            BY <1>2, <2>2, <3>2, FS_EmptySet
    <2>3. QED
        BY <2>1, <2>2
<1>12. SaidOf(K)' = IF T # {} \/ value # "" THEN T \cup {m} ELSE T
    <2>1. LinesOf(K)' = LinesOf(K) \cup {m} /\ LinesOf(K) \subseteq SettingLines
        BY <1>7
    <2>2. PICK L : L = LinesOf(K)
        OBVIOUS
    <2>3. L \in SUBSET (1..n) /\ \A j \in L : Text(j)' = Text(j)
        BY <1>5, <2>1, <2>2
    <2>4. PICK P : P = {j \in L : Text(j) # ""}
        OBVIOUS
    <2>5. PICK Q : Q = {j \in L \cup {m} : Text(j)' # ""}
        OBVIOUS
    <2>6. T = From(L, P)
        BY <1>9, <2>2, <2>4 DEF SaidOf, From
    <2>7. SaidOf(K)' = From(L \cup {m}, Q)
        BY <2>1, <2>2, <2>5 DEF SaidOf, From
    <2>8. Agree(L, P, Q) /\ (m \in Q <=> value # "")
        BY <2>3, <2>4, <2>5 DEF Agree
    <2>9. With(From(L \cup {m}, Q), From(L, P), m, From(L, P) # {} \/ m \in Q)
        <3>1. Behind(m, L)
            BY <1>5, <2>3 DEF Behind
        <3>2. QED
            BY <2>8, <3>1, FromAdded
    <2>10. QED
        BY <2>6, <2>7, <2>8, <2>9 DEF With
<1>13. /\ Cardinality(T) \in Nat
       /\ Cardinality(T \cup {m}) = Cardinality(T) + 1
       /\ Rank(T \cup {m}, m) = Cardinality(T) + 1
       /\ \A i \in T : /\ Rank(T \cup {m}, i) = Rank(T, i)
                       /\ Rank(T, i) \in 1..Cardinality(T)
    <2>1. Behind(m, T)
        BY <1>5, <1>10 DEF Behind
    <2>2. /\ Cardinality(T) \in Nat
          /\ Cardinality(T \cup {m}) = Cardinality(T) + 1
          /\ Rank(T \cup {m}, m) = Cardinality(T) + 1
        BY <2>1, RankAdded
    <2>3. ASSUME NEW i \in T
          PROVE  Rank(T \cup {m}, i) = Rank(T, i) /\ Rank(T, i) \in 1..Cardinality(T)
        BY <2>1, RankStays
    <2>4. QED
        BY <2>2, <2>3
<1>14. (old = <<>>) <=> (T = {})
    <2>1. T # {} => Cardinality(T) # 0
        BY <1>13
    <2>2. T = {} => Cardinality(T) = 0
        BY FS_EmptySet
    <2>3. QED
        BY <1>11, <2>1, <2>2
<1>15. \A i \in T : Text(i)' = Text(i)
    BY <1>10
<1>16. MadeOf(_values[K], SaidOf(K))'
    <2>1. CASE T # {}
        <3>1. _values'[K] = Append(old, value) /\ SaidOf(K)' = T \cup {m}
            BY <1>3, <1>12, <1>14, <2>1 DEF Joined
        <3>2. /\ Append(old, value) \in Seq(Words)
              /\ Len(Append(old, value)) = Cardinality(T) + 1
              /\ Append(old, value)[Cardinality(T) + 1] = value
              /\ \A k \in 1..Cardinality(T) : Append(old, value)[k] = old[k]
            BY <1>11, <1>13
        <3>3. QED
            BY <1>11, <1>13, <1>15, <3>1, <3>2 DEF MadeOf
    <2>2. CASE T = {} /\ value # ""
        <3>1. _values'[K] = <<value>> /\ SaidOf(K)' = T \cup {m}
            BY <1>3, <1>12, <1>14, <2>2 DEF Joined
        <3>2. Cardinality(T) = 0
            BY <2>2, FS_EmptySet
        <3>3. <<value>> \in Seq(Words) /\ Len(<<value>>) = 1 /\ <<value>>[1] = value
            OBVIOUS
        <3>4. SaidOf(K)' = {m} /\ T \cup {m} = {m}
            BY <2>2, <3>1
        <3>5. Cardinality({m}) = 0 + 1 /\ Rank({m}, m) = 0 + 1
            BY ONLY <1>13, <3>2, <3>4, Zenon
        <3>6. Cardinality({m}) = 1 /\ Rank({m}, m) = 1
            BY <3>5
        <3>7. QED
            BY <3>1, <3>3, <3>4, <3>6 DEF MadeOf
    <2>3. CASE T = {} /\ value = ""
        <3>1. _values'[K] = <<>> /\ SaidOf(K)' = {}
            BY <1>3, <1>12, <1>14, <2>3 DEF Joined
        <3>2. QED
            BY <3>1, FS_EmptySet DEF MadeOf
    <2>4. QED
        BY <2>1, <2>2, <2>3
<1>17. ASSUME NEW key \in DOMAIN _values' PROVE MadeOf(_values[key], SaidOf(key))'
    BY <1>8, <1>16
<1>18. QED
    BY <1>6, <1>17 DEF ValuesInv

\* A value is put together from texts.
LEMMA ValueType ==
    ASSUME FileTypes, NEW s, NEW name, NEW value \in Words, ValueHandler(s, name, value)
    PROVE  \A key \in DOMAIN _values' : _values'[key] \in Seq(Words)
<1>1. PICK K : K = MakeKey(s, name)
    OBVIOUS
<1>2. PICK old : old = IF K \in DOMAIN _values THEN _values[K] ELSE <<>>
    OBVIOUS
<1>3. /\ DOMAIN _values' = DOMAIN _values \cup {K}
      /\ _values'[K] = Joined(old, value)
      /\ \A key \in DOMAIN _values \ {K} : _values'[key] = _values[key]
    BY <1>1, <1>2 DEF ValueHandler
<1>4. old \in Seq(Words)
    BY <1>2 DEF FileTypes
<1>5. Joined(old, value) \in Seq(Words)
    <2>1. /\ Append(old, value) \in Seq(Words)
          /\ <<>> \in Seq(Words) /\ <<value>> \in Seq(Words)
        BY <1>4
    <2>2. QED
        BY <2>1 DEF Joined
<1>6. QED
    BY <1>3, <1>5 DEF FileTypes

\* While no header and no setting comes, the parser stays where it is.
LEMMA EndStays ==
    ASSUME lines \in Seq(Lines), NEW l \in Lines, lines' = Append(lines, l),
           Pairs' = Pairs, Headers' = Headers, Where,
           section' = section, prev_name' = prev_name
    PROVE  Where' /\ (Hung => Pairs # {} /\ lines'[Last(Pairs')] = lines[Last(Pairs)])
<1>1. /\ Len(lines) \in Nat /\ Pairs \in SUBSET (1..Len(lines))
      /\ Headers \in SUBSET (1..Len(lines))
      /\ \A i \in 1..Len(lines) : lines'[i] = lines[i]
    BY DEF Pairs, Headers, Above
<1>2. Headers # {} => Last(Headers) \in 1..Len(lines)
    BY <1>1, LastIs
<1>3. Pairs # {} => Last(Pairs) \in 1..Len(lines)
    BY <1>1, LastIs
<1>4. /\ SectionOf(Len(lines)) = IF Headers = {} THEN "" ELSE lines[Last(Headers)].name
      /\ SectionOf(Len(lines))' = IF Headers' = {} THEN "" ELSE lines'[Last(Headers')].name
    BY DEF SectionOf, Headers
<1>5. SectionOf(Len(lines))' = SectionOf(Len(lines))
    BY <1>1, <1>2, <1>4
<1>6. Hung' = Hung /\ (Hung => Pairs # {})
    BY DEF Hung
<1>7. Hung => lines'[Last(Pairs')] = lines[Last(Pairs)]
    BY <1>1, <1>3, <1>6
<1>8. QED
    BY <1>5, <1>6, <1>7 DEF Where

\* A header starts a section, and a setting has lines hang from it.
LEMMA EndMoves ==
    ASSUME lines \in Seq(Lines), NEW l \in Lines, lines' = Append(lines, l),
           NEW m \in Nat, m = Len(lines) + 1
    PROVE  /\ Headers' = Headers \cup {m} /\ Pairs' = Pairs =>
                  SectionOf(Len(lines))' = l.name /\ ~Hung'
           /\ Pairs' = Pairs \cup {m} /\ Headers' = Headers =>
                  /\ SectionOf(Len(lines))' = SectionOf(Len(lines))
                  /\ Hung' /\ Last(Pairs') = m
<1>1. /\ Pairs \in SUBSET (1..Len(lines)) /\ Headers \in SUBSET (1..Len(lines))
      /\ Len(lines) \in Nat /\ lines'[m] = l
      /\ \A i \in 1..Len(lines) : lines'[i] = lines[i]
    BY DEF Pairs, Headers, Above
<1>2. ASSUME NEW S \in SUBSET (1..Len(lines)) PROVE Last(S \cup {m}) = m
    <2>1. m \in 1..m /\ \A j \in S : j \in 1..m /\ j < m
        BY <1>1
    <2>2. PICK T : T = S \cup {m}
        OBVIOUS
    <2>3. T \in SUBSET (1..m) /\ T # {} /\ m \in T /\ \A j \in T : j = m \/ j < m
        BY <2>1, <2>2
    <2>4. Last(T) \in T /\ \A k \in T : Last(T) >= k
        BY <2>3, LastIs
    <2>5. Last(T) >= m /\ (Last(T) = m \/ Last(T) < m) /\ Last(T) \in 1..m
        BY <2>3, <2>4
    <2>6. Last(T) = m
        BY <2>5
    <2>7. QED
        BY <2>2, <2>6
<1>3. Headers # {} => Last(Headers) \in 1..Len(lines)
    BY <1>1, LastIs
<1>4. /\ SectionOf(Len(lines)) = IF Headers = {} THEN "" ELSE lines[Last(Headers)].name
      /\ SectionOf(Len(lines))' = IF Headers' = {} THEN "" ELSE lines'[Last(Headers')].name
    BY DEF SectionOf, Headers
<1>5. Hung' <=> \E j \in Pairs' : \A k \in Headers' : k < j
    BY DEF Hung
<1>6. ASSUME Headers' = Headers \cup {m}, Pairs' = Pairs
      PROVE  SectionOf(Len(lines))' = l.name /\ ~Hung'
    <2>1. Last(Headers') = m /\ Headers' # {}
        BY <1>1, <1>2, <1>6
    <2>2. m \in Headers' /\ \A j \in Pairs' : ~(m < j)
        BY <1>1, <1>6
    <2>3. QED
        BY <1>1, <1>4, <1>5, <2>1, <2>2
<1>7. ASSUME Pairs' = Pairs \cup {m}, Headers' = Headers
      PROVE  /\ SectionOf(Len(lines))' = SectionOf(Len(lines))
             /\ Hung' /\ Last(Pairs') = m
    <2>1. m \in Pairs' /\ \A k \in Headers' : k < m
        BY <1>1, <1>7
    <2>2. Last(Pairs') = m
        BY <1>1, <1>2, <1>7
    <2>3. SectionOf(Len(lines))' = SectionOf(Len(lines))
        BY <1>1, <1>3, <1>4, <1>7
    <2>4. QED
        BY <1>5, <2>1, <2>2, <2>3
<1>8. QED
    BY <1>6, <1>7

\* One more line, whatever it is, leaves the parser where the line ends and the
\* values as the lines say.
LEMMA LineStep ==
    ASSUME FileInv, NEW l \in Lines,
           SkipLine(l) \/ Continuation(l) \/ Header(l) \/ Pair(l) \/ BadLine(l)
    PROVE  FileInv'
<1>1. lines \in Seq(Lines) /\ lines' = Append(lines, l) /\ FileTypes
    BY DEF FileInv, FileTypes, SkipLine, Continuation, Header, Pair, BadLine, Read
<1>2. PICK m \in Nat : m = Len(lines) + 1
    BY <1>1
<1>3. /\ Len(lines)' = m /\ lines'[m] = l
      /\ SettingLines \subseteq 1..Len(lines)
      /\ Pairs' = IF l.kind = "pair" /\ ~l.indented THEN Pairs \cup {m} ELSE Pairs
      /\ Headers' = IF l.kind = "header" /\ ~l.indented THEN Headers \cup {m} ELSE Headers
      /\ Hanging' => Hanging /\ (l.indented /\ ~Skipped(l) => Hung)
      /\ SettingLines' = IF /\ ~Skipped(l) /\ (l.kind = "pair" \/ l.indented)
                            /\ Pairs' # {}
                         THEN SettingLines \cup {m} ELSE SettingLines
      /\ \A i \in SettingLines : KeyOf(i)' = KeyOf(i) /\ Text(i)' = Text(i)
    BY <1>1, <1>2, NewLine
<1>4. /\ l.text \in Words /\ l.value \in Words /\ l.text # ""
      /\ l.kind = "pair" => l.name # ""
    BY ConfigAssumption DEF Line
<1>5. FileTypes'
    <2>1. lines' \in Seq(Lines)
        BY <1>1
    <2>2. CASE _values' = _values
        BY <1>1, <2>1, <2>2 DEF FileTypes
    <2>3. CASE \E s, n : ValueHandler(s, n, l.text) \/ ValueHandler(s, n, l.value)
        BY <1>1, <1>4, <2>1, <2>3, ValueType DEF FileTypes
    <2>4. QED
        BY <2>2, <2>3 DEF SkipLine, Continuation, Header, Pair, BadLine
<1>6. ASSUME Hanging' PROVE Where' /\ ValuesInv'
    <2>1. Hanging /\ Where /\ ValuesInv /\ (l.indented /\ ~Skipped(l) => Hung)
        BY <1>3, <1>6 DEF FileInv
    <2>2. Hung <=> prev_name # ""
        BY <2>1 DEF Where
    <2>3. ~Continues(l) /\ ~Skipped(l) => ~l.indented
        BY <2>1, <2>2 DEF Continues
    <2>4. /\ KeyOf(m)' = <<Lower[SectionOf(Len(lines))'], Lower[lines'[Last(Pairs')].name]>>
          /\ Text(m)' = IF l.indented THEN l.text ELSE l.value
        BY <1>3 DEF KeyOf, Pairs, SectionOf, Text
    <2>5. CASE SkipLine(l) \/ BadLine(l)
        <3>1. /\ UNCHANGED <<section, prev_name, _values>>
              /\ Skipped(l) \/ ~l.indented
              /\ l.kind \in {"blank", "comment", "unclosed", "junk"}
            BY <2>3, <2>5 DEF SkipLine, BadLine, Skipped
        <3>2. Pairs' = Pairs /\ Headers' = Headers /\ SettingLines' = SettingLines
            BY <1>3, <3>1
        <3>3. QED
            BY <1>1, <1>3, <2>1, <3>1, <3>2, EndStays, ValuesKept
    <2>6. CASE Continuation(l)
        <3>1. /\ UNCHANGED <<section, prev_name>>
              /\ l.indented /\ ~Skipped(l) /\ prev_name # ""
              /\ ValueHandler(section, prev_name, l.text)
            BY <2>6 DEF Continuation, Continues
        <3>2. Pairs' = Pairs /\ Headers' = Headers
            BY <1>3, <3>1
        <3>3. Where' /\ Pairs # {} /\ lines'[Last(Pairs')] = lines[Last(Pairs)]
            BY <1>1, <2>1, <2>2, <3>1, <3>2, EndStays
        <3>4. SettingLines' = SettingLines \cup {m}
            BY <1>3, <3>1, <3>2, <3>3
        <3>5. PICK s, name : s = section /\ name = prev_name
            OBVIOUS
        <3>6. SectionOf(Len(lines))' = s /\ lines'[Last(Pairs')].name = name
            BY <2>1, <2>2, <3>1, <3>3, <3>5 DEF Where
        <3>7. KeyOf(m)' = MakeKey(s, name) /\ Text(m)' = l.text
            BY <2>4, <3>1, <3>6 DEF MakeKey
        <3>8. ValueHandler(s, name, l.text)
            BY <3>1, <3>5
        <3>9. ValuesInv'
            BY <1>1, <1>2, <1>3, <1>4, <2>1, <3>4, <3>7, <3>8, ValueAdded
        <3>10. QED
            BY <3>3, <3>9
    <2>7. CASE Header(l)
        <3>1. /\ l.kind = "header" /\ ~l.indented
              /\ section' = l.name /\ prev_name' = "" /\ _values' = _values
            BY <2>3, <2>7 DEF Header, Skipped
        <3>2. Pairs' = Pairs /\ Headers' = Headers \cup {m} /\ SettingLines' = SettingLines
            BY <1>3, <3>1
        <3>3. SectionOf(Len(lines))' = l.name /\ ~Hung'
            BY <1>1, <1>2, <3>2, EndMoves
        <3>4. Where'
            BY <3>1, <3>3 DEF Where
        <3>5. QED
            BY <1>3, <2>1, <3>1, <3>2, <3>4, ValuesKept
    <2>8. CASE Pair(l)
        <3>1. /\ l.kind = "pair" /\ ~l.indented /\ ~Skipped(l)
              /\ section' = section /\ prev_name' = l.name
              /\ ValueHandler(section, l.name, l.value)
            BY <2>3, <2>8 DEF Pair, Skipped
        <3>2. Pairs' = Pairs \cup {m} /\ Headers' = Headers
            BY <1>3, <3>1
        <3>3. SettingLines' = SettingLines \cup {m}
            BY <1>3, <3>1, <3>2
        <3>4. SectionOf(Len(lines))' = SectionOf(Len(lines)) /\ Hung' /\ Last(Pairs') = m
            BY <1>1, <1>2, <3>2, EndMoves
        <3>5. Where'
            BY <1>3, <1>4, <2>1, <3>1, <3>4 DEF Where
        <3>6. PICK s : s = section
            OBVIOUS
        <3>7. KeyOf(m)' = MakeKey(s, l.name) /\ Text(m)' = l.value
            BY <1>3, <2>1, <2>4, <3>1, <3>4, <3>6 DEF MakeKey, Where
        <3>8. ValueHandler(s, l.name, l.value)
            BY <3>1, <3>6
        <3>9. ValuesInv'
            BY <1>1, <1>2, <1>3, <1>4, <2>1, <3>3, <3>7, <3>8, ValueAdded
        <3>10. QED
            BY <3>5, <3>9
    <2>9. QED
        BY <2>5, <2>6, <2>7, <2>8
<1>7. QED
    BY <1>5, <1>6 DEF FileInv

\* A step that reads no line leaves what was read.
LEMMA FileSame ==
    ASSUME FileInv, UNCHANGED <<lines, section, prev_name, _values>>
    PROVE  FileInv'
<1>1. lines' = lines /\ section' = section /\ prev_name' = prev_name /\ _values' = _values
    OBVIOUS
<1>2. ASSUME NEW i
      PROVE  /\ Above(i, "pair")' = Above(i, "pair")
             /\ Above(i, "header")' = Above(i, "header")
             /\ Text(i)' = Text(i)
    BY <1>1 DEF Above, Text
<1>3. ASSUME NEW i
      PROVE  SectionOf(i)' = SectionOf(i) /\ KeyOf(i)' = KeyOf(i)
    BY <1>1, <1>2 DEF SectionOf, KeyOf
<1>4. SettingLines' = SettingLines /\ Hanging' = Hanging
    BY <1>1, <1>2 DEF SettingLines, Hanging
<1>5. ValuesInv => ValuesInv'
    BY <1>1, <1>2, <1>3, <1>4, ValuesKept
<1>6. PICK n : n = Len(lines)
    OBVIOUS
<1>7. Pairs' = Pairs /\ Headers' = Headers /\ Len(lines') = n
    BY <1>1, <1>2, <1>6 DEF Pairs, Headers
<1>8. Hung' = Hung
    BY <1>7 DEF Hung
<1>9. SectionOf(Len(lines))' = SectionOf(Len(lines))
    BY <1>1, <1>7 DEF SectionOf, Headers
<1>10. Where => Where'
    BY <1>1, <1>7, <1>8, <1>9 DEF Where
<1>11. QED
    BY <1>1, <1>4, <1>5, <1>10 DEF FileInv, FileTypes

LEMMA FileStep == FileInv /\ [Next]_vars => FileInv'
<1> SUFFICES ASSUME FileInv, [Next]_vars PROVE FileInv'
    OBVIOUS
<1>1. CASE ConfigNext
    <2>1. CASE OpenFails \/ Open \/ EndOfFile
        BY <2>1, FileSame DEF OpenFails, Open, EndOfFile
    <2>2. ASSUME NEW l \in Lines,
                 SkipLine(l) \/ Continuation(l) \/ Header(l) \/ Pair(l) \/ BadLine(l)
          PROVE  FileInv'
        BY <2>2, LineStep
    <2>3. QED
        BY <1>1, <2>1, <2>2 DEF ConfigNext
<1>2. CASE UNCHANGED configVars
    BY <1>2, FileSame DEF configVars
<1>3. ConfigNext \/ UNCHANGED configVars
    <2>1. CASE CreateLogger \/ LoggerThrows \/ ParseNumLights \/ ParseLight \/ OpenTty
        BY <2>1 DEF CreateLogger, LoggerThrows, ParseNumLights, ParseLight, OpenTty
    <2>2. CASE OpenUdp \/ CreateContext \/ PollFails \/ Exit
        BY <2>2 DEF OpenUdp, CreateContext, PollFails, Exit
    <2>3. CASE \E c \in Clients : ClientChange(c)
        BY <2>3 DEF ClientChange
    <2>4. CASE \/ DestroyContext \/ CloseUdp \/ ClearGlobal \/ CloseTty \/ ClearLogger
               \/ CloseLog
        BY <2>4
        DEF DestroyContext, CloseUdp, ClearGlobal, CloseTty, ClearLogger, CloseLog,
            Destroying
    <2>5. QED
        BY <2>1, <2>2, <2>3, <2>4 DEF Next, Start, Destroy, vars
<1>4. QED
    BY <1>1, <1>2, <1>3

LEMMA FileInit == Init => FileInv
<1> SUFFICES ASSUME Init PROVE FileInv
    OBVIOUS
<1>1. lines = <<>> /\ section = "" /\ prev_name = "" /\ _values = <<>>
    BY DEF Init, ConfigInit
<1>2. DOMAIN _values = {} /\ DOMAIN lines = {} /\ Len(lines) = 0 /\ lines \in Seq(Lines)
    <2>1. \A e : e = <<>> => DOMAIN e = {} /\ Len(e) = 0 /\ e \in Seq(Lines)
        OBVIOUS
    <2>2. QED
        BY <1>1, <2>1
<1>3. SettingLines = {} /\ Pairs = {} /\ Headers = {}
    <2>1. 1..0 = {}
        OBVIOUS
    <2>2. Pairs = {} /\ Headers = {}
        BY <1>2, <2>1 DEF Pairs, Headers, Above
    <2>3. SettingLines = {}
        BY <1>2 DEF SettingLines
    <2>4. QED
        BY <2>2, <2>3
<1>4. Where
    BY <1>1, <1>3 DEF Where, Hung, SectionOf, Headers
<1>5. ValuesInv
    BY <1>2, <1>3 DEF ValuesInv
<1>6. QED
    BY <1>2, <1>4, <1>5 DEF FileInv, FileTypes

\* Every file of any length means what it looks like: the values that inih keeps
\* are the texts of their lines, through headers that are not closed, comments,
\* continuations, repeated and empty settings.
THEOREM FilesAreReadAsWritten == Spec => []ReadAsWritten
<1>1. FileInv => ReadAsWritten
    BY ReadAsWrittenIs DEF FileInv
<1>2. QED
    BY <1>1, FileInit, FileStep, PTL DEF Spec

-----------------------------------------------------------------------------
(* From the file to the server                                             *)

\* What ParseLight makes of the section of light i.
LightFrom(i) ==
    [type    |-> TypeSetting(LightSection(i - 1))[1],
     address |-> Truncated(getUnsigned(LightSection(i - 1), "address", 0))]

\* What has been taken from the configuration in each phase.
StartInv ==
    /\ pc # "config" => parsing = "done"
    /\ pc \in {"light", "udp", "context", "run"} =>
          /\ numLights = getUnsigned("global", "lights", 0)
          /\ \A i \in DOMAIN lights :
                /\ ~parseLightTypeThrows(TypeSetting(LightSection(i - 1)))
                /\ lights[i] = LightFrom(i)
    /\ DOMAIN ports = {"udp", "ws"}
    /\ pc \in {"context", "run"} => ports.udp = Port("udpport", 9909)
    /\ pc \in Starting \ {"run"} => "context" \notin pointers
    /\ pc = "run" /\ "context" \in pointers => ports.ws = Port("wsport", 9910)

\* A file that is read does not change.
LEMMA ReadOnce == parsing = "done" => ~ConfigNext
BY DEF ConfigNext, OpenFails, Open, EndOfFile, SkipLine, Continuation, Header, Pair,
       BadLine, Read

\* What has been taken stays true while the configuration stays.
LEMMA StartSame ==
    ASSUME StartInv, UNCHANGED <<configVars, numLights, lights, ports>>,
           pc # "config" \/ parsing = "done",
           \/ pc' = pc /\ pointers' = pointers
           \/ pc = "light" /\ pc' = "udp" /\ pointers' = pointers
           \/ pc = "config" /\ pc' = "lights" /\ pointers' = pointers \cup {"logger"}
           \/ pc' \in {"terminated", "destroy", "exit"}
    PROVE  StartInv'
<1>1. /\ parsing' = parsing /\ _values' = _values
      /\ numLights' = numLights /\ lights' = lights /\ ports' = ports
    BY DEF configVars
<1>2. QED
    BY <1>1
    DEF StartInv, Starting, LightFrom, TypeSetting, getUnsigned, get, Port

LEMMA StartStep == StartInv /\ LightsInv /\ [Next]_vars => StartInv'
<1> SUFFICES ASSUME StartInv, LightsInv, [Next]_vars PROVE StartInv'
    OBVIOUS
<1>1. ASSUME UNCHANGED programVars, pc = "config" \/ UNCHANGED configVars PROVE StartInv'
    <2>1. CASE pc = "config"
        BY <1>1, <2>1 DEF StartInv, programVars, Starting
    <2>2. CASE pc # "config"
        BY <1>1, <2>2, StartSame DEF programVars
    <2>3. QED
        BY <2>1, <2>2
<1>2. CASE ConfigNext /\ UNCHANGED programVars
    BY <1>1, <1>2, ReadOnce DEF StartInv
<1>3. CASE CreateLogger \/ LoggerThrows \/ OpenTty \/ PollFails \/ Exit
    BY <1>3, StartSame DEF CreateLogger, LoggerThrows, OpenTty, PollFails, Exit, Throw
<1>4. CASE ParseNumLights
    <2>1. /\ pc = "lights" /\ UNCHANGED configVars /\ lights' = lights /\ ports' = ports
          /\ pointers' = pointers
          /\ \/ pc' = "terminated"
             \/ pc' = "light" /\ numLights' = getUnsigned("global", "lights", 0)
        BY <1>4 DEF ParseNumLights, Throw
    <2>2. parsing' = parsing /\ _values' = _values
        BY <2>1 DEF configVars
    <2>3. DOMAIN lights = {}
        <3>1. lights = <<>>
            BY <2>1 DEF LightsInv
        <3>2. \A e : e = <<>> => DOMAIN e = {}
            OBVIOUS
        <3>3. QED
            BY <3>1, <3>2
    <2>4. getUnsigned("global", "lights", 0)' = getUnsigned("global", "lights", 0)
        BY <2>2 DEF getUnsigned, get
    <2>5. QED
        BY <2>1, <2>2, <2>3, <2>4 DEF StartInv, Starting
<1>5. CASE ParseLight
    <2> DEFINE s == LightSection(Len(lights))
    <2>1. /\ pc = "light" /\ UNCHANGED <<configVars, numLights, ports, pointers>>
          /\ \/ pc' = "terminated" /\ lights' = lights
             \/ /\ pc' = "light" /\ ~parseLightTypeThrows(TypeSetting(s))
                /\ lights' = Append(lights,
                     [type    |-> TypeSetting(s)[1],
                      address |-> Truncated(getUnsigned(s, "address", 0))])
        BY <1>5 DEF ParseLight, Throw
    <2>2. CASE pc' = "terminated" /\ lights' = lights
        BY <2>1, <2>2, StartSame
    <2>3. CASE pc' # "terminated"
        <3>1. PICK n \in Nat : n = Len(lights) /\ DOMAIN lights = 1..n
            BY DEF LightsInv
        <3>2. s = LightSection((n + 1) - 1)
            BY <3>1
        <3>3. /\ lights' = Append(lights, LightFrom(n + 1))
              /\ ~parseLightTypeThrows(TypeSetting(LightSection((n + 1) - 1)))
            BY <2>1, <2>3, <3>2 DEF LightFrom
        <3> HIDE DEF s
        <3>4. /\ DOMAIN lights' = 1..(n + 1)
              /\ lights'[n + 1] = LightFrom(n + 1)
              /\ \A i \in 1..n : lights'[i] = lights[i]
            BY <3>1, <3>3 DEF LightsInv
        <3>5. /\ _values' = _values /\ parsing' = parsing /\ numLights' = numLights
              /\ ports' = ports /\ pointers' = pointers /\ pc = "light" /\ pc' = "light"
            BY <2>1, <2>3 DEF configVars
        <3>6. ASSUME NEW i
              PROVE  /\ LightFrom(i)' = LightFrom(i)
                     /\ TypeSetting(LightSection(i - 1))' = TypeSetting(LightSection(i - 1))
            BY <3>5 DEF LightFrom, TypeSetting, getUnsigned, get
        <3>7. ASSUME NEW i \in DOMAIN lights'
              PROVE  /\ ~parseLightTypeThrows(TypeSetting(LightSection(i - 1)))'
                     /\ lights'[i] = LightFrom(i)'
            <4>1. /\ ~parseLightTypeThrows(TypeSetting(LightSection(i - 1)))
                  /\ lights'[i] = LightFrom(i)
                <5>1. CASE i = n + 1
                    BY <3>3, <3>4, <5>1
                <5>2. CASE i \in 1..n
                    BY <3>1, <3>4, <3>5, <5>2 DEF StartInv
                <5>3. QED
                    BY <3>1, <3>4, <5>1, <5>2
            <4>2. QED
                BY <3>6, <4>1 DEF parseLightTypeThrows
        <3>8. getUnsigned("global", "lights", 0)' = getUnsigned("global", "lights", 0)
            BY <3>5 DEF getUnsigned, get
        <3>9. QED
            BY <3>5, <3>7, <3>8 DEF StartInv, Starting
    <2>4. QED
        BY <2>1, <2>2, <2>3
<1>6. ASSUME UNCHANGED <<configVars, numLights, lights>>, pc # "config", pc' # "config"
      PROVE  /\ parsing' = parsing
             /\ getUnsigned("global", "lights", 0)' = getUnsigned("global", "lights", 0)
             /\ Port("udpport", 9909)' = Port("udpport", 9909)
             /\ Port("wsport", 9910)' = Port("wsport", 9910)
             /\ \A i \in DOMAIN lights :
                   /\ LightFrom(i)' = LightFrom(i)
                   /\ TypeSetting(LightSection(i - 1))' = TypeSetting(LightSection(i - 1))
    <2>1. parsing' = parsing /\ _values' = _values
        BY <1>6 DEF configVars
    <2>2. QED
        BY <2>1 DEF LightFrom, TypeSetting, getUnsigned, get, Port
<1>7. CASE OpenUdp
    <2>1. /\ pc = "udp" /\ UNCHANGED <<configVars, numLights, lights>>
          /\ pointers' = pointers \cup {"serveri"}
          /\ \/ pc' = "terminated" /\ ports' = ports
             \/ pc' = "context" /\ ports' = [ports EXCEPT !.udp = Port("udpport", 9909)]
        BY <1>7 DEF OpenUdp, Throw
    <2>2. CASE pc' = "terminated"
        BY <2>1, <2>2, StartSame
    <2>3. CASE pc' = "context"
        <3>1. /\ ports'.udp = Port("udpport", 9909) /\ DOMAIN ports' = {"udp", "ws"}
              /\ "context" \notin pointers'
            BY <2>1, <2>3 DEF StartInv, Starting
        <3>2. QED
            BY <1>6, <2>1, <2>3, <3>1 DEF StartInv, Starting, parseLightTypeThrows
    <2>4. QED
        BY <2>1, <2>2, <2>3
<1>8. CASE CreateContext
    <2>1. /\ pc = "context" /\ UNCHANGED <<configVars, numLights, lights>>
          /\ \/ pc' = "terminated" /\ UNCHANGED <<ports, pointers>>
             \/ pc' = "run" /\ UNCHANGED <<ports, pointers>>
             \/ /\ pc' = "run" /\ pointers' = pointers \cup {"context"}
                /\ ports' = [ports EXCEPT !.ws = Port("wsport", 9910)]
        BY <1>8 DEF CreateContext, Throw
    <2>2. CASE pc' = "terminated"
        BY <2>1, <2>2, StartSame
    <2>3. CASE pc' = "run"
        <3>1. /\ ports'.udp = Port("udpport", 9909) /\ DOMAIN ports' = {"udp", "ws"}
              /\ "context" \in pointers' => ports'.ws = Port("wsport", 9910)
            BY <2>1, <2>3 DEF StartInv, Starting
        <3>2. QED
            BY <1>6, <2>1, <2>3, <3>1 DEF StartInv, Starting, parseLightTypeThrows
    <2>4. QED
        BY <2>1, <2>2, <2>3
<1>9. ASSUME NEW c \in Clients, ClientChange(c) PROVE StartInv'
    BY <1>9, StartSame DEF ClientChange
<1>10. CASE DestroyContext \/ CloseUdp \/ ClearGlobal \/ CloseTty \/ ClearLogger \/ CloseLog
    BY <1>10, StartSame
    DEF DestroyContext, CloseUdp, ClearGlobal, CloseTty, ClearLogger, CloseLog, Destroying
<1>11. CASE UNCHANGED vars
    BY <1>1, <1>11 DEF vars
<1>12. QED
    BY <1>2, <1>3, <1>4, <1>5, <1>7, <1>8, <1>9, <1>10, <1>11
    DEF Next, Start, Destroy

\* A setting that stands on no line is not there; one that stands on one line has
\* its text.
LEMMA SettingOnce ==
    ASSUME FileInv, Flush, Unambiguous, NEW s, NEW n
    PROVE  /\ Settings(s, n) = {} => MakeKey(s, n) \notin DOMAIN _values
           /\ \A i \in Settings(s, n) :
                 /\ Settings(s, n) = {i} /\ MakeKey(s, n) \in DOMAIN _values
                 /\ _values[MakeKey(s, n)] =
                        IF lines[i].value = "" THEN <<>> ELSE <<lines[i].value>>
<1>1. ValuesInv /\ FileTypes
    BY DEF FileInv, Flush, Hanging
<1>2. PICK key : key = MakeKey(s, n)
    OBVIOUS
<1>3. Settings(s, n) = LinesOf(key)
    BY <1>2 DEF Settings, LinesOf, MakeKey
<1>4. LinesOf(key) = {} => key \notin DOMAIN _values
    BY <1>1 DEF ValuesInv, LinesOf
<1>5. ASSUME NEW i \in LinesOf(key)
      PROVE  /\ LinesOf(key) = {i} /\ key \in DOMAIN _values
             /\ _values[key] = IF lines[i].value = "" THEN <<>> ELSE <<lines[i].value>>
    <2>1. i \in SettingLines /\ KeyOf(i) = key
        BY <1>5 DEF LinesOf
    <2>2. LinesOf(key) = {i}
        BY <1>5, <2>1 DEF LinesOf, Unambiguous
    <2>3. key \in DOMAIN _values
        BY <1>1, <2>1 DEF ValuesInv
    <2>4. i \in Int /\ Text(i) = lines[i].value
        <3>1. i \in DOMAIN lines /\ ~Skipped(lines[i])
            BY <2>1 DEF SettingLines
        <3>2. ~lines[i].indented
            BY <3>1 DEF Flush
        <3>3. QED
            BY <1>1, <3>1, <3>2 DEF Text, FileTypes
    <2>5. PICK v : v = _values[key]
        OBVIOUS
    <2>6. v \in Seq(Words) /\ MadeOf(v, SaidOf(key))
        BY <1>1, <2>3, <2>5 DEF FileTypes, ValuesInv
    <2>7. CASE lines[i].value = ""
        <3>1. SaidOf(key) = {}
            BY <2>2, <2>4, <2>7 DEF SaidOf
        <3>2. Len(v) = 0
            BY <2>6, <3>1, FS_EmptySet DEF MadeOf
        <3>3. v = <<>>
            BY <2>6, <3>2
        <3>4. QED
            BY <2>2, <2>3, <2>5, <2>7, <3>3
    <2>8. CASE lines[i].value # ""
        <3>1. i <= i
            BY <2>4
        <3>2. i \in SaidOf(key)
            BY ONLY <1>5, <2>4, <2>8, <3>1, Zenon DEF SaidOf
        <3>3. SaidOf(key) = {i}
            BY <2>2, <3>2, Zenon DEF SaidOf
        <3>4. {j \in {i} : j <= i} = {i}
            BY ONLY <3>1, Zenon
        <3>5. Cardinality({i}) = 1
            BY FS_Singleton
        <3>6. Rank({i}, i) = 1
            BY <3>4, <3>5, Zenon DEF Rank
        <3>7. Len(v) = 1 /\ v[1] = lines[i].value
            BY <2>4, <2>6, <3>3, <3>5, <3>6 DEF MadeOf
        <3>8. v = <<lines[i].value>>
            BY <2>6, <3>7
        <3>9. QED
            BY <2>2, <2>3, <2>5, <2>8, <3>8
    <2>9. QED
        BY <2>7, <2>8
<1>6. QED
    BY <1>2, <1>3, <1>4, <1>5

\* Where every setting stands once, Config::get returns what the file says.
LEMMA NumberAsSaid ==
    ASSUME FileInv, Flush, Unambiguous, NEW s, NEW n, NEW default
    PROVE  getUnsigned(s, n, default) = Said(s, n, default)
<1>1. PICK At : At = Settings(s, n)
    OBVIOUS
<1>2. PICK v : v = get(s, n, <<>>)
    OBVIOUS
<1>3. getUnsigned(s, n, default) = IF v = <<>> THEN default ELSE Number[v[1]]
    BY <1>2 DEF getUnsigned
<1>4. Said(s, n, default) = IF \A i \in At : lines[i].value = "" THEN default
                            ELSE Number[lines[CHOOSE i \in At : TRUE].value]
    BY <1>1 DEF Said
<1>5. CASE At = {}
    <2>1. v = <<>>
        BY <1>1, <1>2, <1>5, SettingOnce DEF get
    <2>2. QED
        BY <1>3, <1>4, <1>5, <2>1
<1>6. ASSUME NEW i \in At PROVE getUnsigned(s, n, default) = Said(s, n, default)
    <2>1. At = {i} /\ v = IF lines[i].value = "" THEN <<>> ELSE <<lines[i].value>>
        BY <1>1, <1>2, <1>6, SettingOnce DEF get
    <2>2. (CHOOSE j \in At : TRUE) = i
        BY <2>1
    <2>3. CASE lines[i].value = ""
        BY <1>3, <1>4, <2>1, <2>3
    <2>4. CASE lines[i].value # ""
        <3>1. v = <<lines[i].value>> /\ v # <<>> /\ v[1] = lines[i].value
            BY <2>1, <2>4
        <3>2. QED
            BY <1>3, <1>4, <1>6, <2>2, <2>4, <3>1
    <2>5. QED
        BY <2>3, <2>4
<1>7. QED
    BY <1>5, <1>6

\* The same of a light's type, unless it is one that stops the program.
LEMMA TypeAsSaid ==
    ASSUME FileInv, Flush, Unambiguous, NEW s, ~parseLightTypeThrows(TypeSetting(s))
    PROVE  TypeSetting(s)[1] = TypeSaid(s)
<1>1. PICK At : At = Settings(s, "type")
    OBVIOUS
<1>2. PICK T : T = {lines[j].value : j \in At}
    OBVIOUS
<1>3. TypeSaid(s) = IF T = {} THEN "rgb" ELSE CHOOSE t \in T : TRUE
    BY <1>1, <1>2 DEF TypeSaid
<1>4. CASE At = {}
    <2>1. TypeSetting(s) = <<"rgb">> /\ T = {}
        BY <1>1, <1>2, <1>4, SettingOnce DEF TypeSetting, get
    <2>2. QED
        BY <1>3, <2>1
<1>5. ASSUME NEW i \in At
      PROVE  TypeSetting(s)[1] = (CHOOSE t \in T : TRUE) /\ T # {}
    <2>1. /\ At = {i}
          /\ TypeSetting(s) = IF lines[i].value = "" THEN <<>> ELSE <<lines[i].value>>
        BY <1>1, <1>5, SettingOnce DEF TypeSetting, get
    <2>2. TypeSetting(s) # <<>>
        BY DEF parseLightTypeThrows
    <2>3. TypeSetting(s) = <<lines[i].value>>
        BY <2>1, <2>2
    <2>4. T = {lines[i].value}
        BY <1>2, <2>1
    <2>5. (CHOOSE t \in T : TRUE) = lines[i].value
        BY <2>4
    <2>6. QED
        BY <2>3, <2>4, <2>5
<1>6. QED
    BY <1>3, <1>4, <1>5

\* A server that runs on a file with every setting once has the lights and ports
\* that the file says, for files of any length and any number of lights.
THEOREM AlwaysStartsAsConfigured == Spec => []StartsAsConfigured
<1>1. Init => StartInv /\ LightsInv
    <2> SUFFICES ASSUME Init PROVE StartInv /\ LightsInv
        OBVIOUS
    <2>1. pc = "config" /\ pointers = {} /\ DOMAIN ports = {"udp", "ws"}
        BY DEF Init
    <2>2. QED
        BY <2>1 DEF Init, StartInv, LightsInv
<1>2. FileInv /\ StartInv /\ LightsInv => StartsAsConfigured
    <2> SUFFICES ASSUME FileInv, StartInv, LightsInv, pc = "run", Flush, Unambiguous
                 PROVE  /\ Len(lights) = Said("global", "lights", 0)
                        /\ \A i \in DOMAIN lights : LightAsSaid(i)
                        /\ ports.udp = Said("global", "udpport", 9909) % 65536
                        /\ "context" \in pointers =>
                               ports.ws = Said("global", "wsport", 9910) % 65536
        BY DEF StartsAsConfigured
    <2>1. Len(lights) = Said("global", "lights", 0)
        BY NumberAsSaid DEF StartInv, LightsInv
    <2>2. ports.udp = Said("global", "udpport", 9909) % 65536
        BY NumberAsSaid DEF StartInv, Port
    <2>3. "context" \in pointers => ports.ws = Said("global", "wsport", 9910) % 65536
        BY NumberAsSaid DEF StartInv, Port
    <2>4. ASSUME NEW i \in DOMAIN lights PROVE LightAsSaid(i)
        <3>1. PICK s : s = LightSection(i - 1)
            OBVIOUS
        <3>2. /\ lights[i].type = TypeSetting(s)[1]
              /\ lights[i].address = getUnsigned(s, "address", 0) % 256
              /\ ~parseLightTypeThrows(TypeSetting(s))
            BY <3>1 DEF StartInv, LightFrom, Truncated
        <3>3. getUnsigned(s, "address", 0) = Said(s, "address", 0)
            BY NumberAsSaid
        <3>4. TypeSetting(s)[1] = TypeSaid(s)
            BY <3>2, TypeAsSaid
        <3>5. QED
            BY <3>1, <3>2, <3>3, <3>4 DEF LightAsSaid
    <2>5. QED
        BY <2>1, <2>2, <2>3, <2>4
<1>3. QED
    BY <1>1, <1>2, FileInit, FileStep, LightsStep, StartStep, PTL DEF Spec

=============================================================================
