------------------------------- MODULE Logger -------------------------------
(***************************************************************************)
(* src/common/log.{h,cc}: the global Logger, which the first log statement   *)
(* makes, and the statements DEBUGLOG, INFOLOG and ERRORLOG of any thread,   *)
(* on top of AsyncLogger.  Every block under m_mutex is one action.          *)
(***************************************************************************)
EXTENDS AsyncLogger

CONSTANTS
    Thread,
    Level,               \* the level of each line, 1 (Debug) to 3 (Error)
    m_set_level,         \* 0 (Unknown) to 3, from the configuration
    m_enable_sync_log    \* lines go to the standard output too

VARIABLES
    loggers,     \* Logger objects made; g_logger is null while it is 0
    g_mutex,     \* who holds it, or "free"
    pc,          \* where each thread is in a log statement
    msg,         \* the line of the statement
    m_buffer,    \* lines pushed and not printed
    stdout

loggerVars == <<loggers, g_mutex, pc, msg, m_buffer, stdout>>
allVars == <<vars, loggerVars>>

LoggerInit ==
    /\ Init
    /\ loggers = 0
    /\ g_mutex = "free"
    /\ pc = [t \in Thread |-> "idle"]
    /\ msg = [t \in Thread |-> "none"]
    /\ m_buffer = <<>> /\ stdout = <<>>

Goes(t, from, to) == pc[t] = from /\ pc' = [pc EXCEPT ![t] = to]

(* A statement begins; each line is one thread's.                            *)
Statement(t, l) ==
    /\ l \notin ToSet(appended) /\ \A u \in Thread : pc[u] = "idle" \/ msg[u] # l
    /\ Goes(t, "idle", "get")
    /\ msg' = [msg EXCEPT ![t] = l]
    /\ UNCHANGED <<loggers, g_mutex, m_buffer, stdout, vars>>

(* GetGloballLogger, the test outside the mutex, cc:102.                     *)
TestLogger(t) ==
    /\ Goes(t, "get", IF loggers = 0 THEN "lock" ELSE "level")
    /\ UNCHANGED <<loggers, g_mutex, msg, m_buffer, stdout, vars>>

(* Mutant: the test is not made again under the mutex.                       *)
MustInit_Once == TRUE

(* cc:105                                                                    *)
MustInit == loggers = 0

(* cc:104-107 and Init to cc:95: the logger is there for everybody before it *)
(* is started.                                                               *)
LockAndMake(t) ==
    /\ g_mutex = "free"
    /\ Goes(t, "lock", IF MustInit THEN "start" ELSE "level")
    /\ IF MustInit THEN g_mutex' = t /\ loggers' = loggers + 1
                   ELSE UNCHANGED <<g_mutex, loggers>>
    /\ UNCHANGED <<msg, m_buffer, stdout, vars>>

(* Init, cc:97: AsyncLogger::start.                                          *)
StartLogger(t) ==
    /\ pc[t] = "start"
    /\ StartSpawn \/ StartWait
    /\ UNCHANGED loggerVars

(* Mutant: the mutex is not released.                                        *)
Released_Not == g_mutex
Released == "free"

(* start has returned, and so does GetGloballLogger, cc:108-110.             *)
Made(t) ==
    /\ starter = "returned"
    /\ Goes(t, "start", "level")
    /\ g_mutex' = Released
    /\ UNCHANGED <<loggers, msg, m_buffer, stdout, vars>>

(* log.h:30, 37, 43 and log.cc:113-116: a line is logged unless the level    *)
(* set is below its own.                                                     *)
TestLevel(t) ==
    /\ Goes(t, "level", IF m_set_level >= Level[msg[t]] THEN "push" ELSE "idle")
    /\ UNCHANGED <<loggers, g_mutex, msg, m_buffer, stdout, vars>>

(* pushlog, cc:118-123.                                                      *)
pushlog(t) ==
    /\ Goes(t, "push", IF m_enable_sync_log THEN "log" ELSE "idle")
    /\ m_buffer' = IF m_enable_sync_log THEN Append(m_buffer, msg[t]) ELSE m_buffer
    /\ AppendToCurrent(msg[t]) \/ AppendToNext(msg[t])
    /\ UNCHANGED <<loggers, g_mutex, msg, stdout>>

(* Mutant: a statement prints one line, whosever it is.                      *)
Printed_One == <<Head(m_buffer)>>
Printed == m_buffer

(* log, cc:130-138; another thread may have printed the line already.        *)
log(t) ==
    /\ Goes(t, "log", "idle")
    /\ IF m_buffer = <<>> THEN UNCHANGED <<stdout, m_buffer>>
         ELSE /\ stdout' = stdout \o Printed
              /\ m_buffer' = SubSeq(m_buffer, Len(Printed) + 1, Len(m_buffer))
    /\ UNCHANGED <<loggers, g_mutex, msg, vars>>

GoesOn(t) ==
    \/ TestLogger(t) \/ LockAndMake(t) \/ StartLogger(t) \/ Made(t)
    \/ TestLevel(t) \/ pushlog(t) \/ log(t)

(* The wakeup of start is part of GoesOn's wait; the end of the process      *)
(* destroys the logger, which stops.                                         *)
Others == LoopStep \/ StartSpuriousWakeup \/ StopSet \/ StopJoin

LoggerNext ==
    \/ \E t \in Thread, l \in Line : Statement(t, l)
    \/ \E t \in Thread : GoesOn(t)
    \/ Others /\ UNCHANGED loggerVars

LoggerSpec == LoggerInit /\ [][LoggerNext]_allVars

(* Threads run on, and the timed wait of the loop ends.                      *)
FairLoggerSpec ==
    /\ LoggerSpec
    /\ WF_allVars(LoopStep /\ UNCHANGED loggerVars)
    /\ WF_allVars(StopJoin /\ UNCHANGED loggerVars)
    /\ \A t \in Thread : WF_allVars(GoesOn(t))

-----------------------------------------------------------------------------
(* Properties                                                                *)

(* The logger is made once, whoever comes first (log.cc:100-111): a second   *)
(* one would destroy the first while other threads are using it.             *)
OneLogger == loggers <= 1

(* With synchronous logging the output shows the lines in the order of the   *)
(* file, and when a log statement ends (log.h:33) its line is there, printed *)
(* by whichever thread came first (log.cc:118-138).                          *)
PrintedInOrder ==
    m_enable_sync_log =>
        /\ stdout \o m_buffer = appended
        /\ \A l \in ToSet(m_buffer) : \E t \in Thread : pc[t] = "log" /\ msg[t] = l

(* A log statement ends, unless the logger's start waits for a notification  *)
(* that has come already (asynclog.cc:56, 127): then the thread that makes   *)
(* the logger, and those that came to the mutex with it, wait for ever.      *)
StatementsEnd ==
    \A t \in Thread :
        pc[t] # "idle" ~> (pc[t] = "idle" \/ (starter = "wait" /\ pc[t] \in {"start", "lock"}))
=============================================================================
