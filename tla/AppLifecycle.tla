---------------------------- MODULE AppLifecycle ----------------------------
(***************************************************************************)
(* Start and stop of the Gigi process: main, App.Run, App.Shutdown and the *)
(* Discord gateway they open and close.  The deployment modelled has a     *)
(* database and a Discord token, and syncs its slash commands.             *)
(*                                                                         *)
(* One process takes the steps of main.  Around it run the operating       *)
(* system (a signal, the five seconds of a shutdown context), the HTTP     *)
(* server, which may fail, and the goroutine in which Gateway.Close calls  *)
(* session.Close and which main may stop waiting for.                      *)
(***************************************************************************)

VARIABLES
  main,       \* where the main goroutine is
  signalled,  \* the context of signal.NotifyContext is done
  expired,    \* the five seconds of the shutdown context are over
  started,    \* Gateway.started
  session,    \* the websocket session of discordgo
  closer,     \* the goroutine of Gateway.Close: idle, running, or its answer
  db,         \* the database handle
  server,     \* the HTTP server
  jobs        \* the worker pool

lifeVars == <<main, signalled, expired, started, session, closer, db, server, jobs>>

\* Steps of Run, of Shutdown (down_*), and of Run after the server failed
\* (fail_*).  start_close is the Close that Start itself calls.
MainSteps ==
  {"jobs", "open", "sync", "start_close", "start_wait", "start_failed", "serve", "serving",
   "down_jobs", "down_discord", "down_wait", "down_db", "down_server",
   "fail_discord", "fail_wait", "fail_db", "exit0", "exit1"}

LifeTypeOK ==
  /\ main \in MainSteps
  /\ signalled \in BOOLEAN
  /\ expired \in BOOLEAN
  /\ started \in BOOLEAN
  /\ session \in {"closed", "open"}
  /\ closer \in {"idle", "running", "ok", "err"}
  /\ db \in {"open", "closed"}
  /\ server \in {"down", "up", "failed"}
  /\ jobs \in {"idle", "running", "stopped"}

LifeInit ==
  /\ main = "jobs"
  /\ signalled = FALSE
  /\ expired = FALSE
  /\ started = FALSE
  /\ session = "closed"
  /\ closer = "idle"
  /\ db = "open"
  /\ server = "down"
  /\ jobs = "idle"

Exited == main \in {"exit0", "exit1"}

-----------------------------------------------------------------------------
(* The world around main.                                                  *)

Signal ==
  /\ ~Exited
  /\ ~signalled
  /\ signalled' = TRUE
  /\ UNCHANGED <<main, expired, started, session, closer, db, server, jobs>>

\* context.WithTimeout(context.Background(), 5*time.Second): it is created
\* before the workers are stopped, so waiting for them uses it up as well.
Deadline ==
  /\ main \in {"down_jobs", "down_discord", "down_wait", "down_db", "down_server",
               "fail_discord", "fail_wait", "fail_db"}
  /\ ~expired
  /\ expired' = TRUE
  /\ UNCHANGED <<main, signalled, started, session, closer, db, server, jobs>>

ServerFails ==
  /\ ~Exited
  /\ server = "up"
  /\ server' = "failed"
  /\ UNCHANGED <<main, signalled, expired, started, session, closer, db, jobs>>

\* session.Close in its goroutine: the session is gone, with or without error.
SessionCloses ==
  /\ ~Exited
  /\ closer = "running"
  /\ session' = "closed"
  /\ closer' \in {"ok", "err"}
  /\ UNCHANGED <<main, signalled, expired, started, db, server, jobs>>

-----------------------------------------------------------------------------
(* App.Run and Gateway.Start.                                              *)

StartJobs ==
  /\ main = "jobs"
  /\ jobs' = "running"
  /\ main' = "open"
  /\ UNCHANGED <<signalled, expired, started, session, closer, db, server>>

\* A done context refuses before Open; Open itself may fail.
OpenGateway ==
  /\ main = "open"
  /\ \/ /\ ~signalled
        /\ session' = "open"
        /\ started' = TRUE
        /\ main' = "sync"
     \/ /\ main' = "start_failed"
        /\ UNCHANGED <<session, started>>
  /\ UNCHANGED <<signalled, expired, closer, db, server, jobs>>

SyncCommands ==
  /\ main = "sync"
  /\ main' \in IF signalled THEN {"start_close"} ELSE {"serve", "start_close"}
  /\ UNCHANGED <<signalled, expired, started, session, closer, db, server, jobs>>

StartFailed ==
  /\ main = "start_failed"
  /\ jobs' = "stopped"
  /\ main' = "exit1"
  /\ UNCHANGED <<signalled, expired, started, session, closer, db, server>>

Serve ==
  /\ main = "serve"
  /\ server' = "up"
  /\ main' = "serving"
  /\ UNCHANGED <<signalled, expired, started, session, closer, db, jobs>>

\* The select at the end of Run; with both channels ready it picks either.
RunReturns ==
  /\ main = "serving"
  /\ \/ signalled /\ main' = "down_jobs"
     \/ server = "failed" /\ main' = "fail_discord"
  /\ UNCHANGED <<signalled, expired, started, session, closer, db, server, jobs>>

-----------------------------------------------------------------------------
(* Gateway.Close, which Start calls after a failed sync, Shutdown after the *)
(* workers stopped, and Run after the server failed.                        *)

CloseSteps == {"start_close", "down_discord", "fail_discord"}
CloseWait == [start_close |-> "start_wait", down_discord |-> "down_wait", fail_discord |-> "fail_wait"]
AfterClose == [start_close |-> "start_failed", down_discord |-> "down_db", fail_discord |-> "fail_db",
               start_wait |-> "start_failed", down_wait |-> "down_db", fail_wait |-> "fail_db"]
\* Mutant: Shutdown goes on after a Close that failed.
AfterCloseError_Bug == [start_wait |-> "start_failed", down_wait |-> "down_db", fail_wait |-> "fail_db"]

\* Only Shutdown returns the error; the other two go on.
AfterCloseError == [start_wait |-> "start_failed", down_wait |-> "exit1", fail_wait |-> "fail_db"]

\* closeDiscord stops the workers first (Start's own Close does not).
BeginClose ==
  /\ main \in CloseSteps
  /\ jobs' = IF main = "start_close" THEN jobs ELSE "stopped"
  /\ IF started
     THEN closer' = "running" /\ main' = CloseWait[main]
     ELSE main' = AfterClose[main] /\ UNCHANGED closer
  /\ UNCHANGED <<signalled, expired, started, session, db, server>>

\* The answer of session.Close.
CloseAnswered ==
  /\ main \in DOMAIN AfterCloseError
  /\ closer \in {"ok", "err"}
  /\ IF closer = "ok"
     THEN started' = FALSE /\ main' = AfterClose[main]
     ELSE main' = AfterCloseError[main] /\ UNCHANGED started
  /\ UNCHANGED <<signalled, expired, session, closer, db, server, jobs>>

\* Mutant: Shutdown and Run close the gateway under a context without end.
ContextDone_Bug == main = "start_wait" /\ signalled

\* Start closes under the context of the signal, the others under one of five
\* seconds.
ContextDone == IF main = "start_wait" THEN signalled ELSE expired

\* The context is done first: Close returns its error, the goroutine goes on.
CloseGivesUp ==
  /\ main \in DOMAIN AfterCloseError
  /\ ContextDone
  /\ main' = AfterCloseError[main]
  /\ UNCHANGED <<signalled, expired, started, session, closer, db, server, jobs>>

-----------------------------------------------------------------------------
(* The rest of App.Shutdown, and of Run after the server failed.           *)

StopJobs ==
  /\ main = "down_jobs"
  /\ jobs' = "stopped"
  /\ main' = "down_discord"
  /\ UNCHANGED <<signalled, expired, started, session, closer, db, server>>

\* sql.DB.Close may return an error; Shutdown returns it, Run only logs it.
CloseDatabase ==
  /\ main \in {"down_db", "fail_db"}
  /\ db' = "closed"
  /\ main' \in IF main = "down_db" THEN {"down_server", "exit1"} ELSE {"exit1"}
  /\ UNCHANGED <<signalled, expired, started, session, closer, server, jobs>>

\* http.Server.Shutdown waits for open requests as long as its context does.
StopServer ==
  /\ main = "down_server"
  /\ server' = "down"
  /\ main' \in IF expired THEN {"exit0", "exit1"} ELSE {"exit0"}
  /\ UNCHANGED <<signalled, expired, started, session, closer, db, jobs>>

MainStep ==
  \/ StartJobs \/ OpenGateway \/ SyncCommands \/ StartFailed \/ Serve \/ RunReturns
  \/ BeginClose \/ CloseAnswered \/ CloseGivesUp
  \/ StopJobs \/ CloseDatabase \/ StopServer

LifeNext == MainStep \/ Signal \/ Deadline \/ ServerFails \/ SessionCloses

LifeSpec == LifeInit /\ [][LifeNext]_lifeVars

\* Main runs whenever it can, and a shutdown context ends: nothing else is
\* assumed, so session.Close may hang for ever.
LifeFairness == WF_lifeVars(MainStep) /\ WF_lifeVars(Deadline)

-----------------------------------------------------------------------------
(* Properties                                                               *)

\* The database is closed only when the worker pool has stopped and, unless
\* the server failed (Run then only logs that the gateway did not close), the
\* gateway no longer delivers events; handlers of events delivered before are
\* not waited for, and use the database until it is closed under them.  And a
\* process that exits with success has released everything: a Close that gave
\* up must end Shutdown before closeDatabase, and with an error.
ShutdownReleases ==
  /\ db = "closed" => /\ jobs = "stopped"
                      /\ session = "closed" \/ server = "failed"
  /\ main = "exit0" => /\ db = "closed" /\ server = "down"
                       /\ session = "closed" /\ ~started

\* A signal always ends the process, whatever session.Close does: Close waits
\* no longer than its context.
SignalEndsProcess == signalled ~> Exited
=============================================================================
