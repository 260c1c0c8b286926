------------------------- MODULE AppLifecycleProofs -------------------------
(***************************************************************************)
(* Proof that a Gigi process releases its resources in the right order.    *)
(*                                                                         *)
(* The invariant LifeInv says what is released at each place main can be   *)
(* at.  Two facts carry it: the session is never opened a second time, so  *)
(* a goroutine of Gateway.Close that has answered has left it closed; and  *)
(* Gateway.started tells at least as much as the session does.             *)
(***************************************************************************)
EXTENDS AppLifecycle, TLAPS

\* Where App.Shutdown has waited for the workers, and where it has closed the
\* gateway as well.
WorkersDone == {"down_discord", "down_wait", "down_db", "down_server", "exit0",
                "fail_wait", "fail_db"}

GatewayDone == {"down_db", "down_server", "exit0"}

LifeInv ==
  /\ main \in {"jobs", "open"} => ~started
  /\ session = "open" => started
  /\ main = "open" => closer = "idle"
  /\ main = "jobs" => closer = "idle"
  /\ closer \in {"ok", "err"} => session = "closed"
  /\ main \in WorkersDone => jobs = "stopped"
  /\ main \in GatewayDone => session = "closed" /\ ~started
  /\ main \in {"fail_discord", "fail_wait", "fail_db"} => server = "failed"
  /\ main = "exit0" => server = "down"
  /\ db = "closed" => /\ main \in {"down_server", "exit0", "exit1"}
                      /\ jobs = "stopped"
                      /\ session = "closed" \/ server = "failed"
  /\ main \in {"down_server", "exit0"} => db = "closed"

-----------------------------------------------------------------------------
\* The state a process starts in.
LEMMA LifeStarts == LifeInit => LifeTypeOK /\ LifeInv
BY DEF LifeInit, LifeTypeOK, LifeInv, MainSteps, WorkersDone, GatewayDone

\* What happens around main: a signal, the deadline, the server, session.Close.
LEMMA WorldKeeps ==
  ASSUME LifeTypeOK, LifeInv, Signal \/ Deadline \/ ServerFails \/ SessionCloses
  PROVE  LifeTypeOK' /\ LifeInv'
<1>1. CASE Signal
  BY <1>1 DEF LifeTypeOK, LifeInv, Signal
<1>2. CASE Deadline
  BY <1>2 DEF LifeTypeOK, LifeInv, Deadline
<1>3. CASE ServerFails
  BY <1>3 DEF LifeTypeOK, LifeInv, ServerFails, Exited
<1>4. CASE SessionCloses
  BY <1>4 DEF LifeTypeOK, LifeInv, SessionCloses
<1> QED
  BY <1>1, <1>2, <1>3, <1>4

\* App.Run up to the point where it serves, or returns because the start failed.
LEMMA RunKeeps ==
  ASSUME LifeTypeOK, LifeInv,
         StartJobs \/ OpenGateway \/ SyncCommands \/ StartFailed \/ Serve \/ RunReturns
  PROVE  LifeTypeOK' /\ LifeInv'
<1> USE DEF LifeTypeOK, LifeInv, MainSteps, WorkersDone, GatewayDone
<1>1. CASE StartJobs
  BY <1>1 DEF StartJobs
<1>2. CASE OpenGateway
  BY <1>2 DEF OpenGateway
<1>3. CASE SyncCommands
  BY <1>3 DEF SyncCommands
<1>4. CASE StartFailed
  BY <1>4 DEF StartFailed
<1>5. CASE Serve
  BY <1>5 DEF Serve
<1>6. CASE RunReturns
  BY <1>6 DEF RunReturns
<1> QED
  BY <1>1, <1>2, <1>3, <1>4, <1>5, <1>6

\* Gateway.Close: wherever it was called from, only a close that succeeded, or
\* one that had nothing to close, lets Shutdown go on to the database.
LEMMA CloseKeeps ==
  ASSUME LifeTypeOK, LifeInv, BeginClose \/ CloseAnswered \/ CloseGivesUp
  PROVE  LifeTypeOK' /\ LifeInv'
<1> USE DEF LifeTypeOK, LifeInv, MainSteps, WorkersDone, GatewayDone
<1>1. CASE BeginClose
  <2>1. \/ main = "start_close" /\ main' \in {"start_wait", "start_failed"} /\ jobs' = jobs
        \/ main = "down_discord" /\ main' = "down_wait" /\ jobs' = "stopped"
        \/ main = "down_discord" /\ main' = "down_db" /\ jobs' = "stopped" /\ ~started
        \/ main = "fail_discord" /\ main' \in {"fail_wait", "fail_db"} /\ jobs' = "stopped"
    BY <1>1 DEF BeginClose, CloseSteps, CloseWait, AfterClose
  <2>2. /\ UNCHANGED <<signalled, expired, started, session, db, server>>
        /\ closer' \in {closer, "running"}
    BY <1>1 DEF BeginClose
  <2> QED
    BY <2>1, <2>2
<1>2. CASE CloseAnswered
  <2>1. /\ main \in {"start_wait", "down_wait", "fail_wait"} /\ closer \in {"ok", "err"}
        /\ closer = "ok" => started' = FALSE /\ main' = AfterClose[main]
        /\ closer = "err" => started' = started /\ main' = AfterCloseError[main]
        /\ UNCHANGED <<signalled, expired, session, closer, db, server, jobs>>
    BY <1>2 DEF CloseAnswered, AfterCloseError
  <2>2. \/ main = "start_wait" /\ main' = "start_failed"
        \/ main = "down_wait" /\ (main' = "exit1" \/ (main' = "down_db" /\ ~started'))
        \/ main = "fail_wait" /\ main' = "fail_db"
    BY <2>1 DEF AfterClose, AfterCloseError
  <2>3. session = "closed" /\ started' \in BOOLEAN
    BY <2>1
  <2> QED
    BY <2>1, <2>2, <2>3
<1>3. CASE CloseGivesUp
  <2>1. \/ main = "start_wait" /\ main' = "start_failed"
        \/ main = "down_wait" /\ main' = "exit1"
        \/ main = "fail_wait" /\ main' = "fail_db"
    BY <1>3 DEF CloseGivesUp, AfterCloseError
  <2>2. UNCHANGED <<signalled, expired, started, session, closer, db, server, jobs>>
    BY <1>3 DEF CloseGivesUp
  <2> QED
    BY <2>1, <2>2
<1> QED
  BY <1>1, <1>2, <1>3

\* The rest of App.Shutdown, and of Run after the server failed.
LEMMA ShutdownKeeps ==
  ASSUME LifeTypeOK, LifeInv, StopJobs \/ CloseDatabase \/ StopServer
  PROVE  LifeTypeOK' /\ LifeInv'
<1> USE DEF LifeTypeOK, LifeInv, MainSteps, WorkersDone, GatewayDone
<1>1. CASE StopJobs
  BY <1>1 DEF StopJobs
<1>2. CASE CloseDatabase
  BY <1>2 DEF CloseDatabase
<1>3. CASE StopServer
  BY <1>3 DEF StopServer
<1> QED
  BY <1>1, <1>2, <1>3

LEMMA LifeKeeps == LifeTypeOK /\ LifeInv /\ [LifeNext]_lifeVars => LifeTypeOK' /\ LifeInv'
<1> SUFFICES ASSUME LifeTypeOK, LifeInv, [LifeNext]_lifeVars
             PROVE  LifeTypeOK' /\ LifeInv'
  OBVIOUS
<1>1. CASE UNCHANGED lifeVars
  BY <1>1 DEF lifeVars, LifeTypeOK, LifeInv
<1> QED
  BY <1>1, WorldKeeps, RunKeeps, CloseKeeps, ShutdownKeeps DEF LifeNext, MainStep

\* However a signal, the deadline of the shutdown context, a failing server and
\* a hanging session.Close fall together, the database is closed only after the
\* worker pool has stopped and the gateway is closed (but for a failed server,
\* after which Run closes it although the gateway may not be), and main exits
\* with success only when pool, gateway, database and server were released.
THEOREM ReleaseOrder == LifeSpec => []ShutdownReleases
<1>1. LifeInv => ShutdownReleases
  BY DEF LifeInv, ShutdownReleases, WorkersDone, GatewayDone
<1> QED
  BY <1>1, LifeStarts, LifeKeeps, PTL DEF LifeSpec
=============================================================================
