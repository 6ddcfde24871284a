---------------------------- MODULE SocketRunner ----------------------------
(***************************************************************************)
(* The socket runner (src/lnSocketRunner.cpp) as the echo server of        *)
(* demoProject/rp/w5500/app_echo_sr.cpp uses it: socket callbacks set      *)
(* events from another task; the application task takes them all, handles  *)
(* them in the order of process_events(), not in the order they came, and  *)
(* echoes what it reads.                                                   *)
(*                                                                         *)
(* This module is the application's half.  A server composes it with a     *)
(* socket: each call of the socket is a place app.at, and the operators    *)
(* ReadReturns, WriteReturns, ... say how the runner goes on.              *)
(***************************************************************************)
EXTENDS Integers, Sequences

CONSTANT WriteBuffer   \* RUNNER_WRITE_BUFFER_SIZE, in the model's bytes

ASSUME RunnerAssumption == WriteBuffer \in Nat

VARIABLES
  events,      \* flags set in _eventGroup
  connected,   \* _connected
  app          \* where the task is, what it is handling, bytes left to write

runnerVars == <<events, connected, app>>

\* The blocks of process_events(), in order; other flags are dropped.
Order == <<"Up", "Down", "Disconnected", "Connected", "DataAvailable">>

Waiting == [at |-> "wait", batch |-> {}, data |-> <<>>, direct |-> FALSE]

\* process_events() with these flags still to handle.
Process(batch) ==
  LET todo == {i \in 1 .. 5 : Order[i] \in batch}
  IN  IF todo = {} THEN Waiting
      ELSE LET first == CHOOSE i \in todo : \A j \in todo : i <= j
           IN  [Waiting EXCEPT !.at = Order[first], !.batch = batch]

Handled(e) == app' = Process(app.batch \ {e})
GoTo(place) == app' = [app EXCEPT !.at = place]

RunnerInit ==
  /\ events = {"Up"}
  /\ connected = FALSE
  /\ app = Waiting

\* socketEvent(), called by the socket in a task of its own.
Post(es) == events' = events \cup es
-----------------------------------------------------------------------------
\* waitEvents() returns, and clears, every flag that is set.
Wake ==
  /\ app.at = "wait" /\ events # {}
  /\ app' = Process(events)
  /\ events' = {}
  /\ UNCHANGED connected

HandleConnected ==
  /\ app.at = "Connected"
  /\ connected' = TRUE
  /\ Handled("Connected")
  /\ UNCHANGED events

\* Data of a client that is not, or no longer, connected is left unread.
HandleData ==
  /\ app.at = "DataAvailable"
  /\ IF connected THEN GoTo("read") ELSE Handled("DataAvailable")
  /\ UNCHANGED <<events, connected>>

\* read() returned d: none left, or the next bytes to echo.
ReadReturns(d) ==
  /\ IF d = <<>> THEN Handled("DataAvailable")
     ELSE app' = [app EXCEPT !.at = "write", !.data = d,
                             !.direct = Len(d) >= WriteBuffer]
  /\ UNCHANGED <<events, connected>>

(***************************************************************************)
(* write() accepted n bytes.  None: waitForWrite(), then again.  All:      *)
(* releaseData().                                                          *)
(***************************************************************************)
WriteReturns(n) ==
  /\ app' = IF n = 0 THEN [app EXCEPT !.at = "canWrite"]
            ELSE [app EXCEPT !.data = SubSeq(@, n + 1, Len(@)),
                             !.at = IF n = Len(app.data) THEN "release" ELSE "write"]
  /\ UNCHANGED <<events, connected>>

(***************************************************************************)
(* write() failed.  writeData() of a long run reports it and the loop      *)
(* ends; for a short one only flushWrite() knows, and the loop goes on.    *)
(***************************************************************************)
WriteFails ==
  /\ app' = [app EXCEPT !.at = IF app.direct THEN "quit" ELSE "release",
                        !.data = <<>>]
  /\ UNCHANGED <<events, connected>>

\* waitEvents(CanWrite, 10): the flag, or ten milliseconds.
WaitForWrite ==
  /\ app.at = "canWrite"
  /\ GoTo("write")
  /\ events' = events \ {"CanWrite"}
  /\ UNCHANGED connected

\* Mutation: one read for each event.
ReleasedOnce == Handled("DataAvailable") /\ UNCHANGED <<events, connected>>
\* freeReadData() returned; after an error the handler is left.
Released ==
  /\ IF app.at = "quit" THEN Handled("DataAvailable") ELSE GoTo("read")
  /\ UNCHANGED <<events, connected>>
=============================================================================
