------------------------------- MODULE DexLogin -------------------------------
(***************************************************************************)
(* scripts/dex-login.go: a program that opens a browser, serves the        *)
(* callback of the login on a local port, and exchanges the code it gets   *)
(* for a token.                                                            *)
(*                                                                         *)
(* Concurrent: main, the goroutine that listens, one handler per callback, *)
(* one goroutine per accepted code that shuts the server down, a timer.    *)
(* They meet in two channels of capacity one, on which main selects once.  *)
(* Nothing happens any more once the program has exited.                   *)
(***************************************************************************)
EXTENDS Naturals, Sequences

CONSTANTS
  Callbacks, \* requests for /callback that may arrive
  KindOf,    \* "good", "forged" (another state) or "empty" (no code)
  NoCallback \* none of them

ASSUME CallbackAssumption ==
  /\ KindOf \in [Callbacks -> {"good", "forged", "empty"}]
  /\ NoCallback \notin Callbacks

VARIABLES
  main,     \* "waiting" in its select, "exchanging" or "exited"
  exit,     \* the exit status
  code,     \* the callback whose code main has taken
  stdout,   \* the callback for whose code a token was printed
  codeCh,   \* channel of codes, as the callbacks they came with
  errCh,    \* channel of errors, as their origins
  handler,  \* per callback: to come, about to send, or answered
  listener, \* the server of the callback
  closing,  \* callbacks whose goroutine is about to shut the server down
  timer,    \* the five minutes: "running" or "fired"
  refused   \* Dex has refused the code or could not be reached

loginVars == <<main, exit, code, stdout, codeCh, errCh, handler, listener, closing,
               timer, refused>>

Capacity == 1

LoginInit ==
  /\ main = "waiting" /\ exit = "none"
  /\ code = NoCallback /\ stdout = NoCallback
  /\ codeCh = <<>> /\ errCh = <<>>
  /\ handler = [c \in Callbacks |-> "none"]
  /\ listener = "starting" /\ closing = {}
  /\ timer = "running" /\ refused = FALSE

Running == main # "exited"

MainFrame == UNCHANGED <<main, exit, code, stdout, refused>>

-----------------------------------------------------------------------------
(* The server of the callback.                                             *)

Listen ==
  /\ Running /\ listener = "starting"
  /\ listener' = "serving"
  /\ UNCHANGED <<codeCh, errCh, handler, closing, timer>> /\ MainFrame

\* The port is taken: the goroutine has an error to send.
ListenFails ==
  /\ Running /\ listener = "starting"
  /\ listener' = "failed"
  /\ UNCHANGED <<codeCh, errCh, handler, closing, timer>> /\ MainFrame

SendListenError ==
  /\ Running /\ listener = "failed" /\ Len(errCh) < Capacity
  /\ errCh' = Append(errCh, "listener")
  /\ listener' = "reported"
  /\ UNCHANGED <<codeCh, handler, closing, timer>> /\ MainFrame

\* What a handler is going to send: the state is looked at before the code.
Sends(c) == IF KindOf[c] = "good" THEN "code" ELSE "error"

\* Seeded fault: any callback with a code will do.
MutCallback(c) ==
  /\ Running /\ listener = "serving" /\ handler[c] = "none"
  /\ handler' = [handler EXCEPT ![c] = IF KindOf[c] = "empty" THEN "error" ELSE "code"]
  /\ UNCHANGED <<codeCh, errCh, listener, closing, timer>> /\ MainFrame

Callback(c) ==
  /\ Running /\ listener = "serving" /\ handler[c] = "none"
  /\ handler' = [handler EXCEPT ![c] = Sends(c)]
  /\ UNCHANGED <<codeCh, errCh, listener, closing, timer>> /\ MainFrame

\* Seeded fault: a handler does not wait for room in the channel.
MutSendError(c) ==
  /\ Running /\ handler[c] = "error"
  /\ errCh' = Append(errCh, c)
  /\ handler' = [handler EXCEPT ![c] = "answered"]
  /\ UNCHANGED <<codeCh, listener, closing, timer>> /\ MainFrame

SendError(c) ==
  /\ Running /\ handler[c] = "error" /\ Len(errCh) < Capacity
  /\ errCh' = Append(errCh, c)
  /\ handler' = [handler EXCEPT ![c] = "answered"]
  /\ UNCHANGED <<codeCh, listener, closing, timer>> /\ MainFrame

SendCode(c) ==
  /\ Running /\ handler[c] = "code" /\ Len(codeCh) < Capacity
  /\ codeCh' = Append(codeCh, c)
  /\ handler' = [handler EXCEPT ![c] = "answered"]
  /\ closing' = closing \cup {c}
  /\ UNCHANGED <<errCh, listener, timer>> /\ MainFrame

\* Seeded fault: ErrServerClosed is taken for an error.
MutShutdown(c) ==
  /\ Running /\ c \in closing
  /\ closing' = closing \ {c}
  /\ listener' = IF listener = "serving" THEN "closed" ELSE listener
  /\ errCh' = IF errCh = <<>> THEN <<"listener">> ELSE errCh
  /\ UNCHANGED <<codeCh, handler, timer>> /\ MainFrame

\* ListenAndServe returns ErrServerClosed, which is not an error; handlers that
\* still run are let finish.
Shutdown(c) ==
  /\ Running /\ c \in closing
  /\ closing' = closing \ {c}
  /\ listener' = IF listener = "serving" THEN "closed" ELSE listener
  /\ UNCHANGED <<codeCh, errCh, handler, timer>> /\ MainFrame

TimerFires ==
  /\ Running /\ timer = "running"
  /\ timer' = "fired"
  /\ UNCHANGED <<codeCh, errCh, handler, listener, closing>> /\ MainFrame

-----------------------------------------------------------------------------
(* main.  Its select takes any of the channels that is ready.              *)

Exit(status) ==
  /\ main' = "exited"
  /\ exit' = status

ServerFrame == UNCHANGED <<handler, listener, closing, timer>>

TakeCode ==
  /\ main = "waiting" /\ codeCh # <<>>
  /\ main' = "exchanging"
  /\ code' = Head(codeCh) /\ codeCh' = Tail(codeCh)
  /\ UNCHANGED <<exit, stdout, errCh, refused>> /\ ServerFrame

TakeError ==
  /\ main = "waiting" /\ errCh # <<>>
  /\ Exit("failure") /\ errCh' = Tail(errCh)
  /\ UNCHANGED <<code, stdout, codeCh, refused>> /\ ServerFrame

\* Seeded fault: the time of a server that never came up does not run out.
MutTimeOut ==
  /\ main = "waiting" /\ timer = "fired" /\ listener # "starting"
  /\ Exit("failure")
  /\ UNCHANGED <<code, stdout, codeCh, errCh, refused>> /\ ServerFrame

TimeOut ==
  /\ main = "waiting" /\ timer = "fired"
  /\ Exit("failure")
  /\ UNCHANGED <<code, stdout, codeCh, errCh, refused>> /\ ServerFrame

\* Dex answers with an access token.
Exchange ==
  /\ main = "exchanging"
  /\ Exit("success") /\ stdout' = code
  /\ UNCHANGED <<code, codeCh, errCh, refused>> /\ ServerFrame

\* No connection, another status than 200, an error, or no access token in it.
\* A Dex that takes the request and never answers is neither this nor Exchange:
\* the request has no timeout, and the five minutes are those of the select.
ExchangeFails ==
  /\ main = "exchanging"
  /\ Exit("failure") /\ refused' = TRUE
  /\ UNCHANGED <<code, stdout, codeCh, errCh>> /\ ServerFrame

Answer == Exchange \/ ExchangeFails

LoginNext ==
  \/ Listen \/ ListenFails \/ SendListenError \/ TimerFires
  \/ \E c \in Callbacks : Callback(c) \/ SendError(c) \/ SendCode(c) \/ Shutdown(c)
  \/ TakeCode \/ TakeError \/ TimeOut \/ Answer

LoginSpec == LoginInit /\ [][LoginNext]_loginVars

\* The timer fires, and a select with something ready ends.  Nobody has to log in,
\* and Dex does not have to answer.
LoginFairness ==
  /\ WF_loginVars(TimerFires)
  /\ WF_loginVars(TakeCode \/ TakeError \/ TimeOut)

-----------------------------------------------------------------------------
(* Properties.                                                             *)

Origins == Callbacks \cup {"listener"}

\* Every variable has its type; in particular no channel holds more than it can.
LoginTypeOK ==
  /\ main \in {"waiting", "exchanging", "exited"}
  /\ exit \in {"none", "success", "failure"}
  /\ code \in Callbacks \cup {NoCallback} /\ stdout \in Callbacks \cup {NoCallback}
  /\ codeCh \in Seq(Callbacks) /\ Len(codeCh) <= Capacity
  /\ errCh \in Seq(Origins) /\ Len(errCh) <= Capacity
  /\ handler \in [Callbacks -> {"none", "code", "error", "answered"}]
  /\ listener \in {"starting", "serving", "failed", "reported", "closed"}
  /\ closing \subseteq Callbacks
  /\ timer \in {"running", "fired"} /\ refused \in BOOLEAN

\* What a caller captures from stdout is nothing, unless the exit status is zero
\* (comment at lines 146-148); then it is the token of the code the exchange was
\* made with, which came with this run's own state: a callback of another login,
\* before or after the right one, never gets its token printed.
TokenIsOurs ==
  /\ stdout # NoCallback => stdout = code /\ KindOf[stdout] = "good"
  /\ exit = "success" <=> stdout # NoCallback

\* The program fails only for a reason: a bad callback was answered, the port was
\* taken, the time was up, or Dex refused.  In particular the shutdown after a
\* good code, or a second good callback, never makes it fail.
FailureHasReason ==
  exit = "failure" =>
    \/ \E c \in Callbacks : KindOf[c] # "good" /\ handler[c] = "answered"
    \/ listener = "reported"
    \/ timer = "fired"
    \/ refused

\* The program ends, whichever callbacks arrive and whichever handlers block,
\* unless it waits for ever for Dex to answer the exchange of the code.
LoginEnds == <>(main = "exited") \/ <>[](main = "exchanging")
=============================================================================
