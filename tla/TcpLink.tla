-------------------------------- MODULE TcpLink --------------------------------
(***************************************************************************)
(* A TCP server and clients of the library, TcpSessionC (Tcp.cpp).  The    *)
(* server is TcpServer, whose steps are conjoined here with what a client  *)
(* can make of them; the clients of other sessions do as they please.      *)
(*                                                                         *)
(* A client connects, reads the server's greeting, under a timer if        *)
(* init() is asynchronous, answers it and believes itself initialised.     *)
(* Nobody tells it whether its answer was accepted: it learns of a         *)
(* refusal, or of the end of its session, from its socket.                 *)
(***************************************************************************)
EXTENDS TcpServer

CONSTANT Client            \* the sessions whose client is a TcpSessionC

ASSUME ClientAssumption == Client \subseteq Session

VARIABLES
  phaseC,                  \* how far the client is
  timerC,                  \* init()'s timer; "off" if it has none
  openC                    \* its socket is open

client == <<phaseC, timerC, openC>>
linkVars == <<client, vars>>

InitLink ==
  /\ Init
  /\ phaseC = [s \in Client |-> "new"]
  /\ timerC = [s \in Client |-> "off"]
  /\ openC = [s \in Client |-> FALSE]

-----------------------------------------------------------------------------
(* connect(), and init() until it waits for the greeting: a synchronous    *)
(* one has no timer.                                                       *)
ConnectC(s) ==
  /\ phaseC[s] = "new"
  /\ phaseC' = [phaseC EXCEPT ![s] = "waiting"]
  /\ openC' = [openC EXCEPT ![s] = TRUE]
  /\ timerC' \in {[timerC EXCEPT ![s] = "unarmed"], timerC}
  /\ UNCHANGED vars

(* The timer is armed after the wait was begun, whose handler may have run *)
(* on its worker meanwhile and cancelled nothing.                          *)
ArmTimerC(s) ==
  /\ timerC[s] = "unarmed"
  /\ timerC' = [timerC EXCEPT ![s] = "armed"]
  /\ UNCHANGED <<phaseC, openC, vars>>

CancelC(s) == timerC' = [timerC EXCEPT ![s] = IF @ = "armed" THEN "done" ELSE @]

(* The server has written its greeting: only then is its timer started.    *)
GreetingSent(s) == timer[s] # "off"

(* init()'s handler: the greeting is good and is answered, or it is short  *)
(* or wrongly signed, or the answer cannot be written.                     *)
GreetedC(s) ==
  /\ phaseC[s] = "waiting" /\ openC[s] /\ GreetingSent(s)
  /\ CancelC(s)
  /\ \E verdict \in {"inited", "failed"} : phaseC' = [phaseC EXCEPT ![s] = verdict]
  /\ UNCHANGED <<openC, vars>>

(* The same, with an error: the client's timer has closed its socket, or   *)
(* the server has closed its own.                                          *)
InitFailsC(s) ==
  /\ phaseC[s] = "waiting"
  /\ ~openC[s] \/ (phase[s] # "none" /\ ~open[s])
  /\ CancelC(s)
  /\ phaseC' = [phaseC EXCEPT ![s] = "failed"]
  /\ UNCHANGED <<openC, vars>>

(* Two seconds have passed; the handler runs on a worker of its own, and   *)
(* cancel() does not stop it once it is queued.                            *)
TimerExpiresC(s) ==
  /\ timerC[s] = "armed"
  /\ timerC' = [timerC EXCEPT ![s] = "fired"]
  /\ UNCHANGED <<phaseC, openC, vars>>

TimerRunsC(s) ==
  /\ timerC[s] = "fired"
  /\ timerC' = [timerC EXCEPT ![s] = "done"]
  /\ openC' = [openC EXCEPT ![s] = FALSE]
  /\ UNCHANGED <<phaseC, vars>>

UserCloses(s) ==
  /\ phaseC[s] = "inited" /\ openC[s]
  /\ openC' = [openC EXCEPT ![s] = FALSE]
  /\ UNCHANGED <<phaseC, timerC, vars>>

(* startRead()'s loop meets the end of the stream: removeSelf is close().  *)
ReadFailsC(s) ==
  /\ phaseC[s] = "inited" /\ openC[s] /\ ~open[s]
  /\ openC' = [openC EXCEPT ![s] = FALSE]
  /\ UNCHANGED <<phaseC, timerC, vars>>

ClientStep(s) ==
  \/ ConnectC(s) \/ ArmTimerC(s) \/ GreetedC(s) \/ InitFailsC(s)
  \/ TimerExpiresC(s) \/ TimerRunsC(s)
  \/ UserCloses(s) \/ ReadFailsC(s)

-----------------------------------------------------------------------------
(* What the server does with a session needs its client: a connection to   *)
(* accept, an answer, or the end of the stream, to end its wait, and       *)
(* messages to read.                                                       *)
Allowed(s) ==
  /\ phase[s] = "none" /\ phase'[s] = "greeting" => phaseC[s] # "new"
  /\ phase[s] = "waiting" /\ phase'[s] = "counting" => phaseC[s] = "inited"
  /\ phase[s] = "waiting" /\ phase'[s] = "ended" => ~open[s] \/ ~openC[s] \/ phaseC[s] = "inited"
  /\ reads'[s] > reads[s] => phaseC[s] = "inited"

Server ==
  /\ Next
  /\ \A s \in Client : Allowed(s)
  /\ UNCHANGED client

NextLink == Server \/ \E s \in Client : ClientStep(s)

(* The server's threads and timers, and the client's.  An answer that has  *)
(* arrived is looked at, and so is the end of a stream; users of a client  *)
(* need not close it, but they do call startRead().                        *)
FairLink ==
  /\ Fairness
  /\ \A s \in Client :
       /\ WF_linkVars(GreetedC(s) \/ InitFailsC(s))
       /\ WF_linkVars(ArmTimerC(s))
       /\ WF_linkVars(TimerExpiresC(s)) /\ WF_linkVars(TimerRunsC(s))
       /\ WF_linkVars(ReadFailsC(s))
       /\ WF_linkVars(phaseC[s] = "inited" /\ Server /\ (AnswerAccepted(s) \/ AnswerRefused(s)))
       /\ WF_linkVars(~openC[s] /\ Server /\ (AnswerRefused(s) \/ ReadFails(s)))

SpecLink == InitLink /\ [][NextLink]_linkVars
FairSpecLink == SpecLink /\ FairLink

-----------------------------------------------------------------------------
(* When all is settled, no init() of a connection the server accepted     *)
(* waits on, and a client believes itself connected exactly if the server  *)
(* has its session in the table: a refused answer, a timer of either side  *)
(* that came too late, a client that came back under the same key, a       *)
(* removal and a close leave no connection half open.                      *)
SidesAgree ==
  \A s \in Client :
    <>[](phase[s] # "none" =>
           /\ phaseC[s] # "waiting"
           /\ phaseC[s] = "inited" /\ openC[s] <=> Registered(s))
=============================================================================
